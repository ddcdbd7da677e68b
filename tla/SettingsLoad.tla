---------------------------- MODULE SettingsLoad ----------------------------
(***************************************************************************)
(* SettingsBase::Load (NA_Plugin_IPFiltering.cpp, lines 132-352), run once *)
(* by the constructor of the global Settings: the settings file is parsed, *)
(* and its servers, filters and values are appended one by one to what is  *)
(* already in place when an exception ends the loading.                    *)
(*                                                                         *)
(* A member of a JSON object is absent, of the wrong type, or right; a     *)
(* right one carries its value.  An array element without the member that  *)
(* makes it useful is wrong.  Every text that is kept goes through         *)
(* UTF8ToUTF16, which makes it the empty one where memory lacks, and the   *)
(* loading goes on.                                                        *)
(***************************************************************************)
EXTENDS Integers, Sequences, FilterEval

CONSTANTS
  Files,    \* what the settings file may hold
  Urls,     \* values of "url"
  BadUrls,  \* those for which building the client throws
  NoMemory, \* whether an allocation may fail
  Empty     \* the text without characters, as a URL, as a path and as a value

Absent   == [is |-> "absent"]
Wrong    == [is |-> "wrong"]
Right(S) == [is: {"right"}, of: S]
Field(S) == {Absent, Wrong} \cup Right(S)

Values      == Seq({Wrong} \cup Right(Text))
FilterEntry == [path: Field(Path), allow_only: Field(Values), allow_none: Field(Values)]
Entry       == [url: Field(Urls), username: Field({"text"}), password: Field({"text"}),
                filters: Field(Seq({Wrong} \cup Right(FilterEntry)))]

\* A file that is missing or empty has no text; one that is not JSON has no members.
Unreadable == [is |-> "unreadable"]
File       == {Unreadable} \cup Field(Seq({Wrong} \cup Right(Entry)))

ASSUME LoadAssumption ==
  /\ Files \subseteq File
  /\ BadUrls \subseteq Urls
  /\ NoMemory \in BOOLEAN
  /\ Empty \in BadUrls \cap Path \cap Text

VARIABLES
  SetDoc,    \* the settings file
  pc,        \* which loop the loading is in
  x, y, o,   \* index of the server, the filter and the value it is at
  HasLoaded, \* what the IP check looks at
  Servers,   \* the list the IP check uses
  loaded     \* "none", or what Load returned, or "thrown"

cursor == <<x, y, o>>
vars   == <<SetDoc, pc, cursor, HasLoaded, Servers, loaded>>

Server == [URL: Urls, WebClient: BOOLEAN, Filters: Seq(Filter)]

Init ==
  /\ SetDoc \in Files
  /\ pc = "open"
  /\ x = 1 /\ y = 1 /\ o = 1
  /\ HasLoaded = FALSE
  /\ Servers = <<>>
  /\ loaded = "none"

Finish(result) == pc' = "done" /\ loaded' = result

\* UTF8ToUTF16: what may stand for a text that is lost, and what a text becomes.
Loss         == IF NoMemory THEN {Empty} ELSE {}
Converted(t) == {t} \cup Loss

\* Mutant of LoadNothing: the settings count as loaded before the servers are found.
LoadedAnyway ==
  /\ pc = "open"
  /\ SetDoc.is # "right"
  /\ HasLoaded' = TRUE
  /\ Finish(IF SetDoc = Unreadable THEN "false" ELSE "true")
  /\ UNCHANGED <<SetDoc, cursor, Servers>>

\* The file has no text, or no array of servers: nothing is loaded.
LoadNothing ==
  /\ pc = "open"
  /\ SetDoc.is # "right"
  /\ Finish(IF SetDoc = Unreadable THEN "false" ELSE "true")
  /\ UNCHANGED <<SetDoc, cursor, HasLoaded, Servers>>

FindServers ==
  /\ pc = "open"
  /\ SetDoc.is = "right"
  /\ HasLoaded' = TRUE
  /\ pc' = "servers"
  /\ UNCHANGED <<SetDoc, cursor, Servers, loaded>>

\* An allocation fails before the servers are found: the exception leaves Load, or is
\* caught there once the file is parsed.
ThrowEarly ==
  /\ pc = "open"
  /\ NoMemory
  /\ Finish("thrown") \/ Finish("false")
  /\ UNCHANGED <<SetDoc, cursor, HasLoaded, Servers>>

-----------------------------------------------------------------------------
(* The loop over the servers.                                              *)

ThisServer == SetDoc.of[x]

IsUsable(entry) ==
  /\ entry.is = "right"
  /\ entry.of.url.is = "right"
  /\ entry.of.username.is # "wrong"
  /\ entry.of.password.is # "wrong"

NextServer == pc' = "servers" /\ x' = x + 1 /\ UNCHANGED <<y, o>>

SkipServer ==
  /\ pc = "servers"
  /\ x <= Len(SetDoc.of)
  /\ ~IsUsable(ThisServer)
  /\ NextServer
  /\ UNCHANGED <<SetDoc, HasLoaded, Servers, loaded>>

\* The server enters the list before it has a client or a filter.
TakeServer ==
  /\ pc = "servers"
  /\ x <= Len(SetDoc.of)
  /\ IsUsable(ThisServer)
  /\ \E url \in Converted(ThisServer.of.url.of) :
       Servers' = Append(Servers, [URL |-> url, WebClient |-> FALSE, Filters |-> <<>>])
  /\ pc' = "client"
  /\ UNCHANGED <<SetDoc, cursor, HasLoaded, loaded>>

BuildClient ==
  /\ pc = "client"
  /\ Servers[Len(Servers)].URL \notin BadUrls
  /\ Servers' = [Servers EXCEPT ![Len(Servers)].WebClient = TRUE]
  /\ IF ThisServer.of.filters.is = "right"
     THEN pc' = "filters" /\ y' = 1 /\ UNCHANGED <<x, o>>
     ELSE NextServer
  /\ UNCHANGED <<SetDoc, HasLoaded, loaded>>

\* Mutant of GiveUp: the exception only ends the loading of one server.
GiveUpServer == NextServer /\ loaded' = loaded

GiveUp == Finish("false") /\ UNCHANGED cursor

\* The URL is no URI, or an allocation fails: the exception is caught outside the loops,
\* and what the list holds remains in it.
Throw ==
  /\ pc \in {"servers", "client", "filters", "allow_only", "allow_none"}
  /\ \/ pc = "client" /\ Servers[Len(Servers)].URL \in BadUrls
     \/ NoMemory /\ SetDoc.of # <<>>
  /\ GiveUp
  /\ UNCHANGED <<SetDoc, HasLoaded, Servers>>

EndServers ==
  /\ pc = "servers"
  /\ x > Len(SetDoc.of)
  /\ Finish("true")
  /\ UNCHANGED <<SetDoc, cursor, HasLoaded, Servers>>

-----------------------------------------------------------------------------
(* The loop over the filters of a server.                                  *)

Filters    == ThisServer.of.filters.of
ThisFilter == Filters[y]

HasPath(filter) == filter.is = "right" /\ filter.of.path.is = "right"

NextFilter == pc' = "filters" /\ y' = y + 1 /\ UNCHANGED <<x, o>>

SkipFilter ==
  /\ pc = "filters"
  /\ y <= Len(Filters)
  /\ ~HasPath(ThisFilter)
  /\ NextFilter
  /\ UNCHANGED <<SetDoc, HasLoaded, Servers, loaded>>

TakeFilter ==
  /\ pc = "filters"
  /\ y <= Len(Filters)
  /\ HasPath(ThisFilter)
  /\ \E path \in Converted(ThisFilter.of.path.of) :
       Servers' = [Servers EXCEPT ![Len(Servers)].Filters =
                     Append(@, [Path |-> path, AllowOnly |-> {}, AllowNone |-> {}])]
  /\ pc' = "allow_only" /\ o' = 1
  /\ UNCHANGED <<SetDoc, x, y, HasLoaded, loaded>>

EndFilters ==
  /\ pc = "filters"
  /\ y > Len(Filters)
  /\ NextServer
  /\ UNCHANGED <<SetDoc, HasLoaded, Servers, loaded>>

-----------------------------------------------------------------------------
(* The loops over the values of "allow_only" and "allow_none".             *)

InList == pc \in {"allow_only", "allow_none"}
List   == IF pc = "allow_only" THEN ThisFilter.of.allow_only ELSE ThisFilter.of.allow_none

\* A list that is no array also keeps the list that follows it from being read.
WrongList ==
  /\ InList
  /\ List.is = "wrong"
  /\ NextFilter
  /\ UNCHANGED <<SetDoc, HasLoaded, Servers, loaded>>

SkipValue ==
  /\ InList
  /\ List.is = "right"
  /\ o <= Len(List.of)
  /\ List.of[o].is = "wrong"
  /\ o' = o + 1
  /\ UNCHANGED <<SetDoc, pc, x, y, HasLoaded, Servers, loaded>>

\* Mutants: both loops, one a copy of the other, fill one list; the first filter of a
\* server gets the values of them all.
AlwaysAllowOnly(filter, list, text) == [filter EXCEPT !.AllowOnly = @ \cup {text}]
FirstFilter(server) == 1

WithValue(filter, list, text) ==
  IF list = "allow_only" THEN [filter EXCEPT !.AllowOnly = @ \cup {text}]
  ELSE [filter EXCEPT !.AllowNone = @ \cup {text}]

NewFilter(server) == Len(server.Filters)

TakeValue ==
  /\ InList
  /\ List.is = "right"
  /\ o <= Len(List.of)
  /\ List.of[o].is = "right"
  /\ \E text \in Converted(List.of[o].of) :
       Servers' = [Servers EXCEPT ![Len(Servers)].Filters[NewFilter(Servers[Len(Servers)])] =
                     WithValue(@, pc, text)]
  /\ o' = o + 1
  /\ UNCHANGED <<SetDoc, pc, x, y, HasLoaded, loaded>>

\* Mutant of FirstValue: the loop over one list goes on where that over the other ended.
SameValue == o

FirstValue == 1

\* The list is absent or read to its end.
EndList ==
  /\ InList
  /\ List.is = "right" => o > Len(List.of)
  /\ List.is # "wrong"
  /\ IF pc = "allow_only" THEN pc' = "allow_none" /\ o' = FirstValue /\ UNCHANGED <<x, y>>
     ELSE NextFilter
  /\ UNCHANGED <<SetDoc, HasLoaded, Servers, loaded>>

Next ==
  \/ LoadNothing \/ FindServers \/ ThrowEarly
  \/ SkipServer \/ TakeServer \/ BuildClient \/ Throw \/ EndServers
  \/ SkipFilter \/ TakeFilter \/ EndFilters
  \/ WrongList \/ SkipValue \/ TakeValue \/ EndList
  \/ pc = "done" /\ UNCHANGED vars

Spec == Init /\ [][Next]_vars

-----------------------------------------------------------------------------
(* Reference definition: what a file says.                                 *)

TextsOf(list) == IF list.is = "right"
                 THEN {list.of[i].of : i \in {j \in DOMAIN list.of : list.of[j].is = "right"}}
                 ELSE {}

FilterOf(entry) == [Path |-> entry.path.of, AllowOnly |-> TextsOf(entry.allow_only),
                    AllowNone |-> TextsOf(entry.allow_none)]

ServerOf(entry) == [URL |-> entry.url.of, WebClient |-> TRUE,
                    Filters |-> [i \in DOMAIN entry.filters.of |->
                                   FilterOf(entry.filters.of[i].of)]]

\* A filter that may have lost a text has an empty one.
Lost(filter) == Loss \cap ({filter.Path} \cup filter.AllowOnly \cup filter.AllowNone) # {}

\* What is in force of the texts, of the filter and of the server that the file states.
KeptAll(texts, stated) == \/ texts = stated
                          \/ Loss \cap texts # {} /\ texts \subseteq stated \cup Loss

AsStated(filter, stated) ==
  /\ filter.Path \in Converted(stated.Path)
  /\ KeptAll(filter.AllowOnly, stated.AllowOnly)
  /\ KeptAll(filter.AllowNone, stated.AllowNone)

ServerAsStated(server, stated) ==
  /\ server.URL = stated.URL
  /\ server.WebClient
  /\ DOMAIN server.Filters = DOMAIN stated.Filters
  /\ \A j \in DOMAIN stated.Filters : AsStated(server.Filters[j], stated.Filters[j])

\* Nothing in the file has the wrong type, and nothing is missing that has no default.
CleanList(list) ==
  \/ list.is = "absent"
  \/ list.is = "right" /\ \A i \in DOMAIN list.of : list.of[i].is = "right"

CleanFilter(f) ==
  /\ HasPath(f)
  /\ CleanList(f.of.allow_only)
  /\ CleanList(f.of.allow_none)

CleanServer(s) ==
  /\ IsUsable(s)
  /\ s.of.filters.is = "right"
  /\ \A i \in DOMAIN s.of.filters.of : CleanFilter(s.of.filters.of[i])

Clean == SetDoc.is = "right" /\ \A i \in DOMAIN SetDoc.of : CleanServer(SetDoc.of[i])

-----------------------------------------------------------------------------
(* Properties.                                                             *)

\* The variables have their types; the loops stay within their arrays.
TypeOK ==
  /\ SetDoc \in Files
  /\ pc \in {"open", "servers", "client", "filters", "allow_only", "allow_none", "done"}
  /\ x \in Nat \ {0} /\ y \in Nat \ {0} /\ o \in Nat \ {0}
  /\ HasLoaded \in BOOLEAN
  /\ Servers \in Seq(Server)
  /\ loaded \in {"none", "true", "false", "thrown"}
  /\ pc = "servers" => x <= Len(SetDoc.of) + 1
  /\ pc = "filters" => y <= Len(Filters) + 1
  /\ InList /\ List.is = "right" => o <= Len(List.of) + 1

\* A file without defects that is loaded to its end is in force as it was written: its
\* servers in their order, with their URLs, and their filters in their order, with their
\* values.  Of a path or of values, texts may have become empty, if memory lacked; a server
\* whose URL is lost ends the loading.
CleanIsComplete ==
  loaded = "true" /\ Clean =>
    /\ HasLoaded
    /\ DOMAIN Servers = DOMAIN SetDoc.of
    /\ \A i \in DOMAIN Servers : ServerAsStated(Servers[i], ServerOf(SetDoc.of[i].of))

\* A filter has the path and no values but those that an entry of "filters" states, or an
\* empty text for one of them that was lost.
StatedBy(filter, stated) ==
  /\ HasPath(stated)
  /\ filter.Path \in Converted(stated.of.path.of)
  /\ filter.AllowOnly \subseteq TextsOf(stated.of.allow_only) \cup Loss
  /\ filter.AllowNone \subseteq TextsOf(stated.of.allow_none) \cup Loss

\* A server is the one that an entry of "servers" describes, and so are its filters.
FoundIn(server, entry) ==
  /\ IsUsable(entry)
  /\ server.URL \in Converted(entry.of.url.of)
  /\ \A j \in DOMAIN server.Filters :
       /\ entry.of.filters.is = "right"
       /\ \E f \in DOMAIN entry.of.filters.of :
            StatedBy(server.Filters[j], entry.of.filters.of[f])

\* Whatever the defects, wherever the loading ended and whatever memory lacked, a filter in
\* force is one that the file states for that server, with none but its values, and with empty
\* texts for those that were lost.
NothingInvented ==
  \A i \in DOMAIN Servers : \E s \in DOMAIN SetDoc.of : FoundIn(Servers[i], SetDoc.of[s])

\* Only the last server can be in the list without a client, and only if the loading has
\* not come to its end.
OnlyLastLacksClient ==
  \A i \in DOMAIN Servers :
    ~Servers[i].WebClient => i = Len(Servers) /\ loaded # "true" /\ Servers[i].Filters = <<>>

\* Loading that failed leaves the plugin in the state in which it blocks.
FailedLoadBlocks == loaded \in {"false", "thrown"} => ~HasLoaded
=============================================================================
