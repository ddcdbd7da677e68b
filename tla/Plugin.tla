------------------------------- MODULE Plugin -------------------------------
(***************************************************************************)
(* The life of the plugin in a host: when the DLL is loaded the            *)
(* constructor of the global Settings (NA_Plugin_IPFiltering.cpp, lines    *)
(* 115-128) reads the settings file and loads what it says; after that     *)
(* IsIPAllowed answers calls from what has been loaded (PluginBase.cpp,    *)
(* lines 73-86).                                                           *)
(***************************************************************************)
EXTENDS SettingsLoad, SettingsFile

CONSTANTS
  Meanings,      \* text of a JSON document -> what a settings file with it may be read as
  Rejects,       \* URL of a server -> addresses for which no URI can be built
  Calls, Frames, NoFrame, Ips, Docs, NoDoc, MaxPolls, Prompt, Faults \* see IPCheck

ASSUME MeaningsAssumption ==
  /\ {Unreadable, Absent} \subseteq Files
  /\ \A t \in DOMAIN Meanings : Meanings[t] \subseteq Files

ASSUME CallsAssumption ==
  /\ Rejects \in [Urls -> SUBSET Ips]
  /\ Docs \subseteq Doc
  /\ NoFrame \notin Frames
  /\ MaxPolls \in Nat \ {0}
  /\ Prompt \in BOOLEAN
  /\ Faults \subseteq {"connect", "body", "memory"}

VARIABLES
  \* of IPCheck; callPc is its pc, and none of them has a value before the host calls
  running, mem, ip, callPc, frame, next, polls, verdict, Reason, task, at, todo, reg, InDoc

loadVars  == vars
checkVars == <<running, mem, ip, callPc, frame, next, polls, verdict, Reason, task, at, todo,
               reg, InDoc>>

\* What the IP check sees of the settings.
InForce ==
  [HasLoaded |-> HasLoaded,
   Servers   |-> [i \in DOMAIN Servers |-> [WebClient |-> Servers[i].WebClient,
                                            rejects   |-> Rejects[Servers[i].URL],
                                            Filters   |-> Servers[i].Filters]]]

SettingsSpace ==
  [HasLoaded: BOOLEAN,
   Servers: Seq([WebClient: BOOLEAN, rejects: {Rejects[url] : url \in Urls},
                 Filters: Seq(Filter)])]

Check == INSTANCE IPCheck WITH Settings <- InForce, pc <- callPc

PluginInit ==
  /\ InitFile
  /\ SetDoc = Unreadable
  /\ pc = "open" /\ x = 1 /\ y = 1 /\ o = 1
  /\ HasLoaded = FALSE
  /\ Servers = <<>>
  /\ loaded = "none"
  /\ running = TRUE
  /\ mem = <<>> /\ ip = <<>> /\ callPc = <<>> /\ frame = <<>> /\ next = <<>> /\ polls = <<>>
  /\ verdict = <<>> /\ Reason = <<>> /\ task = <<>> /\ at = <<>> /\ todo = <<>> /\ reg = <<>>
  /\ InDoc = <<>>

ReadFile ==
  /\ Save \/ ReadAllText
  /\ UNCHANGED <<loadVars, checkVars>>

\* The path of the DLL cannot be found: nothing is read, and Load is not called.
PathUnknown ==
  /\ step = "ask"
  /\ step' = "unread"
  /\ loaded' = "false"
  /\ UNCHANGED <<disk, saves, seen, TheFileSize, TheWord, text, SetDoc, pc, x, y, o, HasLoaded,
                 Servers, checkVars>>

\* The text is parsed; that it is no JSON, or that the conversion to UTF-8 has lost it for lack
\* of memory, is not noticed, but it has no members then.
Parse ==
  /\ step = "done"
  /\ IF text = <<>> THEN SetDoc' = Unreadable
     ELSE \/ text \in DOMAIN Meanings /\ SetDoc' \in Meanings[text]
          \/ (text \notin DOMAIN Meanings \/ NoMemory) /\ SetDoc' = Absent
  /\ step' = "parsed"
  /\ UNCHANGED <<disk, saves, seen, TheFileSize, TheWord, text, pc, x, y, o, HasLoaded, Servers,
                 loaded, checkVars>>

\* The root of the document is looked into whatever it is.  If it is no object, it may be
\* taken for one (Meanings), or what is read instead ends the process.
NoObject ==
  /\ step = "done"
  /\ text # <<>> /\ text \notin DOMAIN Meanings
  /\ step' = "down"
  /\ UNCHANGED <<disk, saves, seen, TheFileSize, TheWord, text, loadVars, checkVars>>

LoadStep ==
  /\ step = "parsed"
  /\ callPc = <<>>
  /\ Next
  /\ UNCHANGED <<fileVars, checkVars>>

\* The host may call from now on.  An exception that leaves the constructor keeps the DLL
\* from being loaded.
Start ==
  /\ callPc = <<>>
  /\ loaded \in {"true", "false"}
  /\ mem' = [f \in Frames |-> [ChecksRemaining |-> 0, FailCount |-> 0]]
  /\ ip' \in [Calls -> Ips]
  /\ callPc' = [c \in Calls |-> "idle"]
  /\ frame' = [c \in Calls |-> NoFrame]
  /\ next' = [c \in Calls |-> 1]
  /\ polls' = [c \in Calls |-> 0]
  /\ verdict' = [c \in Calls |-> "none"]
  /\ Reason' = [c \in Calls |-> "none"]
  /\ task' = [c \in Calls |-> [s \in DOMAIN Servers |-> "none"]]
  /\ at' = [c \in Calls |-> [s \in DOMAIN Servers |-> 0]]
  /\ todo' = [c \in Calls |-> [s \in DOMAIN Servers |-> <<>>]]
  /\ reg' = [c \in Calls |-> [s \in DOMAIN Servers |-> 0]]
  /\ InDoc' = [c \in Calls |-> [s \in DOMAIN Servers |-> NoDoc]]
  /\ UNCHANGED <<fileVars, loadVars, running>>

CheckStep ==
  /\ callPc # <<>>
  /\ UNCHANGED <<fileVars, loadVars>>
  /\ Check!Next

Gone == (step = "down" \/ loaded = "thrown") /\ UNCHANGED <<fileVars, loadVars, checkVars>>

PluginNext ==
  ReadFile \/ PathUnknown \/ Parse \/ NoObject \/ LoadStep \/ Start \/ CheckStep \/ Gone

PluginSpec == PluginInit /\ [][PluginNext]_<<fileVars, loadVars, checkVars>>

-----------------------------------------------------------------------------
(* Properties.                                                             *)

\* What the versions are made of, for a save that falls between two steps of the reading: a
\* part of one version, behind the first two bytes of one, is no document, or says what one of
\* the two says; and neither a single character nor memory as it was makes one.
WholeOrForeign ==
  /\ \A t \in DOMAIN Meanings : Len(t) >= 2 /\ \A i \in DOMAIN t : t[i] # "junk"
  /\ \A v, w \in (Versions \cup Saves) \ {Missing} : Len(v) >= 2 => \A n \in 2 .. Len(w) :
       LET t == Decoded(SubSeq(v, 1, 2), SubSeq(w, 3, n))
       IN  t \in DOMAIN Meanings => \E u \in {v, w} : \E whole \in DOMAIN Meanings :
             Says(u, whole) /\ Meanings[t] \subseteq Meanings[whole]

\* The settings that are loaded are those of one version that was on the disk in the course
\* of the reading, even if the file is saved between any two of its steps.
OnlySaved ==
  step = "parsed" /\ SetDoc \notin {Unreadable, Absent} =>
    \E v \in seen : \E t \in DOMAIN Meanings : Says(v, t) /\ SetDoc \in Meanings[t]

\* From the file to the verdict: if the file has no defects and is loaded to its end, a call
\* returns true only if each server that the file lists has answered it and permits the
\* answer by every filter that the file lists for it, but for a filter in which a text has
\* become empty for lack of memory.
AllowedAsStated ==
  callPc # <<>> /\ loaded = "true" /\ Clean => \A c \in Calls : verdict[c] = "allow" =>
    \A s \in DOMAIN SetDoc.of :
      /\ task[c][s] = "done"
      /\ \A f \in DOMAIN SetDoc.of[s].of.filters.of :
           LET stated == FilterOf(SetDoc.of[s].of.filters.of[f].of)
           IN  Permits(stated, InDoc[c][s][stated.Path]) \/ Lost(Servers[s].Filters[f])

\* If the settings have no text, are garbled, or are not read at all, every call is blocked.
UnreadBlocks ==
  callPc # <<>> /\ SetDoc.is # "right" => \A c \in Calls : verdict[c] # "allow"
=============================================================================
