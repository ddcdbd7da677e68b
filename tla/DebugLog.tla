------------------------------ MODULE DebugLog ------------------------------
(***************************************************************************)
(* DoLogEntry (NA_Plugin_IPFiltering.cpp, lines 46-79) with                *)
(* GetCurrentDateTimeA (99-105), called by any thread of any process that  *)
(* has loaded the plugin: the host, or a rundll32.  They all append to one *)
(* file.  Nothing in the code keeps one thread from disturbing another but *)
(* that CreateFile opens a file for writing only once at a time.           *)
(*                                                                         *)
(* A call writes its entry in parts, one for each WriteFile: the bracket,  *)
(* the time, what closes the bracket, the text, and the end of the line.   *)
(* The time is formatted in a static buffer, one per process.              *)
(***************************************************************************)
EXTENDS Integers, Sequences

CONSTANTS
  Calls,     \* calls of DoLogEntry, each made at most once
  Processes, \* processes that have loaded the plugin
  Home,      \* call -> the process it is made in
  Writes,    \* how many parts an entry has: five in the code, the second one is the time
  MaxTime,   \* bound on the clock
  Faults     \* what may happen: an "open" or a "write" fails, a "crash"

ASSUME LogAssumption ==
  /\ Home \in [Calls -> Processes]
  /\ Writes \in Nat /\ Writes >= 2
  /\ MaxTime \in Nat
  /\ Faults \subseteq {"open", "write", "crash"}

VARIABLES
  File,             \* the log file, a sequence of parts of entries
  handles,          \* the calls that have the file open
  CurrentDateTimeA, \* process -> the static buffer
  clock,
  \* per call
  pc,               \* how far it is
  part,             \* the part it writes next
  pos,              \* where in the file it writes next
  Now               \* the time it has read

callVars == <<pc, part, pos, Now>>
vars     == <<File, handles, CurrentDateTimeA, clock, callVars>>

Parts == 1 .. Writes
Time  == 0 .. MaxTime

\* A time remembers which call formatted it; the buffer starts blank.
Stamp   == [of: Calls, at: Time]
Blank   == [of |-> "nobody"]
Piece   == [by: Calls, part: Parts \ {2}]
TimeOf  == [by: Calls, part: {2}, stamp: Stamp]
Zeros   == [part |-> 0]

Init ==
  /\ File = <<>>
  /\ handles = {}
  /\ CurrentDateTimeA = [p \in Processes |-> Blank]
  /\ clock = 0
  /\ pc = [c \in Calls |-> "idle"]
  /\ part = [c \in Calls |-> 1]
  /\ pos = [c \in Calls |-> 1]
  /\ Now = [c \in Calls |-> 0]

\* Mutant of CanOpen: FILE_SHARE_WRITE is among the sharing modes.
SharesWrite == TRUE

CanOpen == handles = {}

\* OPEN_ALWAYS, FILE_SHARE_READ.
Open(c) ==
  /\ pc[c] = "idle"
  /\ CanOpen
  /\ handles' = handles \cup {c}
  /\ pc' = [pc EXCEPT ![c] = "opened"]
  /\ UNCHANGED <<File, CurrentDateTimeA, clock, part, pos, Now>>

\* The file is in use, or cannot be opened at all: the entry is lost.
OpenFails(c) ==
  /\ pc[c] = "idle"
  /\ ~CanOpen \/ "open" \in Faults
  /\ pc' = [pc EXCEPT ![c] = "ended"]
  /\ UNCHANGED <<File, handles, CurrentDateTimeA, clock, part, pos, Now>>

\* Mutants of FileEnd: the pointer stays where it is; it is set one too far.
FileStart  == 1
BeyondEnd  == Len(File) + 2

FileEnd == Len(File) + 1

Seek(c) ==
  /\ pc[c] = "opened"
  /\ pos' = [pos EXCEPT ![c] = FileEnd]
  /\ pc' = [pc EXCEPT ![c] = "writing"]
  /\ UNCHANGED <<File, handles, CurrentDateTimeA, clock, part, Now>>

\* GetLocalTime, after the first part has been written.
ReadClock(c) ==
  /\ pc[c] = "writing"
  /\ part[c] = 2
  /\ Now' = [Now EXCEPT ![c] = clock]
  /\ pc' = [pc EXCEPT ![c] = "formatting"]
  /\ UNCHANGED <<File, handles, CurrentDateTimeA, clock, part, pos>>

\* Mutant of Formatted: the static buffer is initialised once.
FormattedOnce(c) == IF CurrentDateTimeA[Home[c]] # Blank THEN CurrentDateTimeA[Home[c]]
                    ELSE [of |-> c, at |-> Now[c]]

Formatted(c) == [of |-> c, at |-> Now[c]]

FormatTime(c) ==
  /\ pc[c] = "formatting"
  /\ CurrentDateTimeA' = [CurrentDateTimeA EXCEPT ![Home[c]] = Formatted(c)]
  /\ pc' = [pc EXCEPT ![c] = "formatted"]
  /\ UNCHANGED <<File, handles, clock, part, pos, Now>>

\* The next part can be written: the time once it has been formatted, any other at once.
Ready(c) ==
  /\ part[c] \in Parts
  /\ pc[c] = IF part[c] = 2 THEN "formatted" ELSE "writing"

\* What is written: the time is taken from the buffer.
PartOf(c) ==
  IF part[c] = 2 THEN [by |-> c, part |-> 2, stamp |-> CurrentDateTimeA[Home[c]]]
  ELSE [by |-> c, part |-> part[c]]

\* The file with one part written at a place, over what is there, or after its end.
Written(file, at, piece) ==
  [i \in 1 .. (IF at > Len(file) THEN at ELSE Len(file)) |->
     IF i = at THEN piece ELSE IF i \in DOMAIN file THEN file[i] ELSE Zeros]

WritePart(c) ==
  /\ Ready(c)
  /\ File' = Written(File, pos[c], PartOf(c))
  /\ pos' = [pos EXCEPT ![c] = @ + 1]
  /\ part' = [part EXCEPT ![c] = @ + 1]
  /\ pc' = [pc EXCEPT ![c] = "writing"]
  /\ UNCHANGED <<handles, CurrentDateTimeA, clock, Now>>

\* The disk is full: what WriteFile returns is not looked at.
WriteFails(c) ==
  /\ Ready(c)
  /\ "write" \in Faults
  /\ part' = [part EXCEPT ![c] = @ + 1]
  /\ pc' = [pc EXCEPT ![c] = "writing"]
  /\ UNCHANGED <<File, handles, CurrentDateTimeA, clock, pos, Now>>

Close(c) ==
  /\ pc[c] = "writing"
  /\ part[c] \notin Parts
  /\ handles' = handles \ {c}
  /\ pc' = [pc EXCEPT ![c] = "ended"]
  /\ UNCHANGED <<File, CurrentDateTimeA, clock, part, pos, Now>>

\* A process ends in the middle of whatever its calls are doing; the system closes its handles.
Crash(p) ==
  /\ "crash" \in Faults
  /\ pc' = [c \in Calls |-> IF Home[c] = p THEN "ended" ELSE pc[c]]
  /\ handles' = {c \in handles : Home[c] # p}
  /\ UNCHANGED <<File, CurrentDateTimeA, clock, part, pos, Now>>

Tick ==
  /\ clock < MaxTime
  /\ clock' = clock + 1
  /\ UNCHANGED <<File, handles, CurrentDateTimeA, callVars>>

LogStep(c) ==
  \/ Open(c) \/ OpenFails(c) \/ Seek(c) \/ ReadClock(c) \/ FormatTime(c)
  \/ WritePart(c) \/ WriteFails(c) \/ Close(c)

Rest == (\A c \in Calls : pc[c] = "ended") /\ UNCHANGED vars

Next == Tick \/ Rest \/ (\E p \in Processes : Crash(p)) \/ \E c \in Calls : LogStep(c)

Spec == Init /\ [][Next]_vars

-----------------------------------------------------------------------------
(* Properties.                                                             *)

\* The variables have their types, and no part of the file has been left unwritten.
TypeOK ==
  /\ File \in Seq(Piece \cup TimeOf)
  /\ handles \subseteq Calls
  /\ CurrentDateTimeA \in [Processes -> Stamp \cup {Blank}]
  /\ clock \in Time
  /\ pc \in [Calls -> {"idle", "opened", "writing", "formatting", "formatted", "ended"}]
  /\ part \in [Calls -> 1 .. Writes + 1]
  /\ pos \in [Calls -> Nat \ {0}]
  /\ Now \in [Calls -> Time]

\* Whatever the threads and processes do, and whichever of them ends in the middle of an
\* entry or cannot write all of it, what the calls write is not mixed: the parts that a call
\* has written follow one another, in their order.
NotMixed ==
  \A i, j \in DOMAIN File : i < j /\ File[i].by = File[j].by =>
    /\ File[i].part < File[j].part
    /\ \A k \in i .. j : File[k].by = File[i].by

\* No entry has the time of another one, although all threads share one buffer for it.
OwnTime == \A i \in DOMAIN File : File[i].part = 2 => File[i].stamp.of = File[i].by

\* The entries are in the order of the instants at which their times were read. (The instants are
\* those of a clock that is not set back; the local time that is written may go back with it.)
InOrder ==
  \A i, j \in DOMAIN File :
    i < j /\ File[i].part = 2 /\ File[j].part = 2 => File[i].stamp.at <= File[j].stamp.at

\* All parts of an entry end at position i.
EntryEnds(i) ==
  /\ i >= Writes
  /\ \A k \in Parts : File[i - Writes + k].by = File[i].by /\ File[i - Writes + k].part = k

\* The whole entries in the file are never changed or removed, and one is only added at the
\* end, by the one call that has the file.
Book == INSTANCE LogBook WITH
  writer <- handles,
  book   <- [i \in {n \in DOMAIN File : EntryEnds(n)} |-> File[i].by]

BookKept == Book!Spec
=============================================================================
