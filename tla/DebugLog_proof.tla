--------------------------- MODULE DebugLog_proof ---------------------------
(***************************************************************************)
(* Proofs about DebugLog: that the exclusive open of the file is enough to *)
(* keep the entries of any number of threads and processes apart.          *)
(***************************************************************************)
EXTENDS DebugLog, TLAPS

-----------------------------------------------------------------------------
(* The inductive invariant.                                                *)

\* A call has the file open from its open to its close, or to the end of its process.
Holding ==
  \A c \in Calls :
    c \in handles <=> pc[c] \in {"opened", "writing", "formatting", "formatted"}

\* No two calls have it open.
Alone == \A c, d \in handles : c = d

Prepared ==
  \A c \in Calls :
    /\ pc[c] \in {"idle", "opened"} => part[c] = 1
    /\ pc[c] \in {"formatting", "formatted"} => part[c] = 2

\* Whoever has it writes at its end.
AtEnd == \A c \in handles : pc[c] # "opened" => pos[c] = Len(File) + 1

\* What a call has written precedes what it writes next, and nothing follows it.
Before == \A i \in DOMAIN File : File[i].part < part[File[i].by]
Last   == \A i \in DOMAIN File : File[i].by \in handles =>
            \A k \in i .. Len(File) : File[k].by = File[i].by

\* The buffer belongs to the call that has formatted its time.
Buffered ==
  \A c \in Calls : pc[c] = "formatted" =>
    CurrentDateTimeA[Home[c]] = [of |-> c, at |-> Now[c]]

\* The times in the file have passed when another one is read.
Past(t) == \A i \in DOMAIN File : File[i].part = 2 => File[i].stamp.at <= t
Dated ==
  /\ Past(clock)
  /\ \A c \in Calls : pc[c] \in {"formatting", "formatted"} => Now[c] <= clock /\ Past(Now[c])

IInv ==
  /\ TypeOK /\ Holding /\ Alone /\ Prepared /\ AtEnd
  /\ Before /\ Last /\ NotMixed
  /\ Buffered /\ OwnTime
  /\ Dated /\ InOrder

-----------------------------------------------------------------------------

\* Writing at the end of a file appends to it.
LEMMA WrittenAtEnd ==
  ASSUME NEW S, NEW file \in Seq(S), NEW piece \in S
  PROVE  Written(file, Len(file) + 1, piece) = Append(file, piece)
<1>1. Written(file, Len(file) + 1, piece)
        = [i \in 1 .. Len(file) + 1 |-> IF i = Len(file) + 1 THEN piece ELSE file[i]]
  BY DEF Written
<1> QED
  BY <1>1

-----------------------------------------------------------------------------

LEMMA Initially == Init => IInv
<1> SUFFICES ASSUME Init PROVE IInv
  OBVIOUS
<1> USE LogAssumption DEF Init
<1>1. TypeOK
  BY DEF TypeOK, Time
<1>2. Holding /\ Alone /\ Prepared /\ AtEnd
  BY DEF Holding, Alone, Prepared, AtEnd
<1>3. Before /\ Last /\ NotMixed
  BY DEF Before, Last, NotMixed
<1>4. Buffered /\ OwnTime
  BY DEF Buffered, OwnTime
<1>5. Dated /\ InOrder
  BY DEF Dated, Past, InOrder
<1> QED
  BY <1>1, <1>2, <1>3, <1>4, <1>5 DEF IInv

\* What the parts in the file are.
LEMMA Pieces ==
  ASSUME TypeOK, NEW i \in DOMAIN File
  PROVE  /\ File[i].by \in Calls /\ File[i].part \in 1 .. Writes
         /\ File[i].part = 2 => File[i].stamp.at \in 0 .. MaxTime
<1>1. File[i] \in Piece \cup TimeOf
  BY DEF TypeOK
<1> QED
  BY <1>1, LogAssumption DEF Piece, TimeOf, Stamp, Time, Parts

\* The formulas that speak of the file alone hold as long as it stays as it is.
LEMMA FileStays ==
  ASSUME IInv, UNCHANGED File
  PROVE  NotMixed' /\ OwnTime' /\ InOrder'
BY DEF IInv, NotMixed, OwnTime, InOrder

\* Every step of a call, a crash and a tick keep the invariant.
LEMMA StepKeeps ==
  ASSUME IInv, Next
  PROVE  IInv'
<1> USE LogAssumption DEF IInv
<1>p. \A i \in DOMAIN File :
        /\ File[i].by \in Calls /\ File[i].part \in 1 .. Writes
        /\ File[i].part = 2 => File[i].stamp.at \in 0 .. MaxTime
  BY Pieces
<1>1. ASSUME NEW c \in Calls, Open(c) PROVE IInv'
  <2>1. TypeOK'
    BY <1>1 DEF TypeOK, Time, Stamp, Parts, Open, CanOpen
  <2>2. Holding' /\ Alone' /\ Prepared' /\ AtEnd'
    BY <1>1 DEF TypeOK, Holding, Alone, Prepared, AtEnd, Parts, Open, CanOpen
  <2>3. Before' /\ Last'
    <3>1. \A i \in DOMAIN File : File[i].by # c
      BY <1>1, <1>p DEF Before, Prepared, Open
    <3>2. Before'
      BY <1>1 DEF Before, Open
    <3>3. Last'
      BY <1>1, <3>1 DEF Last, Open, CanOpen
    <3> QED
      BY <3>2, <3>3
  <2>4. Buffered'
    BY <1>1 DEF TypeOK, Buffered, Holding, Alone, Open, CanOpen
  <2>5. Dated'
    BY <1>1, Pieces DEF TypeOK, Dated, Past, Time, Open, CanOpen
  <2> QED
    BY <1>1, <2>1, <2>2, <2>3, <2>4, <2>5, FileStays DEF Open, CanOpen
<1>2. ASSUME NEW c \in Calls, OpenFails(c) PROVE IInv'
  <2>1. TypeOK'
    BY <1>2 DEF TypeOK, Time, Stamp, Parts, OpenFails
  <2>2. Holding' /\ Alone' /\ Prepared' /\ AtEnd'
    BY <1>2 DEF TypeOK, Holding, Alone, Prepared, AtEnd, Parts, OpenFails
  <2>3. Before' /\ Last'
    BY <1>2, Pieces DEF TypeOK, Before, Last, Prepared, Parts, OpenFails
  <2>4. Buffered'
    BY <1>2 DEF TypeOK, Buffered, Holding, Alone, OpenFails
  <2>5. Dated'
    BY <1>2, Pieces DEF TypeOK, Dated, Past, Time, OpenFails
  <2> QED
    BY <1>2, <2>1, <2>2, <2>3, <2>4, <2>5, FileStays DEF OpenFails
<1>3. ASSUME NEW c \in Calls, Seek(c) PROVE IInv'
  <2>1. TypeOK'
    BY <1>3 DEF TypeOK, Time, Stamp, Parts, Seek, FileEnd
  <2>2. Holding' /\ Alone' /\ Prepared' /\ AtEnd'
    BY <1>3 DEF TypeOK, Holding, Alone, Prepared, AtEnd, Parts, Seek, FileEnd
  <2>3. Before' /\ Last'
    BY <1>3, Pieces DEF TypeOK, Before, Last, Prepared, Parts, Seek, FileEnd
  <2>4. Buffered'
    BY <1>3 DEF TypeOK, Buffered, Holding, Alone, Seek, FileEnd
  <2>5. Dated'
    BY <1>3, Pieces DEF TypeOK, Dated, Past, Time, Seek, FileEnd
  <2> QED
    BY <1>3, <2>1, <2>2, <2>3, <2>4, <2>5, FileStays DEF Seek, FileEnd
<1>4. ASSUME NEW c \in Calls, ReadClock(c) PROVE IInv'
  <2>1. TypeOK'
    BY <1>4 DEF TypeOK, Time, Stamp, Parts, ReadClock
  <2>2. Holding' /\ Alone' /\ Prepared' /\ AtEnd'
    BY <1>4 DEF TypeOK, Holding, Alone, Prepared, AtEnd, Parts, ReadClock
  <2>3. Before' /\ Last'
    BY <1>4, Pieces DEF TypeOK, Before, Last, Prepared, Parts, ReadClock
  <2>4. Buffered'
    BY <1>4 DEF TypeOK, Buffered, Holding, Alone, ReadClock
  <2>5. Dated'
    BY <1>4, Pieces DEF TypeOK, Dated, Past, Time, ReadClock
  <2> QED
    BY <1>4, <2>1, <2>2, <2>3, <2>4, <2>5, FileStays DEF ReadClock
<1>5. ASSUME NEW c \in Calls, FormatTime(c) PROVE IInv'
  <2>1. TypeOK'
    BY <1>5 DEF TypeOK, Time, Stamp, Parts, FormatTime, Formatted
  <2>2. Holding' /\ Alone' /\ Prepared' /\ AtEnd'
    BY <1>5 DEF TypeOK, Holding, Alone, Prepared, AtEnd, Parts, FormatTime, Formatted
  <2>3. Before' /\ Last'
    BY <1>5, Pieces DEF TypeOK, Before, Last, Prepared, Parts, FormatTime, Formatted
  <2>4. Buffered'
    BY <1>5 DEF TypeOK, Buffered, Holding, Alone, FormatTime, Formatted
  <2>5. Dated'
    BY <1>5, Pieces DEF TypeOK, Dated, Past, Time, FormatTime, Formatted
  <2> QED
    BY <1>5, <2>1, <2>2, <2>3, <2>4, <2>5, FileStays DEF FormatTime, Formatted
<1>6. ASSUME NEW c \in Calls, WriteFails(c) PROVE IInv'
  <2>1. TypeOK'
    BY <1>6 DEF TypeOK, Time, Stamp, Parts, WriteFails, Ready
  <2>2. Holding' /\ Alone' /\ Prepared' /\ AtEnd'
    BY <1>6 DEF TypeOK, Holding, Alone, Prepared, AtEnd, Parts, WriteFails, Ready
  <2>3. Before' /\ Last'
    <3>1. \A d \in Calls : part'[d] = IF d = c THEN part[c] + 1 ELSE part[d]
      BY <1>6 DEF TypeOK, WriteFails
    <3>2. Before'
      <4>1. part \in [Calls -> 1 .. Writes + 1]
        BY DEF TypeOK
      <4>2. \A i \in DOMAIN File : File[i].part < part'[File[i].by]
        BY <1>p, <3>1, <4>1 DEF Before
      <4> QED
        BY <1>6, <4>2 DEF Before, WriteFails
    <3>3. Last'
      BY <1>6 DEF Last, WriteFails
    <3> QED
      BY <3>2, <3>3
  <2>4. Buffered'
    BY <1>6 DEF TypeOK, Buffered, Holding, Alone, WriteFails, Ready
  <2>5. Dated'
    BY <1>6, Pieces DEF TypeOK, Dated, Past, Time, WriteFails, Ready
  <2> QED
    BY <1>6, <2>1, <2>2, <2>3, <2>4, <2>5, FileStays DEF WriteFails, Ready
<1>7. ASSUME NEW c \in Calls, Close(c) PROVE IInv'
  <2>1. TypeOK'
    BY <1>7 DEF TypeOK, Time, Stamp, Parts, Close
  <2>2. Holding' /\ Alone' /\ Prepared' /\ AtEnd'
    BY <1>7 DEF TypeOK, Holding, Alone, Prepared, AtEnd, Parts, Close
  <2>3. Before' /\ Last'
    BY <1>7, Pieces DEF TypeOK, Before, Last, Prepared, Parts, Close
  <2>4. Buffered'
    BY <1>7 DEF TypeOK, Buffered, Holding, Alone, Close
  <2>5. Dated'
    BY <1>7, Pieces DEF TypeOK, Dated, Past, Time, Close
  <2> QED
    BY <1>7, <2>1, <2>2, <2>3, <2>4, <2>5, FileStays DEF Close
<1>8. ASSUME NEW p \in Processes, Crash(p) PROVE IInv'
  <2>1. TypeOK'
    BY <1>8 DEF TypeOK, Time, Stamp, Parts, Crash
  <2>2. Holding' /\ Alone' /\ Prepared' /\ AtEnd'
    BY <1>8 DEF TypeOK, Holding, Alone, Prepared, AtEnd, Parts, Crash
  <2>3. Before' /\ Last'
    BY <1>8, Pieces DEF TypeOK, Before, Last, Prepared, Parts, Crash
  <2>4. Buffered'
    BY <1>8 DEF TypeOK, Buffered, Holding, Alone, Crash
  <2>5. Dated'
    BY <1>8, Pieces DEF TypeOK, Dated, Past, Time, Crash
  <2> QED
    BY <1>8, <2>1, <2>2, <2>3, <2>4, <2>5, FileStays DEF Crash
<1>9. CASE Tick
  <2>1. TypeOK'
    BY <1>9 DEF TypeOK, Time, Stamp, Parts, Tick, callVars
  <2>2. Holding' /\ Alone' /\ Prepared' /\ AtEnd'
    BY <1>9 DEF TypeOK, Holding, Alone, Prepared, AtEnd, Parts, Tick, callVars
  <2>3. Before' /\ Last'
    BY <1>9, Pieces DEF TypeOK, Before, Last, Prepared, Parts, Tick, callVars
  <2>4. Buffered'
    BY <1>9 DEF TypeOK, Buffered, Holding, Alone, Tick, callVars
  <2>5. Dated'
    BY <1>9, Pieces DEF TypeOK, Dated, Past, Time, Tick, callVars
  <2> QED
    BY <1>9, <2>1, <2>2, <2>3, <2>4, <2>5, FileStays DEF Tick, callVars
<1>10. ASSUME NEW c \in Calls, WritePart(c) PROVE IInv'
  <2> DEFINE piece == PartOf(c)
  <2>1. c \in handles /\ part[c] \in Parts /\ pos[c] = Len(File) + 1
    BY <1>10 DEF WritePart, Ready, Holding, AtEnd
  <2>2. piece.by = c /\ piece.part = part[c]
    BY DEF PartOf
  <2>3. part[c] = 2 => piece.stamp = [of |-> c, at |-> Now[c]] /\ Now[c] <= clock /\ Past(Now[c])
    BY <1>10 DEF WritePart, Ready, PartOf, Buffered, Dated
  <2>4. piece \in Piece \cup TimeOf
    BY <2>1, <2>3 DEF TypeOK, PartOf, Piece, TimeOf, Stamp, Time
  <2>5. File' = Append(File, piece)
    <3>1. File' = Written(File, Len(File) + 1, piece) /\ File \in Seq(Piece \cup TimeOf)
      BY <1>10, <2>1 DEF TypeOK, WritePart
    <3> HIDE DEF piece
    <3> QED
      BY <2>4, <3>1, WrittenAtEnd
  <2> HIDE DEF piece
  <2>6. /\ Len(File') = Len(File) + 1 /\ File'[Len(File) + 1] = piece
        /\ \A i \in DOMAIN File : File'[i] = File[i]
        /\ \A i \in DOMAIN File' : i \in DOMAIN File \/ i = Len(File) + 1
        /\ Len(File) \in Nat /\ DOMAIN File = 1 .. Len(File)
    BY <2>4, <2>5 DEF TypeOK
  <2>7. TypeOK'
    <3>1. File' \in Seq(Piece \cup TimeOf)
      BY <2>4, <2>5 DEF TypeOK
    <3>2. part' \in [Calls -> 1 .. Writes + 1] /\ pos' \in [Calls -> Nat \ {0}]
      BY <1>10, <2>1 DEF TypeOK, WritePart, Parts
    <3> QED
      BY <1>10, <3>1, <3>2 DEF TypeOK, WritePart
  <2>8. Holding' /\ Alone' /\ Prepared' /\ AtEnd'
    BY <1>10, <2>1, <2>6 DEF TypeOK, Holding, Alone, Prepared, AtEnd, WritePart, Parts
  <2>9. Before'
    <3>1. \A d \in Calls : part'[d] = IF d = c THEN part[c] + 1 ELSE part[d]
      BY <1>10 DEF TypeOK, WritePart
    <3>2. part[c] \in Nat /\ \A d \in Calls : part[d] \in Nat
      <4>1. part \in [Calls -> 1 .. Writes + 1]
        BY DEF TypeOK
      <4> QED
        BY <4>1
    <3>3. ASSUME NEW i \in DOMAIN File' PROVE File'[i].part < part'[File'[i].by]
      <4>1. CASE i = Len(File) + 1
        BY <2>2, <2>6, <3>1, <3>2, <4>1
      <4>2. CASE i \in DOMAIN File
        BY <1>p, <2>6, <3>1, <3>2, <4>2 DEF Before
      <4> QED
        BY <2>6, <4>1, <4>2
    <3> QED
      BY <3>3 DEF Before
  <2>10. Last'
    BY <1>10, <2>1, <2>2, <2>6, Pieces DEF Last, Alone, WritePart
  <2>11. NotMixed'
    <3> SUFFICES ASSUME NEW i \in DOMAIN File', NEW j \in DOMAIN File',
                        i < j, File'[i].by = File'[j].by
                 PROVE  File'[i].part < File'[j].part
                        /\ \A k \in i .. j : File'[k].by = File'[i].by
      BY DEF NotMixed
    <3>1. i \in DOMAIN File
      BY <2>6
    <3>2. CASE j \in DOMAIN File
      BY <2>6, <3>1, <3>2 DEF NotMixed
    <3>3. CASE j = Len(File) + 1
      <4>1. File[i].by = c /\ File[i].part < part[c]
        BY <2>2, <2>6, <3>1, <3>3 DEF Before
      <4>2. \A k \in i .. Len(File) : File[k].by = c
        BY <2>1, <3>1, <4>1 DEF Last
      <4> QED
        BY <2>2, <2>6, <3>1, <3>3, <4>1, <4>2
    <3> QED
      BY <2>6, <3>2, <3>3
  <2>12. Buffered'
    BY <1>10 DEF TypeOK, Buffered, WritePart
  <2>13. OwnTime'
    BY <2>2, <2>3, <2>6 DEF OwnTime
  <2>14. Dated'
    <3>1. Past(clock)' /\ \A t : Past(t) /\ Now[c] <= t => Past(t)'
      BY <1>10, <2>2, <2>3, <2>6 DEF Dated, Past, WritePart
    <3>2. \A d \in Calls : pc'[d] \in {"formatting", "formatted"} => FALSE
      BY <1>10, <2>1 DEF TypeOK, Holding, Alone, WritePart
    <3> QED
      BY <3>1, <3>2 DEF Dated
  <2>15. InOrder'
    BY <2>2, <2>3, <2>6 DEF InOrder, Past
  <2> QED
    BY <2>7, <2>8, <2>9, <2>10, <2>11, <2>12, <2>13, <2>14, <2>15
<1>11. CASE UNCHANGED vars
  BY <1>11, FileStays
     DEF vars, callVars, TypeOK, Holding, Alone, Prepared, AtEnd, Before, Last, Buffered, Dated, Past
<1> QED
  BY <1>1, <1>2, <1>3, <1>4, <1>5, <1>6, <1>7, <1>8, <1>9, <1>10, <1>11 DEF Next, LogStep, Rest

LEMMA Invariance == Spec => []IInv
<1>1. IInv /\ UNCHANGED vars => IInv'
  BY FileStays
     DEF IInv, vars, callVars, TypeOK, Holding, Alone, Prepared, AtEnd, Before, Last, Buffered,
         Dated, Past
<1>2. IInv /\ [Next]_vars => IInv'
  BY <1>1, StepKeeps
<1> QED
  BY <1>2, Initially, PTL DEF Spec

-----------------------------------------------------------------------------
(* Results, for any number of calls and processes.                         *)

\* DoLogEntry keeps its variables in their types, and leaves no gap in the file.
THEOREM TypeCorrect == Spec => []TypeOK
<1>1. IInv => TypeOK
  BY DEF IInv
<1> QED
  BY <1>1, Invariance, PTL

\* What the calls of DoLogEntry write is not mixed, whichever of them fail or end early.
THEOREM EntriesAreNotMixed == Spec => []NotMixed
<1>1. IInv => NotMixed
  BY DEF IInv
<1> QED
  BY <1>1, Invariance, PTL

\* The static buffer of GetCurrentDateTimeA never gives an entry the time of another one.
THEOREM TimesAreOwn == Spec => []OwnTime
<1>1. IInv => OwnTime
  BY DEF IInv
<1> QED
  BY <1>1, Invariance, PTL

\* The times in the file never go back as long as the clock of the system is not set back: Tick
\* only goes forward, GetLocalTime follows a clock that somebody sets, and the end of daylight saving.
THEOREM TimesAreInOrder == Spec => []InOrder
<1>1. IInv => InOrder
  BY DEF IInv
<1> QED
  BY <1>1, Invariance, PTL

-----------------------------------------------------------------------------
(* The debug log implements LogBook.                                       *)

\* The places where an entry ends.
EndPlaces == {n \in DOMAIN File : EntryEnds(n)}

\* Nothing of the book changes in a step that does not touch the file.
LEMMA BookStays ==
  ASSUME UNCHANGED File
  PROVE  UNCHANGED [i \in EndPlaces |-> File[i].by]
BY DEF EndPlaces, EntryEnds

\* A part is added to the end: the entries that end before it stay as they are, and one may
\* end with it.
LEMMA BookGrows ==
  ASSUME NEW S, File \in Seq(S), NEW piece \in S, File' = Append(File, piece)
  PROVE  /\ EndPlaces' = EndPlaces \/ EndPlaces' = EndPlaces \cup {Len(File) + 1}
         /\ \A i \in EndPlaces : File'[i] = File[i] /\ i < Len(File) + 1
         /\ File'[Len(File) + 1] = piece
<1>1. /\ Len(File) \in Nat /\ DOMAIN File = 1 .. Len(File)
      /\ DOMAIN File' = 1 .. Len(File) + 1
      /\ \A i \in DOMAIN File : File'[i] = File[i]
      /\ File'[Len(File) + 1] = piece
  OBVIOUS
<1>2. \A i \in DOMAIN File : EntryEnds(i)' <=> EntryEnds(i)
  <2> SUFFICES ASSUME NEW i \in 1 .. Len(File) PROVE EntryEnds(i)' <=> EntryEnds(i)
    BY <1>1
  <2>1. i >= Writes => \A k \in Parts : i - Writes + k \in DOMAIN File
    BY <1>1, LogAssumption DEF Parts
  <2> QED
    BY <1>1, <2>1 DEF EntryEnds
<1>3. EndPlaces \subseteq EndPlaces' /\ EndPlaces' \subseteq EndPlaces \cup {Len(File) + 1}
  BY <1>1, <1>2 DEF EndPlaces
<1> QED
  BY <1>1, <1>3 DEF EndPlaces

\* Every step of a call, a crash and a tick is a step of the log book, or none.
LEMMA StepIsBooked ==
  ASSUME IInv, [Next]_vars
  PROVE  Book!Next \/ UNCHANGED Book!vars
<1> USE LogAssumption DEF IInv
<1> DEFINE book == [i \in EndPlaces |-> File[i].by]
<1>b. Book!vars = <<handles, book>> /\ (Book!vars)' = <<handles, book>>'
  BY DEF Book!vars, EndPlaces
<1>1. ASSUME NEW c \in Calls, Open(c) PROVE Book!Take(c)
  BY <1>1, BookStays DEF Open, CanOpen, Book!Take, EndPlaces
<1>2. ASSUME NEW c \in Calls, OpenFails(c) \/ Seek(c) \/ ReadClock(c) \/ FormatTime(c) \/ WriteFails(c)
      PROVE  UNCHANGED <<handles, book>>
  BY <1>2, BookStays DEF OpenFails, Seek, ReadClock, FormatTime, WriteFails
<1>3. ASSUME NEW c \in Calls, Close(c) PROVE Book!GiveBack
  <2>1. c \in handles
    BY <1>3 DEF Holding, Close
  <2>2. handles' = {}
    BY <1>3, <2>1 DEF Alone, Close, TypeOK
  <2> QED
    BY <1>3, <2>2, BookStays DEF Close, Book!GiveBack, EndPlaces
<1>4. ASSUME NEW p \in Processes, Crash(p) PROVE Book!GiveBack \/ UNCHANGED <<handles, book>>
  <2>1. handles' = {} \/ handles' = handles
    BY <1>4 DEF Alone, Crash
  <2> QED
    BY <1>4, <2>1, BookStays DEF Crash, Book!GiveBack, EndPlaces
<1>5. ASSUME Tick \/ UNCHANGED vars PROVE UNCHANGED <<handles, book>>
  BY <1>5, BookStays DEF Tick, vars
<1>6. ASSUME NEW c \in Calls, WritePart(c) PROVE Book!Write(c) \/ UNCHANGED <<handles, book>>
  <2> DEFINE piece == PartOf(c)
  <2>1. c \in handles /\ part[c] \in Parts /\ pos[c] = Len(File) + 1
    BY <1>6 DEF WritePart, Ready, Holding, AtEnd
  <2>2. piece.by = c
    BY DEF PartOf
  <2>3. piece \in Piece \cup TimeOf
    <3>1. part[c] = 2 => CurrentDateTimeA[Home[c]] = [of |-> c, at |-> Now[c]]
      BY <1>6 DEF WritePart, Ready, Buffered
    <3> QED
      BY <2>1, <3>1 DEF TypeOK, PartOf, Piece, TimeOf, Stamp, Time
  <2>4. File' = Append(File, piece)
    <3>1. File' = Written(File, Len(File) + 1, piece) /\ File \in Seq(Piece \cup TimeOf)
      BY <1>6, <2>1 DEF TypeOK, WritePart
    <3> HIDE DEF piece
    <3> QED
      BY <2>3, <3>1, WrittenAtEnd
  <2> HIDE DEF piece
  <2>5. /\ EndPlaces' = EndPlaces \/ EndPlaces' = EndPlaces \cup {Len(File) + 1}
        /\ \A i \in EndPlaces : File'[i] = File[i] /\ i < Len(File) + 1
        /\ File'[Len(File) + 1] = piece
    <3>1. File \in Seq(Piece \cup TimeOf)
      BY DEF TypeOK
    <3> QED
      BY <2>3, <2>4, <3>1, BookGrows
  <2>6. handles = {c} /\ handles' = handles
    BY <1>6, <2>1 DEF Alone, WritePart, TypeOK
  <2>7. CASE EndPlaces' = EndPlaces
    BY <2>5, <2>6, <2>7
  <2>8. CASE EndPlaces' = EndPlaces \cup {Len(File) + 1}
    <3>1. book' = [m \in EndPlaces \cup {Len(File) + 1} |->
                     IF m = Len(File) + 1 THEN c ELSE book[m]]
      BY <2>2, <2>5, <2>8
    <3>2. DOMAIN book = EndPlaces /\ DOMAIN book' = EndPlaces \cup {Len(File) + 1}
      BY <2>8
    <3>3. Book!Write(c) <=>
            /\ handles = {c} /\ handles' = handles
            /\ \E n \in DOMAIN book' :
                 /\ \A m \in DOMAIN book : m < n
                 /\ book' = [m \in DOMAIN book \cup {n} |-> IF m = n THEN c ELSE book[m]]
      BY DEF Book!Write, EndPlaces
    <3> HIDE DEF book
    <3> QED
      BY <2>5, <2>6, <3>1, <3>2, <3>3
  <2> QED
    BY <2>5, <2>7, <2>8
<1> HIDE DEF book
<1>7. Book!Next \/ UNCHANGED <<handles, book>>
  BY <1>1, <1>2, <1>3, <1>4, <1>5, <1>6 DEF Next, LogStep, Rest, Book!Next
<1> QED
  BY <1>b, <1>7

\* For any number of calls and processes, and whatever fails: the debug log is a book of whole
\* entries to which one call at a time adds at the end, and in which nothing changes.
THEOREM DebugLogIsALogBook == Spec => BookKept
<1>1. Init => Book!Init
  BY DEF Init, Book!Init
<1>2. IInv /\ [Next]_vars => [Book!Next]_(Book!vars)
  BY StepIsBooked
<1> QED
  BY <1>1, <1>2, Invariance, PTL DEF Spec, BookKept, Book!Spec
=============================================================================
