---------------------------- MODULE SettingsFile ----------------------------
(***************************************************************************)
(* ReadAllText with GetFileSizeFromPath (NA_Plugin_IPFiltering.cpp, lines  *)
(* 456-508 and 551-566), which reads the settings file while another       *)
(* program may be saving it: the size is asked for before the file is      *)
(* opened, and the file is shared with writers while it is read.  Whether  *)
(* the bytes have been read is asked for the first two of them only.       *)
(*                                                                         *)
(* A file is a sequence of bytes, a text one of characters.  A character   *)
(* is one byte in UTF-8, and in UTF-16 that byte next to a zero.           *)
(***************************************************************************)
EXTENDS Integers, Sequences

CONSTANTS
  Versions, \* what the file may hold when the plugin is loaded
  Saves,    \* what another program may save
  Missing,  \* no file
  MaxSaves, \* bound on how often it is saved
  Width,    \* bits of an int
  Failures  \* what may fail while it is read: "memory", "disk"

ASSUME FileAssumption ==
  /\ MaxSaves \in Nat
  /\ Width \in Nat \ {0}
  /\ Failures \subseteq {"memory", "disk"}

VARIABLES
  disk,        \* the version that is on the disk
  saves,       \* how often it has been saved
  seen,        \* the versions that have been on the disk since the reading began
  step,        \* how far ReadAllText is
  TheFileSize, \* the size the file had
  TheWord,     \* the first bytes of the file
  text         \* what is returned

fileVars == <<disk, saves, seen, step, TheFileSize, TheWord, text>>

Bytes(v) == IF v = Missing THEN <<>> ELSE v

InitFile ==
  /\ disk \in Versions
  /\ saves = 0
  /\ seen = {disk}
  /\ step = "ask"
  /\ TheFileSize = 0
  /\ TheWord = <<>>
  /\ text = <<>>

Return(t) == step' = "done" /\ text' = t

\* While the file is open, the system lets others write to it, but not delete it.
Save ==
  /\ saves < MaxSaves
  /\ step \in {"ask", "open", "mark", "rest"}
  /\ \E v \in Saves :
       /\ step \in {"mark", "rest"} => v # Missing
       /\ disk' = v
       /\ seen' = seen \cup {v}
  /\ saves' = saves + 1
  /\ UNCHANGED <<step, TheFileSize, TheWord, text>>

AskSize ==
  /\ step = "ask"
  /\ TheFileSize' \in {Len(Bytes(disk))} \cup (IF "disk" \in Failures THEN {0} ELSE {})
  /\ IF TheFileSize' = 0 THEN Return(<<>>) ELSE step' = "open" /\ UNCHANGED text
  /\ UNCHANGED <<disk, saves, seen, TheWord>>

\* OPEN_ALWAYS: a file that is gone by now is made anew, with nothing in it.
OpenFile ==
  /\ step = "open"
  /\ disk' = Bytes(disk)
  /\ step' = "mark"
  /\ UNCHANGED <<saves, seen, TheFileSize, TheWord, text>>

\* Another program has the file open and does not share it.
FileInUse ==
  /\ step = "open"
  /\ Return(<<>>)
  /\ UNCHANGED <<disk, saves, seen, TheFileSize, TheWord>>

Little == <<"FF", "FE">>
Big    == <<"FE", "FF">>

\* The conversion of a size to an int, and what malloc is asked for.
ToInt(n) == LET low == n % 2 ^ Width IN IF low < 2 ^ (Width - 1) THEN low ELSE low - 2 ^ Width

Buffer(word) == ToInt(TheFileSize) + (IF word \in {Little, Big} THEN 2 ELSE 1)

\* Mutant of MarkLength: as many bytes as a mark of UTF-8 has.
LongMark == 3

MarkLength == 2

\* ReadFile: how many of the bytes that are asked for are read.
Reads(asked, there) ==
  LET all == IF asked < there THEN asked ELSE there
  IN  IF "disk" \in Failures THEN 0 .. all ELSE {all}

\* The first two bytes decide how the rest is read.  Without them, or without memory for the
\* rest, nothing is returned.
ReadMark ==
  /\ step = "mark"
  /\ \E n \in Reads(MarkLength, Len(disk)) : TheWord' = SubSeq(disk, 1, n)
  /\ \/ /\ Len(TheWord') < 2 \/ Buffer(TheWord') < 0 \/ "memory" \in Failures
        /\ Return(<<>>)
     \/ /\ Len(TheWord') >= 2 /\ Buffer(TheWord') >= 0
        /\ step' = "rest" /\ UNCHANGED text
  /\ UNCHANGED <<disk, saves, seen, TheFileSize>>

\* More is read than the buffer holds: the size does not fit an int, or it is that of the
\* mark or less, of which the mark cannot be taken off.
Overruns == ToInt(TheFileSize) # TheFileSize \/ TheFileSize < 2

\* What lies behind the first bytes, and what the buffer holds up to the size when n bytes of
\* it have been read: memory as it was where nothing has been read.
Rest(file) == SubSeq(file, MarkLength + 1, Len(file))
Read(n)    == [i \in 1 .. TheFileSize - MarkLength |-> IF i <= n THEN Rest(disk)[i] ELSE "junk"]

\* A character of UTF-16 with its bytes in the order of the mark.
Character(word, first, second) ==
  LET low  == IF word = Little THEN first ELSE second
      high == IF word = Little THEN second ELSE first
  IN  IF high = "0" THEN low ELSE IF "junk" \in {low, high} THEN "junk" ELSE "other"

\* Mutant of Decoded: the bytes of a big-endian file are not exchanged.
NotExchanged(word, bytes) ==
  IF word \in {Little, Big}
  THEN [i \in 1 .. Len(bytes) \div 2 |->
          IF bytes[2 * i] = "0" THEN bytes[2 * i - 1] ELSE "other"]
  ELSE word \o bytes

\* A mark of UTF-16 is left out; two bytes of UTF-8 are a part of the text.
Decoded(word, bytes) ==
  IF word \in {Little, Big}
  THEN [i \in 1 .. Len(bytes) \div 2 |-> Character(word, bytes[2 * i - 1], bytes[2 * i])]
  ELSE word \o bytes

\* A text ends at its first zero, which the memory as it was may hold.
Ends(chars) ==
  {chars} \cup {SubSeq(chars, 1, i - 1) : i \in {j \in DOMAIN chars : chars[j] = "junk"}}

\* That less is read than was asked for is not noticed.  A text in UTF-8 is converted, and
\* becomes the empty one if there is no memory for that.
ReadRest ==
  /\ step = "rest"
  /\ ~Overruns
  /\ \/ \E n \in Reads(TheFileSize - MarkLength, Len(Rest(disk))) :
          \E t \in Ends(Decoded(TheWord, Read(n))) : Return(t)
     \/ "memory" \in Failures /\ TheWord \notin {Little, Big} /\ Return(<<>>)
  /\ UNCHANGED <<disk, saves, seen, TheFileSize, TheWord>>

\* What lies behind the buffer is overwritten.  The text ends at some zero, in what has been
\* read or in the memory behind it, or the process ends.
Overrun ==
  /\ step = "rest"
  /\ Overruns
  /\ \/ \E n \in 0 .. Len(Decoded(TheWord, Rest(disk))) :
          LET part == SubSeq(Decoded(TheWord, Rest(disk)), 1, n)
          IN  Return(part) \/ Return(Append(part, "junk"))
     \/ step' = "down" /\ UNCHANGED text
  /\ UNCHANGED <<disk, saves, seen, TheFileSize, TheWord>>

ReadAllText == AskSize \/ OpenFile \/ FileInUse \/ ReadMark \/ ReadRest \/ Overrun

-----------------------------------------------------------------------------
\* The bytes at one place in two, up to the mark, are zeros: the high ones.
HighBytesAreZero(v, mark) ==
  /\ Len(v) % 2 = 0
  /\ \A i \in 3 .. Len(v) : (i % 2 = 0) = (mark = Little) => v[i] = "0"

\* Files are sequences of bytes.  With a mark of UTF-16, a version is a file in UTF-16.
ASSUME VersionsAssumption ==
  /\ \A v \in (Versions \cup Saves) \ {Missing} :
       v \in Seq(STRING) /\ \A i \in DOMAIN v : v[i] # "junk"
  /\ \A v \in Versions \ {Missing} :
       Len(v) >= 2 /\ SubSeq(v, 1, 2) \in {Little, Big} => HighBytesAreZero(v, SubSeq(v, 1, 2))

-----------------------------------------------------------------------------
(* Properties.                                                             *)

\* What a version of the file says: the encodings that the code knows.
UTF16(chars, mark) ==
  mark \o [i \in 1 .. 2 * Len(chars) |->
             IF (i % 2 = 1) = (mark = Little) THEN chars[(i + 1) \div 2] ELSE "0"]
Says(v, chars) == v \in {chars, UTF16(chars, Little), UTF16(chars, Big)}

\* The file begins with these characters.
Begins(v, chars) ==
  \E t \in {chars, UTF16(chars, Little), UTF16(chars, Big)} :
    Len(t) <= Len(v) /\ SubSeq(v, 1, Len(t)) = t

\* A file that nobody saves while it is read is read to its end, whatever its encoding, unless
\* its size is not that of a buffer.  Of a file whose reading fails, nothing is returned, or if
\* the disk fails, its beginning, with memory as it was in place of what is left.
SettledIsWhole ==
  step = "done" /\ saves = 0 /\ TheWord # <<>> /\ ~Overruns =>
    \/ Says(disk, text)
    \/ Failures # {} /\ text = <<>>
    \/ /\ "disk" \in Failures
       /\ \E n \in 0 .. Len(text) : /\ Begins(disk, SubSeq(text, 1, n))
                                    /\ \A i \in n + 1 .. Len(text) : text[i] = "junk"
=============================================================================
