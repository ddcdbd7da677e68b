----------------------------- MODULE TextHelpers -----------------------------
(***************************************************************************)
(* StringSplit, ReplaceOne and ReplaceAll (NA_Plugin_IPFiltering.cpp,      *)
(* lines 430-454 and 576-610; the versions for wide and for narrow strings *)
(* are the same) on texts, which are sequences of symbols, and the CString *)
(* function Trim as line 212 uses it.                                      *)
(***************************************************************************)
EXTENDS Integers, Sequences
Seqs == INSTANCE SequencesExt

\* what lies at position i of the text.
At(text, what, i) ==
  i + Len(what) <= Len(text) + 1 /\ SubSeq(text, i, i + Len(what) - 1) = what

\* std::basic_string::find: the first place from a position on; 0 stands for npos.
Find(text, what, from) ==
  IF \E i \in from .. Len(text) : At(text, what, i)
  THEN CHOOSE i \in from .. Len(text) :
         At(text, what, i) /\ \A j \in from .. i - 1 : ~At(text, what, j)
  ELSE 0

\* substr from a position on.
From(text, i) == SubSeq(text, i, Len(text))

\* Mutant of ReplaceOne: one symbol of what was found remains.
ReplaceShort(text, find, by) ==
  LET loc == Find(text, find, 1)
  IN  IF loc = 0 THEN text ELSE SubSeq(text, 1, loc - 1) \o by \o From(text, loc + Len(find) - 1)

ReplaceOne(text, find, by) ==
  LET loc == Find(text, find, 1)
  IN  IF loc = 0 THEN text ELSE SubSeq(text, 1, loc - 1) \o by \o From(text, loc + Len(find))

\* Mutant of StringSplit: the last piece is left out if it is empty.
SplitDropsLast(text, on) ==
  LET split[last \in 1 .. Len(text) + 1] ==
        LET loc == Find(text, on, last)
        IN  IF loc # 0 THEN <<SubSeq(text, last, loc - 1)>> \o split[loc + Len(on)]
            ELSE IF last <= Len(text) THEN <<From(text, last)>> ELSE <<>>
  IN  split[1]

\* The pieces between separators; split[last] are those from a position on.
StringSplit(text, on) ==
  LET split[last \in 1 .. Len(text) + 1] ==
        LET loc == Find(text, on, last)
        IN  IF loc # 0 THEN <<SubSeq(text, last, loc - 1)>> \o split[loc + Len(on)]
            ELSE <<From(text, last)>>
  IN  split[1]

\* Mutant of ReplaceAll: what is put after the last piece stays.
ReplaceAndEnd(text, find, by) ==
  LET pieces == StringSplit(text, find)
  IN  Seqs!FlattenSeq([i \in DOMAIN pieces |-> pieces[i] \o by])

\* Every piece with the replacement after it, less the replacement after the last.
ReplaceAll(text, find, by) ==
  LET pieces == StringSplit(text, find)
      result == Seqs!FlattenSeq([i \in DOMAIN pieces |-> pieces[i] \o by])
  IN  SubSeq(result, 1, Len(result) - Len(by))

\* CString::Trim: the blanks at both ends are cut off.
Trim(text, blanks) ==
  LET kept == {i \in DOMAIN text : text[i] \notin blanks}
  IN  IF kept = {} THEN <<>>
      ELSE SubSeq(text, CHOOSE i \in kept : \A j \in kept : i <= j,
                        CHOOSE i \in kept : \A j \in kept : i >= j)

-----------------------------------------------------------------------------
(* Reference definitions.                                                  *)

Contains(text, what) == \E i \in DOMAIN text : At(text, what, i)

Joined(pieces, with) ==
  LET joined[i \in 1 .. Len(pieces)] ==
        IF i = 1 THEN pieces[1] ELSE joined[i - 1] \o (with \o pieces[i])
  IN  joined[Len(pieces)]

\* ReplaceOne done as often as there is something to replace.
Repeated(text, find, by) ==
  LET r[n \in 0 .. Len(text)] == IF n = 0 THEN text ELSE ReplaceOne(r[n - 1], find, by)
  IN  r[Len(text)]
=============================================================================
