----------------------------- MODULE FilterEval -----------------------------
(***************************************************************************)
(* The body of the filter loop of IsIPAllowedInternal (PluginBase.cpp,     *)
(* lines 126-157): what one filter adds to the counters of a call, given   *)
(* the text GetValueFromPath returned for its path.  A text is the wide    *)
(* string GetValueString produces; the two vectors of a filter are only    *)
(* searched up to the first match, so they are sets here.                  *)
(***************************************************************************)
EXTENDS Sequences

CONSTANTS
  Path,     \* JSON paths a filter may name
  Text,     \* texts a JSON value may be rendered as
  NullText  \* the text of a JSON null, L"[null]" in the code

ASSUME TextAssumption == NullText \in Text

Filter == [Path: Path, AllowOnly: SUBSET Text, AllowNone: SUBSET Text]

\* What a parsed response yields: the text found at each path.
Doc == [Path -> Text]

\* The four places where the loop body counts; three count a failure.
FailCauses == {"not_found", "blocked", "not_allowed"}
Causes     == FailCauses \cup {"allowed"}

\* The updates one filter makes, in order: an absent value fails at once; else a
\* match in AllowNone fails, and independently a match in AllowOnly passes and
\* the lack of one fails unless AllowOnly is empty.
Tally(f, value) ==
  IF value = NullText THEN <<"not_found">>
  ELSE (IF value \in f.AllowNone THEN <<"blocked">> ELSE <<>>)
       \o (IF value \in f.AllowOnly THEN <<"allowed">>
           ELSE IF f.AllowOnly # {} THEN <<"not_allowed">> ELSE <<>>)

\* Reference definition: the values a filter lets through.
Permits(f, value) ==
  /\ value # NullText
  /\ value \notin f.AllowNone
  /\ f.AllowOnly # {} => value \in f.AllowOnly
=============================================================================
