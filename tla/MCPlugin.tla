------------------------------ MODULE MCPlugin ------------------------------
(***************************************************************************)
(* Small instance of Plugin.  Files that begin with the same bytes are     *)
(* saved over one another, and Mixed is what a reading of two of them      *)
(* could make; a file that nobody saves holds any of the settings that     *)
(* MCSettingsLoad lists.                                                   *)
(***************************************************************************)
EXTENDS Plugin, MCSettingsLoad, TLC

CONSTANTS plain, c1, f1

\* A text is its braces and what stands for the rest of it.
Json(content) == <<"{", "servers">> \o content \o <<"}">>

Strict  == Json(<<"only us", "not xx">>)
Lenient == Json(<<"all", "all">>)
Short   == Json(<<"not xx">>)
Mixed   == Json(<<"only us", "all">>)
Other   == Json(<<"any">>)

\* A file whose size has low bits that are those of a small one.
Long == UTF16(Json([i \in 1 .. 13 |-> "all"]), Big)

MCMeanings ==
  (Strict :> {R(<<Asking(R(url1), R("text"), R(<<OnlyUs, NotXx>>))>>)})
  @@ (Lenient :> {R(<<Asking(R(url1), R("text"), R(<<>>))>>)})
  @@ (Short :> {R(<<Asking(R(url2), R("text"), R(<<NotXx>>))>>)})
  @@ (Mixed :> {R(<<Asking(R(url1), R("text"), R(<<OnlyUs>>))>>)})
  @@ (Other :> MCFiles \ {Unreadable})

MCContents == MCFiles \cup UNION {MCMeanings[t] : t \in DOMAIN MCMeanings}

MCSaves    == {Strict, Lenient, Missing, <<>>, UTF16(Strict, Little)}
MCVersions == {Strict, Lenient, Short, Other, Missing, <<>>, <<"{">>, UTF16(Strict, Little),
               UTF16(Short, Big), UTF16(Json(<<"all", "all", "all", "all">>), Little), Long}

MCRejects == [url \in MCUrls |-> {}]
UsOrXx    == {[p \in MCPath |-> IF p = empty THEN empty ELSE v] : v \in {us, xx}}

\* Of the versions of this instance, none is a document that says something else in part.
ASSUME InstanceAssumption == WholeOrForeign
=============================================================================
