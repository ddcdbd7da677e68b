------------------------------ MODULE ServerUrl ------------------------------
(***************************************************************************)
(* What becomes of the "url" of a server: Load splits it into a protocol   *)
(* and a domain, for which it builds the client (NA_Plugin_IPFiltering.cpp,*)
(* lines 210-234); each call of IsIPAllowedInternal takes what lies beyond *)
(* them, puts the address in it, and asks the client for that              *)
(* (PluginBase.cpp, lines 103-108).                                        *)
(*                                                                         *)
(* A protocol, the marker and whatever a URL is cut in have a symbol for   *)
(* each character, so that cutting off a protocol that is not there takes  *)
(* as much as it does in the code.  Within an address, which is never cut, *)
(* a symbol may stand for more.                                            *)
(*                                                                         *)
(* The library, of which the sources hold the headers only, takes what a   *)
(* call asks for apart and puts it together again twice: when it makes the *)
(* text a URI and that a text, and when the client adds it to its own URI. *)
(***************************************************************************)
EXTENDS TextHelpers

CONSTANTS
  Urls,      \* what "url" may hold
  Addresses, \* addresses the host asks about
  Illegal    \* symbols that are allowed in no part of a URI

Http   == <<"h", "t", "t", "p", ":", "/", "/">>
Https  == <<"h", "t", "t", "p", "s", ":", "/", "/">>
Marker == <<"$", "I", "P", "A", "d", "d", "r", "e", "s", "s">>
Blanks == {" "}

VARIABLES
  pc,        \* how far the loading, then the current call, is
  URL,
  Protocol,
  Domain,
  Webbie,    \* the URI the client was built for
  IPAddress, \* the address of the call
  PathText   \* what is asked for

serverVars == <<URL, Protocol, Domain, Webbie>>
vars       == <<pc, serverVars, IPAddress, PathText>>

IsLegal(text) == \A i \in DOMAIN text : text[i] \notin Illegal

Init ==
  /\ pc = "read"
  /\ URL \in Urls
  /\ Protocol = Http
  /\ Domain = <<>>
  /\ Webbie = <<>>
  /\ IPAddress = <<>>
  /\ PathText = <<>>

TrimUrl ==
  /\ pc = "read"
  /\ URL' = Trim(URL, Blanks)
  /\ pc' = "trimmed"
  /\ UNCHANGED <<Protocol, Domain, Webbie, IPAddress, PathText>>

\* Without a protocol the default stays.
FindProtocol ==
  /\ pc = "trimmed"
  /\ Protocol' = IF Find(URL, Https, 1) = 1 THEN Https
                 ELSE IF Find(URL, Http, 1) = 1 THEN Http ELSE Protocol
  /\ pc' = "protocol"
  /\ UNCHANGED <<URL, Domain, Webbie, IPAddress, PathText>>

\* Mutant of UpToSlash: the slash is taken with the domain.
UpToSlashToo(text) ==
  LET slash == Find(text, <<"/">>, 1) IN IF slash = 0 THEN text ELSE SubSeq(text, 1, slash)

UpToSlash(text) ==
  LET slash == Find(text, <<"/">>, 1) IN IF slash = 0 THEN text ELSE SubSeq(text, 1, slash - 1)

\* A fragment is in no text, and a query in no domain.
ASSUME UrlAssumption ==
  /\ Urls \cup Addresses \subseteq Seq(STRING)
  /\ \A text \in Urls \cup Addresses : "#" \notin Seqs!ToSet(text)
  /\ \A url \in Urls : \A protocol \in {<<>>, Http, Https} :
       LET text == Trim(url, Blanks)
       IN  At(text, protocol, 1) => "?" \notin Seqs!ToSet(UpToSlash(From(text, Len(protocol) + 1)))

CutDomain ==
  /\ pc = "protocol"
  /\ Domain' = UpToSlash(ReplaceOne(URL, Protocol, <<>>))
  /\ pc' = "domain"
  /\ UNCHANGED <<URL, Protocol, Webbie, IPAddress, PathText>>

\* The library wants a host, and characters that may stand in one; else it throws.
BuildClient ==
  /\ pc = "domain"
  /\ IF Domain # <<>> /\ IsLegal(Domain)
     THEN Webbie' = Protocol \o Domain /\ pc' = "ready"
     ELSE pc' = "no_client" /\ UNCHANGED Webbie
  /\ UNCHANGED <<URL, Protocol, Domain, IPAddress, PathText>>

\* Mutant of Skipped: the slash is taken for a part of the domain.
SkipsSlash == Len(Protocol) + Len(Domain) + 1

\* How much of the URL is taken to be in the client already.
Skipped == Len(Protocol) + Len(Domain)

\* A call begins, perhaps after others.  substr throws beyond the end of the text.
TakePath ==
  /\ pc \in {"ready", "sent", "thrown"}
  /\ \E ip \in Addresses : IPAddress' = ip
  /\ IF Skipped <= Len(URL)
     THEN PathText' = From(URL, Skipped + 1) /\ pc' = "path"
     ELSE pc' = "thrown" /\ PathText' = <<>>
  /\ UNCHANGED serverVars

Completed(path) == IF path = <<>> THEN <<"/">> ELSE path

\* Mutant of PutAddress: the address is put in every place that is marked.
PutEverywhere ==
  /\ pc = "path"
  /\ PathText' = ReplaceAll(Completed(PathText), Marker, IPAddress)
  /\ pc' = "complete"
  /\ UNCHANGED <<serverVars, IPAddress>>

PutAddress ==
  /\ pc = "path"
  /\ PathText' = ReplaceOne(Completed(PathText), Marker, IPAddress)
  /\ pc' = "complete"
  /\ UNCHANGED <<serverVars, IPAddress>>

-----------------------------------------------------------------------------
(* The library: what is asked for of a text.                               *)

\* A colon before the first slash ends a scheme.
HasScheme(text) ==
  LET colon == Find(text, <<":">>, 1)
      slash == Find(text, <<"/">>, 1)
  IN  colon # 0 /\ (slash = 0 \/ colon < slash)
BehindScheme(text) == IF HasScheme(text) THEN From(text, Find(text, <<":">>, 1) + 1) ELSE text

\* Two slashes begin an authority, which the next slash or a query ends.
PathOrQuery(text) ==
  LET ends == {i \in 3 .. Len(text) : text[i] \in {"/", "?"}}
  IN  IF ends = {} THEN Len(text) + 1 ELSE CHOOSE i \in ends : \A j \in ends : i <= j
BehindAuthority(text) == IF At(text, <<"/", "/">>, 1) THEN From(text, PathOrQuery(text)) ELSE text

\* An empty path becomes a slash, and a query that is empty is left out.
Rooted(path) == IF path # <<>> /\ path[1] = "/" THEN path ELSE <<"/">> \o path
WithoutHost(text) ==
  LET query == Find(text, <<"?">>, 1)
      path  == IF query = 0 THEN text ELSE SubSeq(text, 1, query - 1)
  IN  Rooted(path) \o IF query \in {0, Len(text)} THEN <<>> ELSE From(text, query)

\* An authority is left out by the client, an empty one already when the text is made.
Resource(text) ==
  LET made == IF At(text, <<"/", "/">>, 1) /\ PathOrQuery(text) = 3
              THEN WithoutHost(BehindAuthority(text)) ELSE text
  IN  WithoutHost(BehindAuthority(made))

-----------------------------------------------------------------------------
\* The constructor of uri throws for characters that a URI does not allow, and for some
\* schemes.
Send ==
  /\ pc = "complete"
  /\ \/ /\ IsLegal(PathText)
        /\ pc' = "sent" /\ PathText' = Resource(BehindScheme(PathText))
     \/ /\ ~IsLegal(PathText) \/ HasScheme(PathText)
        /\ pc' = "thrown" /\ UNCHANGED PathText
  /\ UNCHANGED <<serverVars, IPAddress>>

Next ==
  \/ TrimUrl \/ FindProtocol \/ CutDomain \/ BuildClient
  \/ TakePath \/ PutAddress \/ Send
  \/ pc = "no_client" /\ UNCHANGED vars

Spec == Init /\ [][Next]_vars

-----------------------------------------------------------------------------
(* Reference definitions.                                                  *)

\* The server decodes a percent sign and two hexadecimal digits, which are one symbol here,
\* to one other character, and leaves anything else as it is.
Decoded(text) == ReplaceAll(text, <<"%", "12">>, <<"DC2">>)

\* What the server is asked for, with the client's part of it.
Asked == Decoded(Webbie \o PathText)

HasProtocol == Find(URL, Http, 1) = 1 \/ Find(URL, Https, 1) = 1

\* The path begins with the third slash; without one it is a slash.
IsThird(i) == \E j, k \in 1 .. i - 1 : j < k /\ URL[j] = "/" /\ URL[k] = "/"
PathStart ==
  LET slashes == {i \in DOMAIN URL : URL[i] = "/" /\ IsThird(i)}
  IN  IF slashes = {} THEN Len(URL) + 1 ELSE CHOOSE i \in slashes : \A j \in slashes : i <= j
PathOf    == IF PathStart > Len(URL) THEN <<"/">> ELSE From(URL, PathStart)

\* The URL with the address in the first place of its path that is marked.
Wanted == Seqs!ReplaceFirstSubSeq(IPAddress, Marker, PathOf)
Meant  == SubSeq(URL, 1, PathStart - 1) \o Wanted

\* What the library leaves as it is, after a protocol and a host: a path that begins with one
\* slash, and a query that is not empty.
IsPlain(path) == /\ ~At(path, <<"/", "/">>, 1)
                 /\ Find(path, <<"?">>, 1) # Len(path)

\* Texts that are looked for.
Finds == {<<"/">>, <<"/", "/">>, Marker}

\* An address is not empty and has no symbol of what is looked for.  (Else what is put in may
\* be found again.)
AddressesAreForeign ==
  \A by \in Addresses :
    /\ by # <<>>
    /\ \A find \in Finds : \A i \in DOMAIN by : \A j \in DOMAIN find : by[i] # find[j]

-----------------------------------------------------------------------------
(* Properties.                                                             *)

\* The variables have their types; no part of the path is taken for the domain.
TypeOK ==
  /\ pc \in {"read", "trimmed", "protocol", "domain", "ready", "no_client", "path", "complete",
             "sent", "thrown"}
  /\ \E url \in Urls : URL = url \/ URL = Trim(url, Blanks)
  /\ Protocol \in {Http, Https}
  /\ Webbie \in {<<>>, Protocol \o Domain}
  /\ "/" \notin Seqs!ToSet(Domain)
  /\ IPAddress \in Addresses \cup {<<>>}

\* What the two components do to a URL that states its protocol fits together: whatever was
\* asked before, each call asks for the URL as it is configured, with its own address in it,
\* unless its path begins with two slashes or its query is empty.
AsksAsConfigured ==
  pc = "sent" /\ HasProtocol /\ IsPlain(Wanted) => Webbie \o PathText = Meant

\* A URL that states its protocol makes no call throw that is not about a text with characters
\* of which no URI can be made.
OnlyIllegalThrows ==
  pc = "thrown" /\ HasProtocol => ~IsLegal(PathOf) \/ ~IsLegal(IPAddress)

\* The server of any URL that marks a place for the address is asked about that address.
AddressIsAsked == pc = "sent" /\ Contains(URL, Marker) => Contains(Asked, IPAddress)

\* Splitting a text loses nothing of it, not even empty pieces at its ends, and leaves no
\* separator in a piece.
SplitsRightly ==
  \A on \in Finds :
    LET pieces == StringSplit(URL, on)
    IN  /\ pieces # <<>>
        /\ Joined(pieces, on) = URL
        /\ \A i \in DOMAIN pieces : ~Contains(pieces[i], on)

\* ReplaceOne replaces what is found first, and nothing else, also at the ends of a text.
ReplacesFirst ==
  \A find \in Finds : \A by \in Addresses \cup {<<>>} :
    ReplaceOne(URL, find, by) = Seqs!ReplaceFirstSubSeq(by, find, URL)

\* ReplaceAll, which works on the pieces between what is found, does what ReplaceOne does if
\* it is called until nothing is found.
ReplacesAll ==
  \A find \in Finds : \A by \in Addresses :
    ReplaceAll(URL, find, by) = Repeated(URL, find, by)
=============================================================================
