--------------------------- MODULE ServerUrl_proof ---------------------------
(***************************************************************************)
(* Proofs about ServerUrl: a URL that states its protocol is put together  *)
(* rightly at each call, however long it and the address are.              *)
(***************************************************************************)
EXTENDS ServerUrl, TLAPS, WellFoundedInduction, SequenceTheorems

\* All that may stand in a text.
Symbol == STRING \cup {"h", "t", "p", "s", ":", "/", "?"}
                 \cup {"$", "I", "P", "A", "d", "r", "e", "s"}
Texts  == Seq(Symbol)

LEMMA KnownTexts ==
  /\ Urls \cup Addresses \subseteq Texts
  /\ {Http, Https, Marker, <<"/">>, <<>>} \cup Finds \subseteq Texts
  /\ \A find \in Finds : find # <<>>
<1>1. \A s \in Seq(STRING) : s \in Texts
  BY DEF Symbol, Texts
<1>2. Urls \cup Addresses \subseteq Texts
  BY <1>1, UrlAssumption
<1>3. <<"/">> \in Texts /\ <<"/", "/">> \in Texts /\ <<>> \in Texts /\ Marker \in Texts
  BY DEF Texts, Symbol, Marker
<1>4. Http \in Texts /\ Https \in Texts
  BY DEF Texts, Symbol, Http, Https
<1> QED BY <1>2, <1>3, <1>4 DEF Finds, Marker

-----------------------------------------------------------------------------
(* Sets of positions have a first and a last member.                       *)

LEMMA LeastExists ==
  ASSUME NEW T, T \subseteq Nat, T # {}
  PROVE  \E i \in T : \A j \in T : i <= j
<1>1. IsWellFoundedOn(OpToRel(<, Nat), Nat)
  BY NatLessThanWellFounded, Zenon
<1>2. PICK i \in T : \A j \in T : ~(<<j, i>> \in OpToRel(<, Nat))
  BY <1>1, WFMin, Zenon
<1>3. \A j \in T : ~(j < i)
  BY <1>2, Zenon DEF OpToRel
<1> QED BY <1>3

LEMMA GreatestExists ==
  ASSUME NEW n \in Nat, NEW T, T \subseteq 1 .. n, T # {}
  PROVE  \E i \in T : \A j \in T : i >= j
<1> DEFINE D == {n - i : i \in T}
<1>1. D \subseteq Nat /\ D # {}
  <2>1. \A i \in T : n - i \in Nat
    OBVIOUS
  <2> QED BY <2>1
<1>2. PICK d \in D : \A e \in D : d <= e
  <2> HIDE DEF D
  <2> QED BY <1>1, LeastExists
<1>3. PICK i \in T : d = n - i
  OBVIOUS
<1>4. ASSUME NEW j \in T PROVE i >= j
  <2>1. n - i <= n - j
    BY <1>2, <1>3
  <2> QED BY <2>1
<1> QED BY <1>4

-----------------------------------------------------------------------------
(* The text helpers.                                                       *)

\* Find returns the first place, if there is one.
LEMMA FindIsFirst ==
  ASSUME NEW text \in Texts, NEW what, NEW from \in Nat \ {0}
  PROVE  \/ /\ Find(text, what, from) = 0
            /\ \A i \in from .. Len(text) : ~At(text, what, i)
         \/ /\ Find(text, what, from) \in from .. Len(text)
            /\ At(text, what, Find(text, what, from))
            /\ \A j \in from .. Find(text, what, from) - 1 : ~At(text, what, j)
<1> DEFINE T == {i \in from .. Len(text) : At(text, what, i)}
<1>1. CASE T = {}
  BY <1>1 DEF Find
<1>2. CASE T # {}
  <2>1. T \subseteq Nat
    BY DEF Texts
  <2>2. PICK i \in T : \A j \in T : i <= j
    <3> HIDE DEF T
    <3> QED BY <1>2, <2>1, LeastExists
  <2>3. \A j \in from .. i - 1 : ~At(text, what, j)
    <3> SUFFICES ASSUME NEW j \in from .. i - 1, At(text, what, j) PROVE FALSE
      OBVIOUS
    <3>1. j \in T
      BY <2>2 DEF Texts
    <3> QED BY <2>2, <3>1
  <2> QED BY <2>2, <2>3 DEF Find
<1> QED BY <1>1, <1>2

LEMMA AtPlace ==
  ASSUME NEW text \in Texts, NEW what \in Texts, NEW i \in 1 .. Len(text), At(text, what, i)
  PROVE  i + Len(what) - 1 \in 0 .. Len(text)
BY DEF At, Texts

LEMMA ReplacedIsText ==
  ASSUME NEW text \in Texts, NEW find \in Texts, NEW by \in Texts
  PROVE  ReplaceOne(text, find, by) \in Texts
<1> DEFINE loc == Find(text, find, 1)
<1>1. CASE loc = 0
  BY <1>1 DEF ReplaceOne
<1>2. CASE loc # 0
  <2>1. loc \in 1 .. Len(text) /\ At(text, find, loc)
    BY <1>2, FindIsFirst
  <2>2. loc + Len(find) \in 1 .. Len(text) + 1
    BY <2>1 DEF At, Texts
  <2>3. SubSeq(text, 1, loc - 1) \in Texts /\ From(text, loc + Len(find)) \in Texts
    <3> HIDE DEF loc
    <3> QED BY <2>1, <2>2, SubSeqProperties DEF Texts, From
  <2>4. ReplaceOne(text, find, by)
          = SubSeq(text, 1, loc - 1) \o by \o From(text, loc + Len(find))
    BY <1>2 DEF ReplaceOne
  <2> QED
    <3> HIDE DEF loc
    <3> QED BY <2>3, <2>4 DEF Texts
<1> QED BY <1>1, <1>2

\* Texts are equal if they have the same symbols.
LEMMA SameTexts ==
  ASSUME NEW s \in Texts, NEW t \in Texts, Len(s) = Len(t), \A i \in 1 .. Len(s) : s[i] = t[i]
  PROVE  s = t
BY DEF Texts

\* What is said by the members of a set of parts of a text.
LEMMA Collected ==
  ASSUME NEW f, NEW S, NEW p, f \in {SubSeq(p, i + 1, j) : i, j \in S}
  PROVE  \E i, j \in S : f = SubSeq(p, i + 1, j)
BY SMT

LEMMA PartOfText ==
  ASSUME NEW f, NEW p, f \in Seqs!SubSeqs(p)
  PROVE  \E i, j \in 0 .. Len(p) : f = SubSeq(p, i + 1, j)
BY Collected DEF Seqs!SubSeqs

LEMMA PartInText ==
  ASSUME NEW p, NEW i \in 0 .. Len(p), NEW j \in 0 .. Len(p)
  PROVE  SubSeq(p, i + 1, j) \in Seqs!SubSeqs(p)
BY DEF Seqs!SubSeqs

\* A prefix of a text contains what is found early enough in the text.
LEMMA InPrefix ==
  ASSUME NEW text \in Texts, NEW find \in Texts, find # <<>>, NEW m \in 0 .. Len(text)
  PROVE  find \in Seqs!SubSeqs(SubSeq(text, 1, m))
           <=> \E k \in 1 .. Len(text) : k + Len(find) <= m + 1 /\ At(text, find, k)
<1> DEFINE p == SubSeq(text, 1, m)
<1>n. Len(text) \in Nat /\ m \in Nat
  BY DEF Texts
<1>0. p \in Texts /\ Len(p) = m /\ \A i \in 1 .. m : p[i] = text[i]
  BY SubSeqProperties DEF Texts
<1>1. \A k, l \in 1 .. m : k <= l => SubSeq(p, k, l) = SubSeq(text, k, l)
  <2> SUFFICES ASSUME NEW k \in 1 .. m, NEW l \in 1 .. m, k <= l
               PROVE  SubSeq(p, k, l) = SubSeq(text, k, l)
    OBVIOUS
  <2>1. k \in 1 .. Len(p) + 1 /\ l \in 0 .. Len(p) /\ k \in 1 .. Len(text) + 1 /\ l \in 0 .. Len(text)
    BY <1>0 DEF Texts
  <2>2. /\ SubSeq(p, k, l) \in Texts /\ Len(SubSeq(p, k, l)) = l - k + 1
        /\ \A i \in 1 .. l - k + 1 : SubSeq(p, k, l)[i] = p[k + i - 1]
    <3> HIDE DEF p
    <3> QED BY <1>0, <2>1, SubSeqProperties DEF Texts
  <2>3. /\ SubSeq(text, k, l) \in Texts /\ Len(SubSeq(text, k, l)) = l - k + 1
        /\ \A i \in 1 .. l - k + 1 : SubSeq(text, k, l)[i] = text[k + i - 1]
    BY <2>1, SubSeqProperties DEF Texts
  <2>4. \A i \in 1 .. l - k + 1 : SubSeq(p, k, l)[i] = SubSeq(text, k, l)[i]
    <3> SUFFICES ASSUME NEW i \in 1 .. l - k + 1 PROVE SubSeq(p, k, l)[i] = SubSeq(text, k, l)[i]
      OBVIOUS
    <3>1. k + i - 1 \in 1 .. m
      OBVIOUS
    <3> HIDE DEF p
    <3> QED BY <1>0, <2>2, <2>3, <3>1
  <2> HIDE DEF p
  <2> QED BY <1>n, <2>2, <2>3, <2>4, SameTexts
<1> HIDE DEF p
<1>2. ASSUME find \in Seqs!SubSeqs(p)
      PROVE  \E k \in 1 .. Len(text) : k + Len(find) <= m + 1 /\ At(text, find, k)
  <2>1. PICK i \in 0 .. m, j \in 0 .. m : find = SubSeq(p, i + 1, j)
    <3>1. \E i, j \in 0 .. Len(p) : find = SubSeq(p, i + 1, j)
      BY <1>2, PartOfText
    <3> QED BY <1>0, <3>1, Zenon
  <2>2. Len(find) = (IF i + 1 <= j THEN j - i ELSE 0) /\ Len(find) # 0
    <3>1. i + 1 \in 1 .. Len(p) + 1 /\ j \in 0 .. Len(p)
      BY <1>0, <2>1
    <3> QED BY <1>0, <2>1, <3>1, SubSeqProperties DEF Texts
  <2>3. i + 1 <= j /\ i + 1 \in 1 .. m /\ j \in 1 .. m /\ Len(find) = j - i
    BY <2>2
  <2>4. find = SubSeq(text, i + 1, j) /\ (i + 1) + Len(find) - 1 = j
    <3>1. SubSeq(p, i + 1, j) = SubSeq(text, i + 1, j)
      BY <1>1, <2>3, Zenon
    <3>2. i \in Nat /\ j \in Nat /\ (i + 1) + (j - i) - 1 = j
      BY <1>n
    <3> QED BY <2>1, <2>3, <3>1, <3>2, Zenon
  <2>5. At(text, find, i + 1) /\ i + 1 \in 1 .. Len(text)
    BY <2>3, <2>4 DEF At, Texts
  <2> QED BY <2>3, <2>5
<1>3. ASSUME NEW k \in 1 .. Len(text), k + Len(find) <= m + 1, At(text, find, k)
      PROVE  find \in Seqs!SubSeqs(p)
  <2> DEFINE l == k + Len(find) - 1
  <2>1. Len(find) \in Nat \ {0} /\ Len(text) \in Nat
    BY DEF Texts
  <2>2. k \in 1 .. m /\ l \in 1 .. m /\ k <= l /\ SubSeq(text, k, l) = find
    BY <1>3, <2>1 DEF At
  <2>3. find = SubSeq(p, (k - 1) + 1, l) /\ k - 1 \in 0 .. m /\ l \in 0 .. m
    <3>1. SubSeq(p, k, l) = SubSeq(text, k, l)
      BY <1>1, <2>2, Zenon
    <3>2. k - 1 \in 0 .. m /\ l \in 0 .. m /\ (k - 1) + 1 = k
      BY <1>n, <2>2
    <3> QED BY <2>2, <3>1, <3>2, Zenon
  <2> HIDE DEF l
  <2> QED BY <1>0, <2>3, PartInText
<1> QED BY <1>2, <1>3 DEF p

\* ReplaceOne does what the library's operator does.
LEMMA ReplacesFirstFound ==
  ASSUME NEW text \in Texts, NEW find \in Texts, find # <<>>, NEW by \in Texts
  PROVE  ReplaceOne(text, find, by) = Seqs!ReplaceFirstSubSeq(by, find, text)
<1> DEFINE loc  == Find(text, find, 1)
           last == loc + Len(find) - 1
           Within(i) == find \in Seqs!SubSeqs(SubSeq(text, 1, i))
<1>1. /\ Len(text) \in Nat /\ Len(find) \in Nat \ {0}
      /\ SubSeq(text, 1, Len(text)) = text
  BY SubSeqFull DEF Texts
<1>2. \A i \in 0 .. Len(text) :
        Within(i) <=> \E k \in 1 .. Len(text) : k + Len(find) <= i + 1 /\ At(text, find, k)
  BY InPrefix
<1>3. find \in Seqs!SubSeqs(text)
        <=> \E k \in 1 .. Len(text) : k + Len(find) <= Len(text) + 1 /\ At(text, find, k)
  <2>1. Len(text) \in 0 .. Len(text)
    BY <1>1
  <2>2. Within(Len(text)) <=> find \in Seqs!SubSeqs(text)
    BY <1>1, Zenon
  <2> HIDE DEF Within
  <2> QED BY <1>2, <2>1, <2>2
<1>4. CASE loc = 0
  <2>1. \A k \in 1 .. Len(text) : ~At(text, find, k)
    BY <1>4, FindIsFirst
  <2> QED BY <1>3, <1>4, <2>1 DEF ReplaceOne, Seqs!ReplaceFirstSubSeq
<1>5. CASE loc # 0
  <2>1. /\ loc \in 1 .. Len(text) /\ At(text, find, loc)
        /\ \A j \in 1 .. loc - 1 : ~At(text, find, j)
    BY <1>5, FindIsFirst
  <2>2. loc + Len(find) <= Len(text) + 1
    BY <2>1 DEF At
  <2>3. last \in 0 .. Len(text) /\ Within(last)
    <3>1. last \in 0 .. Len(text) /\ loc + Len(find) <= last + 1
      BY <1>1, <2>1, <2>2
    <3> HIDE DEF loc, last, Within
    <3> QED BY <1>2, <2>1, <3>1
  <2>4. ASSUME NEW i \in 0 .. Len(text), Within(i) PROVE i >= last
    <3>1. PICK k \in 1 .. Len(text) : k + Len(find) <= i + 1 /\ At(text, find, k)
      BY <1>2, <2>4
    <3>2. k >= loc
      BY <2>1, <3>1
    <3> HIDE DEF loc
    <3> QED BY <1>1, <2>1, <3>1, <3>2
  <2>5. \A j \in 0 .. last - 1 : ~Within(j)
    <3> SUFFICES ASSUME NEW j \in 0 .. last - 1, Within(j) PROVE FALSE
      OBVIOUS
    <3>1. j \in 0 .. Len(text) /\ j < last
      <4> HIDE DEF last
      <4> QED BY <1>1, <2>3
    <3>2. j >= last
      BY <2>4, <3>1
    <3> HIDE DEF last
    <3> QED BY <2>3, <3>1, <3>2
  <2>6. (CHOOSE i \in 0 .. Len(text) : Within(i) /\ \A j \in 0 .. i - 1 : ~Within(j)) = last
    <3> DEFINE First(i) == Within(i) /\ \A j \in 0 .. i - 1 : ~Within(j)
    <3>1. last \in 0 .. Len(text) /\ First(last)
      BY <2>3, <2>5
    <3>2. ASSUME NEW i \in 0 .. Len(text), First(i) PROVE i = last
      <4>1. i >= last /\ ~(last \in 0 .. i - 1)
        BY <2>3, <2>4, <3>2
      <4> HIDE DEF last
      <4> QED BY <1>1, <2>3, <4>1
    <3> HIDE DEF First, last
    <3>3. (CHOOSE i \in 0 .. Len(text) : First(i)) = last
      BY <3>1, <3>2
    <3> QED BY <3>3 DEF First
  <2>7. Seqs!IndexFirstSubSeq(find, text) = last - (Len(find) - 1)
    BY <2>6, Zenon DEF Seqs!IndexFirstSubSeq
  <2>8. last - (Len(find) - 1) = loc
    BY <1>1, <2>1
  <2>9. find \in Seqs!SubSeqs(text)
    BY <1>3, <2>1, <2>2
  <2>10. Seqs!ReplaceFirstSubSeq(by, find, text) = Seqs!ReplaceSubSeqAt(loc, by, find, text)
    BY <2>7, <2>8, <2>9, Zenon DEF Seqs!ReplaceFirstSubSeq
  <2> QED BY <1>5, <2>10, Zenon DEF Seqs!ReplaceSubSeqAt, ReplaceOne, From
<1> QED BY <1>4, <1>5
-----------------------------------------------------------------------------
(* The invariant.                                                          *)

\* The protocol has been looked for; the domain has been cut out.
Started == pc \notin {"read", "trimmed"}
Cut     == Started /\ pc # "protocol"

\* What a call begins with.
Path == Completed(From(URL, Skipped + 1))

\* The path with the address in it.
Filled == ReplaceOne(Path, Marker, IPAddress)

UrlInv ==
  /\ TypeOK
  /\ URL \in Texts /\ IPAddress \in Texts
  /\ pc = "read" => URL \in Urls
  /\ pc \in {"read", "trimmed", "protocol", "domain"} => Webbie = <<>>
  /\ Started /\ HasProtocol => At(URL, Protocol, 1)
  /\ Cut => Domain = UpToSlash(ReplaceOne(URL, Protocol, <<>>))
  /\ pc \in {"ready", "path", "complete", "sent", "thrown"} => Webbie = Protocol \o Domain
  /\ pc = "path" => Skipped <= Len(URL) /\ PathText = From(URL, Skipped + 1)
  /\ pc = "complete" => PathText = Filled
  /\ pc = "sent" => PathText = Resource(BehindScheme(Filled))
  /\ pc = "thrown" => Skipped > Len(URL) \/ ~IsLegal(Filled) \/ HasScheme(Filled)

LEMMA TrimmedIsText ==
  ASSUME NEW text \in Texts, NEW blanks
  PROVE  Trim(text, blanks) \in Texts
<1> DEFINE kept  == {i \in DOMAIN text : text[i] \notin blanks}
           first == CHOOSE i \in kept : \A j \in kept : i <= j
           last  == CHOOSE i \in kept : \A j \in kept : i >= j
<1>1. CASE kept = {}
  BY <1>1, KnownTexts DEF Trim
<1>2. CASE kept # {}
  <2>1. Len(text) \in Nat /\ kept \subseteq 1 .. Len(text) /\ kept \subseteq Nat
    BY DEF Texts
  <2>2. first \in kept /\ last \in kept
    <3> HIDE DEF kept
    <3>1. \E i \in kept : \A j \in kept : i <= j
      BY <1>2, <2>1, LeastExists
    <3>2. \E i \in kept : \A j \in kept : i >= j
      BY <1>2, <2>1, GreatestExists
    <3> QED BY <3>1, <3>2
  <2>3. first \in 1 .. Len(text) + 1 /\ last \in 0 .. Len(text)
    <3> HIDE DEF first, last, kept
    <3> QED BY <2>1, <2>2
  <2>4. Trim(text, blanks) = SubSeq(text, first, last)
    BY <1>2 DEF Trim
  <2> HIDE DEF first, last, kept
  <2> QED BY <2>3, <2>4, SubSeqProperties DEF Texts
<1> QED BY <1>1, <1>2

LEMMA SlashAt ==
  ASSUME NEW text \in Texts, NEW i \in 1 .. Len(text)
  PROVE  At(text, <<"/">>, i) <=> text[i] = "/"
<1>1. Len(text) \in Nat /\ i \in 1 .. Len(text) + 1 /\ i \in 0 .. Len(text)
  BY DEF Texts
<1>2. /\ SubSeq(text, i, i) \in Texts /\ Len(SubSeq(text, i, i)) = 1
      /\ SubSeq(text, i, i)[1] = text[i]
  BY <1>1, SubSeqProperties DEF Texts
<1>3. SubSeq(text, i, i) = <<"/">> <=> text[i] = "/"
  <2> DEFINE q == SubSeq(text, i, i)
  <2>1. q \in Texts /\ Len(q) = 1 /\ q[1] = text[i] /\ <<"/">> \in Texts
    BY <1>2, KnownTexts
  <2> HIDE DEF q
  <2>2. q[1] = "/" => q = <<"/">>
    BY <2>1, SameTexts
  <2>3. q = <<"/">> => q[1] = "/"
    OBVIOUS
  <2> QED BY <2>1, <2>2, <2>3, Zenon DEF q
<1>4. Len(<<"/">>) = 1 /\ i + 1 <= Len(text) + 1 /\ i + 1 - 1 = i
  BY <1>1
<1> QED BY <1>3, <1>4 DEF At

\* What UpToSlash cuts off begins with the first slash.
LEMMA UpToFirstSlash ==
  ASSUME NEW text \in Texts
  PROVE  /\ UpToSlash(text) \in Texts
         /\ \E n \in 0 .. Len(text) :
              /\ UpToSlash(text) = SubSeq(text, 1, n) /\ Len(UpToSlash(text)) = n
              /\ \A i \in 1 .. n : text[i] # "/" /\ UpToSlash(text)[i] = text[i]
              /\ n < Len(text) => text[n + 1] = "/"
<1> DEFINE slash == Find(text, <<"/">>, 1)
<1>1. Len(text) \in Nat /\ \A i \in 1 .. Len(text) : At(text, <<"/">>, i) <=> text[i] = "/"
  BY SlashAt DEF Texts
<1>2. CASE slash = 0
  <2>1. \A i \in 1 .. Len(text) : text[i] # "/"
    BY <1>1, <1>2, FindIsFirst
  <2>2. UpToSlash(text) = text /\ text = SubSeq(text, 1, Len(text))
    BY <1>2, SubSeqFull DEF UpToSlash, Texts
  <2>3. Len(text) \in 0 .. Len(text) /\ ~(Len(text) < Len(text))
    BY <1>1
  <2> QED BY <2>1, <2>2, <2>3
<1>3. CASE slash # 0
  <2>1. /\ slash \in 1 .. Len(text) /\ text[slash] = "/"
        /\ \A j \in 1 .. slash - 1 : ~At(text, <<"/">>, j)
    BY <1>1, <1>3, FindIsFirst
  <2>2. UpToSlash(text) = SubSeq(text, 1, slash - 1)
    BY <1>3 DEF UpToSlash
  <2> HIDE DEF slash
  <2>3. slash - 1 \in 0 .. Len(text) /\ \A j \in 1 .. slash - 1 : text[j] # "/"
    BY <1>1, <2>1
  <2>4. /\ UpToSlash(text) \in Texts /\ Len(UpToSlash(text)) = slash - 1
        /\ \A i \in 1 .. slash - 1 : UpToSlash(text)[i] = text[i]
    BY <1>1, <2>2, <2>3, SubSeqProperties DEF Texts
  <2>5. (slash - 1) + 1 = slash
    BY <2>1
  <2> QED BY <2>1, <2>2, <2>3, <2>4, <2>5
<1> QED BY <1>2, <1>3

\* The domain has no slash.
LEMMA NoSlashInDomain ==
  ASSUME NEW text \in Texts
  PROVE  "/" \notin Seqs!ToSet(UpToSlash(text))
<1>1. \A i \in DOMAIN UpToSlash(text) : UpToSlash(text)[i] # "/"
  BY UpToFirstSlash DEF Texts
<1> QED BY <1>1 DEF Seqs!ToSet

\* Replacing legal symbols by legal ones brings in no others.
LEMMA LegalStays ==
  ASSUME NEW text \in Texts, NEW find \in Texts, NEW by \in Texts, IsLegal(text), IsLegal(by)
  PROVE  IsLegal(ReplaceOne(text, find, by))
<1> DEFINE loc == Find(text, find, 1)
<1>1. CASE loc = 0
  BY <1>1 DEF ReplaceOne
<1>2. CASE loc # 0
  <2>1. loc \in 1 .. Len(text) /\ At(text, find, loc) /\ Len(text) \in Nat /\ Len(find) \in Nat
    BY <1>2, FindIsFirst DEF Texts
  <2>2. loc + Len(find) \in 1 .. Len(text) + 1
    BY <2>1 DEF At
  <2> DEFINE head == SubSeq(text, 1, loc - 1)
             n    == loc + Len(find)
             tail == From(text, n)
  <2>3. head \in Texts /\ IsLegal(head)
    <3> HIDE DEF loc
    <3>1. /\ head \in Texts /\ Len(head) = loc - 1
          /\ \A i \in 1 .. loc - 1 : head[i] = text[i]
      BY <2>1, SubSeqProperties DEF Texts
    <3> HIDE DEF head
    <3> QED BY <2>1, <3>1 DEF IsLegal, Texts
  <2>4. tail \in Texts /\ IsLegal(tail)
    <3>1. /\ tail \in Texts /\ Len(tail) = Len(text) - n + 1
          /\ \A i \in 1 .. Len(text) - n + 1 : tail[i] = text[n + i - 1]
      <4>1. n \in 1 .. Len(text) + 1 /\ Len(text) \in 0 .. Len(text)
        BY <2>1, <2>2
      <4> HIDE DEF n
      <4> QED BY <2>1, <4>1, SubSeqProperties DEF Texts, From
    <3>2. n \in Nat \ {0}
      BY <2>2
    <3> HIDE DEF tail, n, loc
    <3> QED BY <2>1, <3>1, <3>2 DEF IsLegal, Texts
  <2>5. ReplaceOne(text, find, by) = (head \o by) \o tail
    BY <1>2 DEF ReplaceOne
  <2> HIDE DEF head, n, tail
  <2>6. head \o by \in Texts /\ IsLegal(head \o by)
    BY <2>3 DEF IsLegal, Texts
  <2>7. IsLegal((head \o by) \o tail)
    BY <2>4, <2>6 DEF IsLegal, Texts
  <2> QED BY <2>5, <2>7
<1> QED BY <1>1, <1>2

-----------------------------------------------------------------------------
(* A URL that states its protocol is cut where its path begins.            *)

LEMMA ProtocolAt ==
  ASSUME URL \in Texts, NEW p \in {Http, Https}
  PROVE  /\ At(URL, p, 1) <=> Find(URL, p, 1) = 1
         /\ At(URL, p, 1) => /\ Len(URL) >= Len(p)
                             /\ SubSeq(URL, 1, Len(p)) = p
<1>1. p \in Texts /\ Len(p) \in Nat \ {0} /\ Len(URL) \in Nat
  BY KnownTexts DEF Http, Https, Texts
<1>2. At(URL, p, 1) => Len(URL) >= Len(p) /\ SubSeq(URL, 1, Len(p)) = p
  <2>1. 1 + Len(p) - 1 = Len(p)
    BY <1>1
  <2> QED BY <1>1, <2>1 DEF At
<1>3. At(URL, p, 1) <=> Find(URL, p, 1) = 1
  <2>1. Find(URL, p, 1) = 1 => At(URL, p, 1)
    BY FindIsFirst
  <2>2. ASSUME At(URL, p, 1) PROVE Find(URL, p, 1) = 1
    <3>1. 1 \in 1 .. Len(URL)
      BY <1>1, <1>2, <2>2
    <3>2. Find(URL, p, 1) \in 1 .. Len(URL) /\ ~(1 \in 1 .. Find(URL, p, 1) - 1)
      BY <2>2, <3>1, FindIsFirst
    <3> QED BY <1>1, <3>2
  <2> QED BY <2>1, <2>2
<1> QED BY <1>2, <1>3

\* A protocol ends with its two slashes.
LEMMA ProtocolSlashes ==
  ASSUME NEW p \in {Http, Https}
  PROVE  /\ Len(p) \in Nat /\ Len(p) >= 2
         /\ \A i \in 1 .. Len(p) : p[i] = "/" <=> i \in {Len(p) - 1, Len(p)}
<1>1. CASE p = Http
  BY <1>1 DEF Http
<1>2. CASE p = Https
  BY <1>2 DEF Https
<1> QED BY <1>1, <1>2

\* The slashes from the third on are those behind the protocol.
LEMMA SlashesBehind ==
  ASSUME URL \in Texts, Protocol \in {Http, Https}, At(URL, Protocol, 1)
  PROVE  {i \in DOMAIN URL : URL[i] = "/" /\ IsThird(i)}
           = {i \in DOMAIN URL : URL[i] = "/" /\ i > Len(Protocol)}
<1> DEFINE L == Len(Protocol)
<1>1. L \in Nat /\ L >= 2 /\ \A i \in 1 .. L : Protocol[i] = "/" <=> i \in {L - 1, L}
  BY ProtocolSlashes
<1>2. /\ Len(URL) \in Nat /\ Len(URL) >= L /\ DOMAIN URL = 1 .. Len(URL)
      /\ SubSeq(URL, 1, L) = Protocol
  BY ProtocolAt DEF Texts
<1>3. \A i \in 1 .. L : URL[i] = Protocol[i]
  <2>1. 1 \in 1 .. Len(URL) + 1 /\ L \in 0 .. Len(URL)
    <3> HIDE DEF L
    <3> QED BY <1>1, <1>2
  <2>2. \A i \in 1 .. L - 1 + 1 : SubSeq(URL, 1, L)[i] = URL[1 + i - 1]
    BY <1>1, <2>1, SubSeqProperties DEF Texts
  <2> HIDE DEF L
  <2>3. \A i \in 1 .. L : i \in 1 .. L - 1 + 1 /\ 1 + i - 1 = i
    BY <1>1
  <2> QED BY <1>2, <2>2, <2>3, Zenon
<1> HIDE DEF L
<1>4. ASSUME NEW i \in DOMAIN URL, URL[i] = "/" PROVE IsThird(i) <=> i > L
  <2>1. ASSUME i > L PROVE IsThird(i)
    <3>1. L - 1 \in 1 .. i - 1 /\ L \in 1 .. i - 1 /\ L - 1 < L
      BY <1>1, <1>2, <2>1
    <3>2. URL[L - 1] = "/" /\ URL[L] = "/"
      BY <1>1, <1>3
    <3> QED BY <3>1, <3>2 DEF IsThird
  <2>2. ASSUME IsThird(i), i <= L PROVE FALSE
    <3>1. PICK j, k \in 1 .. i - 1 : j < k /\ URL[j] = "/" /\ URL[k] = "/"
      BY <2>2 DEF IsThird
    <3>2. i \in 1 .. L /\ j \in 1 .. L /\ k \in 1 .. L
      BY <1>1, <1>2, <2>2, <3>1
    <3>3. i \in {L - 1, L} /\ j \in {L - 1, L} /\ k \in {L - 1, L}
      BY <1>1, <1>3, <1>4, <3>1, <3>2
    <3> QED BY <1>1, <3>1, <3>2, <3>3
  <2> QED BY <1>1, <1>2, <2>1, <2>2
<1> QED BY <1>4 DEF L

\* Protocol and domain are what lies before the path, which is what a call is left with.
LEMMA CutRightly ==
  ASSUME URL \in Texts, Protocol \in {Http, Https}, At(URL, Protocol, 1),
         Domain = UpToSlash(ReplaceOne(URL, Protocol, <<>>))
  PROVE  /\ Skipped \in 0 .. Len(URL)
         /\ PathStart = Skipped + 1
         /\ PathStart <= Len(URL) => URL[PathStart] = "/"
         /\ Protocol \o Domain = SubSeq(URL, 1, Skipped)
         /\ PathOf = Path
<1> DEFINE L    == Len(Protocol)
           rest == From(URL, L + 1)
<1>1. /\ Len(URL) \in Nat /\ L \in Nat /\ L >= 2 /\ Len(URL) >= L
      /\ SubSeq(URL, 1, L) = Protocol /\ Find(URL, Protocol, 1) = 1
  BY ProtocolAt, ProtocolSlashes DEF Texts
<1>2. /\ rest \in Texts /\ Len(rest) = Len(URL) - L
      /\ \A i \in 1 .. Len(URL) - L : rest[i] = URL[i + L]
  <2> HIDE DEF L
  <2>1. L + 1 \in 1 .. Len(URL) + 1 /\ Len(URL) \in 0 .. Len(URL)
    BY <1>1
  <2>2. /\ rest \in Texts
        /\ Len(rest) = IF L + 1 <= Len(URL) THEN Len(URL) - (L + 1) + 1 ELSE 0
        /\ \A i \in 1 .. Len(URL) - (L + 1) + 1 : rest[i] = URL[L + 1 + i - 1]
    BY <2>1, SubSeqProperties DEF Texts, From
  <2> HIDE DEF rest
  <2>3. /\ Len(rest) = Len(URL) - L
        /\ \A i \in 1 .. Len(URL) - L : i \in 1 .. Len(URL) - (L + 1) + 1 /\ L + 1 + i - 1 = i + L
    BY <1>1, <2>2
  <2> QED BY <2>2, <2>3
<1>3. ReplaceOne(URL, Protocol, <<>>) = rest
  <2>1. ReplaceOne(URL, Protocol, <<>>) = SubSeq(URL, 1, 0) \o <<>> \o rest
    <3>1. 1 + L = L + 1 /\ 1 - 1 = 0 /\ 1 # 0
      BY <1>1
    <3>2. ReplaceOne(URL, Protocol, <<>>)
            = SubSeq(URL, 1, 1 - 1) \o <<>> \o From(URL, 1 + Len(Protocol))
      BY <1>1, <3>1, Zenon DEF ReplaceOne
    <3> QED BY <3>1, <3>2, Zenon
  <2>2. SubSeq(URL, 1, 0) = <<>>
    BY <1>1, SubSeqEmpty DEF Texts
  <2> HIDE DEF rest
  <2> QED BY <1>2, <2>1, <2>2 DEF Texts
<1> HIDE DEF rest
<1>4. PICK n \in 0 .. Len(rest) :
        /\ Domain \in Texts /\ Domain = SubSeq(rest, 1, n) /\ Len(Domain) = n
        /\ \A i \in 1 .. n : rest[i] # "/" /\ Domain[i] = rest[i]
        /\ n < Len(rest) => rest[n + 1] = "/"
  BY <1>2, <1>3, UpToFirstSlash
<1>5. Skipped = n + L /\ Skipped \in 0 .. Len(URL) /\ n \in Nat
  <2>1. Skipped = L + n
    BY <1>4, Zenon DEF Skipped
  <2> HIDE DEF L
  <2> QED BY <1>1, <1>2, <1>4, <2>1
<1>6. PathStart = Skipped + 1 /\ (PathStart <= Len(URL) => URL[PathStart] = "/")
  <2> DEFINE slashes == {i \in DOMAIN URL : URL[i] = "/" /\ i > L}
  <2>1. DOMAIN URL = 1 .. Len(URL)
    BY DEF Texts
  <2>0. PathStart = IF slashes = {} THEN Len(URL) + 1
                    ELSE CHOOSE i \in slashes : \A j \in slashes : i <= j
    <3> DEFINE thirds == {i \in DOMAIN URL : URL[i] = "/" /\ IsThird(i)}
    <3>1. PathStart = IF thirds = {} THEN Len(URL) + 1
                      ELSE CHOOSE i \in thirds : \A j \in thirds : i <= j
      BY DEF PathStart
    <3>2. thirds = slashes
      BY SlashesBehind
    <3> HIDE DEF thirds, slashes
    <3> QED BY <3>1, <3>2
  <2> HIDE DEF L
  <2>2. \A i \in slashes : i > n + L
    <3> SUFFICES ASSUME NEW i \in slashes, i <= n + L PROVE FALSE
      BY <1>1, <1>5, <2>1
    <3>1. i - L \in 1 .. n /\ (i - L) + L = i /\ i - L \in 1 .. Len(URL) - L /\ URL[i] = "/"
      BY <1>1, <1>5, <2>1
    <3> HIDE DEF slashes
    <3> QED BY <1>2, <1>4, <3>1
  <2>3. CASE n < Len(rest)
    <3>1. /\ n + 1 \in 1 .. Len(URL) - L /\ (n + 1) + L = n + L + 1
          /\ n + L + 1 \in 1 .. Len(URL)
      BY <1>1, <1>2, <1>5, <2>3
    <3>2. URL[n + L + 1] = "/"
      BY <1>2, <1>4, <2>3, <3>1
    <3>3. n + L + 1 \in slashes
      BY <1>1, <2>1, <3>1, <3>2, <1>5
    <3>4. \A i \in slashes : n + L + 1 <= i
      BY <1>1, <1>5, <2>1, <2>2
    <3>5. (CHOOSE i \in slashes : \A j \in slashes : i <= j) = n + L + 1
      <4>1. \A i \in slashes : i \in Nat
        BY <2>1
      <4> HIDE DEF slashes
      <4> QED BY <1>1, <1>5, <3>3, <3>4, <4>1
    <3>6. PathStart = n + L + 1
      BY <2>0, <3>3, <3>5
    <3> QED BY <1>5, <3>2, <3>6
  <2>4. CASE n = Len(rest)
    <3>1. slashes = {}
      BY <1>1, <1>2, <1>5, <2>1, <2>2, <2>4
    <3>2. PathStart = Len(URL) + 1
      BY <2>0, <3>1
    <3> QED BY <1>1, <1>2, <1>5, <2>4, <3>2
  <2> QED BY <1>2, <1>4, <1>5, <2>3, <2>4
<1>7. Protocol \o Domain = SubSeq(URL, 1, Skipped)
  <2>0. SubSeq(URL, 1, L) = Protocol
    BY <1>1
  <2> HIDE DEF L
  <2>1. Domain = SubSeq(URL, L + 1, n + L)
    <3> DEFINE first == L + 1
               last  == n + L
               d     == SubSeq(URL, first, last)
    <3>1. first \in 1 .. Len(URL) + 1 /\ last \in 0 .. Len(URL)
      BY <1>1, <1>5
    <3>0. /\ last - first + 1 = n /\ (first <= last <=> n > 0)
          /\ \A i \in 1 .. n : first + i - 1 = i + L
      BY <1>1, <1>5
    <3> HIDE DEF first, last
    <3>2. /\ d \in Texts /\ Len(d) = IF first <= last THEN last - first + 1 ELSE 0
          /\ \A i \in 1 .. last - first + 1 : d[i] = URL[first + i - 1]
      BY <3>1, SubSeqProperties DEF Texts
    <3> HIDE DEF d
    <3>3. Len(d) = n /\ \A i \in 1 .. n : d[i] = URL[i + L]
      <4>1. Len(d) = n
        BY <1>5, <3>0, <3>2
      <4> QED BY <3>0, <3>2, <4>1
    <3>4. \A i \in 1 .. n : Domain[i] = URL[i + L]
      BY <1>1, <1>2, <1>4, <1>5
    <3>5. Domain = d
      BY <1>4, <3>2, <3>3, <3>4, SameTexts
    <3> QED BY <3>5, Zenon DEF d, first, last
  <2>2. 1 \in 1 .. Len(URL) + 1 /\ L \in 1 - 1 .. Len(URL) /\ n + L \in L .. Len(URL)
    BY <1>1, <1>5
  <2>3. SubSeq(URL, 1, L) \o SubSeq(URL, L + 1, n + L) = SubSeq(URL, 1, n + L)
    BY <2>2, ConcatAdjacentSubSeq DEF Texts
  <2> QED BY <1>5, <2>0, <2>1, <2>3, Zenon
<1>8. PathOf = Path
  <2> HIDE DEF L
  <2>1. CASE Skipped = Len(URL)
    <3>1. From(URL, Skipped + 1) = <<>>
      BY <1>1, <2>1, SubSeqEmpty DEF From, Texts
    <3> QED BY <1>1, <1>6, <2>1, <3>1 DEF PathOf, Path, Completed
  <2>2. CASE Skipped < Len(URL)
    <3>1. From(URL, Skipped + 1) # <<>>
      <4>1. /\ Skipped + 1 \in 1 .. Len(URL) + 1 /\ Len(URL) \in 0 .. Len(URL)
            /\ Skipped + 1 <= Len(URL)
        BY <1>1, <1>5, <2>2
      <4>2. Len(From(URL, Skipped + 1)) = Len(URL) - (Skipped + 1) + 1
        BY <4>1, SubSeqProperties DEF From, Texts
      <4> QED BY <1>1, <1>5, <2>2, <4>2
    <3> QED BY <1>1, <1>5, <1>6, <2>2, <3>1 DEF PathOf, Path, Completed
  <2> QED BY <1>1, <1>5, <2>1, <2>2
<1> QED BY <1>5, <1>6, <1>7, <1>8

-----------------------------------------------------------------------------
(* Every step keeps the invariant.                                         *)

LEMMA InitUrlInv == Init => UrlInv
<1> SUFFICES ASSUME Init PROVE UrlInv
  OBVIOUS
<1>1. URL \in Texts /\ IPAddress \in Texts
  BY KnownTexts DEF Init
<1>2. TypeOK
  BY DEF Init, TypeOK, Seqs!ToSet
<1> QED BY <1>1, <1>2 DEF Init, UrlInv, Started, Cut

\* What the library makes of what is filled in.
FilledStays ==
  /\ IsLegal(Filled)' = IsLegal(Filled)
  /\ HasScheme(Filled)' = HasScheme(Filled)
  /\ Resource(BehindScheme(Filled))' = Resource(BehindScheme(Filled))

\* What the invariant says of a URL and a call depends on these variables only.
LEMMA FormulasStay ==
  ASSUME UNCHANGED <<URL, Protocol, Domain, IPAddress>>
  PROVE  /\ HasProtocol' = HasProtocol /\ Skipped' = Skipped
         /\ Path' = Path /\ Filled' = Filled
BY DEF HasProtocol, Skipped, Path, Filled, Completed, From

LEMMA NextUrlInv == UrlInv /\ [Next]_vars => UrlInv'
<1> SUFFICES ASSUME UrlInv, [Next]_vars PROVE UrlInv'
  OBVIOUS
<1> USE DEF UrlInv, Started, Cut
<1>1. CASE TrimUrl
  <2>1. URL' \in Texts
    BY <1>1, TrimmedIsText DEF TrimUrl
  <2>2. TypeOK'
    <3>1. \E url \in Urls : URL' = Trim(url, Blanks)
      BY <1>1 DEF TrimUrl
    <3> QED BY <1>1, <3>1 DEF TrimUrl, TypeOK
  <2> QED BY <1>1, <2>1, <2>2 DEF TrimUrl
<1>2. CASE FindProtocol
  <2>1. TypeOK'
    BY <1>2 DEF FindProtocol, TypeOK
  <2>2. HasProtocol' => At(URL', Protocol', 1)
    <3>1. HasProtocol => Find(URL, Protocol', 1) = 1 /\ Protocol' \in {Http, Https}
      BY <1>2 DEF FindProtocol, HasProtocol
    <3> QED BY <1>2, <3>1, ProtocolAt DEF FindProtocol, HasProtocol
  <2> QED BY <1>2, <2>1, <2>2 DEF FindProtocol
<1>3. CASE CutDomain
  <2>1. ReplaceOne(URL, Protocol, <<>>) \in Texts
    BY KnownTexts, ReplacedIsText DEF TypeOK
  <2>2. TypeOK'
    BY <1>3, <2>1, NoSlashInDomain DEF CutDomain, TypeOK
  <2> QED BY <1>3, <2>2 DEF CutDomain, HasProtocol
<1>4. CASE BuildClient
  <2>1. TypeOK'
    BY <1>4 DEF BuildClient, TypeOK
  <2> QED BY <1>4, <2>1 DEF BuildClient, HasProtocol
<1>5. CASE TakePath
  <2>1. IPAddress' \in Addresses /\ IPAddress' \in Texts
    BY <1>5, KnownTexts DEF TakePath
  <2>2. TypeOK'
    BY <1>5, <2>1 DEF TakePath, serverVars, TypeOK
  <2>3. UNCHANGED <<URL, Protocol, Domain, Webbie>> /\ Skipped' = Skipped /\ HasProtocol' = HasProtocol
    BY <1>5 DEF TakePath, serverVars, Skipped, HasProtocol
  <2>4. pc' = "thrown" => Skipped > Len(URL)
    BY <1>5 DEF TakePath, Skipped, Texts, TypeOK, Http, Https
  <2> QED BY <1>5, <2>1, <2>2, <2>3, <2>4 DEF TakePath
<1>6. CASE PutAddress
  <2>1. UNCHANGED <<URL, Protocol, Domain, Webbie, IPAddress>>
    BY <1>6 DEF PutAddress, serverVars
  <2>2. TypeOK'
    BY <1>6, <2>1 DEF PutAddress, TypeOK
  <2>3. PathText' = Filled
    BY <1>6 DEF PutAddress, Path, Filled
  <2> QED BY <1>6, <2>1, <2>2, <2>3, FormulasStay DEF PutAddress
<1>7. CASE Send
  <2>1. UNCHANGED <<URL, Protocol, Domain, Webbie, IPAddress>>
    BY <1>7 DEF Send, serverVars
  <2>2. TypeOK'
    BY <1>7, <2>1 DEF Send, TypeOK
  <2>3. PathText = Filled /\ Filled' = Filled
    BY <1>7, <2>1, FormulasStay DEF Send
  <2>4. pc' = "thrown" => ~IsLegal(Filled) \/ HasScheme(Filled)
    BY <1>7, <2>3 DEF Send
  <2>5. pc' = "sent" => PathText' = Resource(BehindScheme(Filled))
    BY <1>7, <2>3, Zenon DEF Send
  <2>6. FilledStays
    BY <2>3, Zenon DEF FilledStays, IsLegal, HasScheme, Resource, BehindScheme
  <2>7. pc' \in {"sent", "thrown"}
    BY <1>7 DEF Send
  <2> QED BY <1>7, <2>1, <2>2, <2>4, <2>5, <2>6, <2>7, FormulasStay DEF Send, FilledStays
<1>8. CASE UNCHANGED vars
  <2>1. UNCHANGED <<pc, URL, Protocol, Domain, Webbie, IPAddress, PathText>>
    BY <1>8 DEF vars, serverVars
  <2>2. TypeOK'
    BY <2>1 DEF TypeOK
  <2>3. Filled' = Filled
    BY <2>1, FormulasStay
  <2>4. FilledStays
    BY <2>3, Zenon DEF FilledStays, IsLegal, HasScheme, Resource, BehindScheme
  <2> QED BY <2>1, <2>2, <2>3, <2>4, FormulasStay DEF FilledStays
<1> QED BY <1>1, <1>2, <1>3, <1>4, <1>5, <1>6, <1>7, <1>8 DEF Next

LEMMA Invariance == Spec => []UrlInv
BY InitUrlInv, NextUrlInv, PTL DEF Spec

-----------------------------------------------------------------------------
(* The theorems.                                                           *)

\* Every variable keeps its type, and no part of a path is taken for the domain.
THEOREM TypeCorrect == Spec => []TypeOK
<1>1. UrlInv => TypeOK
  BY DEF UrlInv
<1> QED BY <1>1, Invariance, PTL

\* In any URL, what is looked for is replaced where it is found first, and nothing else is.
THEOREM FirstIsReplaced == Spec => []ReplacesFirst
<1>1. UrlInv => ReplacesFirst
  BY KnownTexts, ReplacesFirstFound DEF UrlInv, ReplacesFirst
<1> QED BY <1>1, Invariance, PTL

\* The path of a URL is a text.
LEMMA PathIsText == URL \in Texts /\ Skipped \in 0 .. Len(URL) => Path \in Texts
<1> SUFFICES ASSUME URL \in Texts, Skipped \in 0 .. Len(URL) PROVE Path \in Texts
  OBVIOUS
<1>1. Skipped + 1 \in 1 .. Len(URL) + 1 /\ Len(URL) \in 0 .. Len(URL)
  BY DEF Texts
<1>2. From(URL, Skipped + 1) \in Texts
  BY <1>1, SubSeqProperties DEF From, Texts
<1> QED BY <1>2, KnownTexts DEF Path, Completed

\* A path that begins with a slash still does with the address in it, and has no scheme.
LEMMA FilledIsRooted ==
  ASSUME NEW text \in Texts, text # <<>>, text[1] = "/", NEW by \in Texts
  PROVE  /\ ReplaceOne(text, Marker, by) \in Texts
         /\ ReplaceOne(text, Marker, by) # <<>>
         /\ ReplaceOne(text, Marker, by)[1] = "/"
<1> DEFINE loc  == Find(text, Marker, 1)
           head == SubSeq(text, 1, loc - 1)
           tail == From(text, loc + Len(Marker))
<1>1. Marker \in Texts /\ Marker[1] = "$" /\ Len(Marker) \in Nat \ {0} /\ Len(text) \in Nat
  <2>1. Marker \in Texts
    BY KnownTexts
  <2>2. Marker[1] = "$" /\ Len(Marker) = 10
    BY DEF Marker
  <2>3. Len(text) \in Nat
    BY DEF Texts
  <2> QED BY <2>1, <2>2, <2>3
<1>2. ReplaceOne(text, Marker, by) \in Texts
  BY <1>1, ReplacedIsText
<1>3. CASE loc = 0
  BY <1>2, <1>3 DEF ReplaceOne
<1>4. CASE loc # 0
  <2>1. loc \in 1 .. Len(text) /\ At(text, Marker, loc)
    BY <1>4, FindIsFirst
  <2>2. loc # 1
    <3> SUFFICES ASSUME loc = 1 PROVE FALSE
      OBVIOUS
    <3>1. Len(Marker) <= Len(text) /\ SubSeq(text, 1, Len(Marker)) = Marker
      <4>1. 1 + Len(Marker) <= Len(text) + 1 /\ SubSeq(text, 1, 1 + Len(Marker) - 1) = Marker
        BY <2>1 DEF At
      <4>2. 1 + Len(Marker) - 1 = Len(Marker)
        BY <1>1
      <4> QED BY <1>1, <4>1, <4>2
    <3>2. SubSeq(text, 1, Len(Marker))[1] = text[1]
      BY <1>1, <3>1, SubSeqProperties DEF Texts
    <3> QED BY <1>1, <3>1, <3>2
  <2>3. head \in Texts /\ Len(head) \in Nat \ {0} /\ head[1] = text[1]
    <3> HIDE DEF loc
    <3>1. 1 \in 1 .. Len(text) + 1 /\ loc - 1 \in 1 .. Len(text)
      BY <1>1, <2>1, <2>2
    <3>2. head \in Texts /\ Len(head) = loc - 1 /\ \A i \in 1 .. loc - 1 : head[i] = text[i]
      BY <1>1, <3>1, SubSeqProperties DEF Texts
    <3> HIDE DEF head
    <3> QED BY <2>1, <2>2, <3>1, <3>2
  <2>4. tail \in Texts
    <3>1. loc + Len(Marker) \in 1 .. Len(text) + 1 /\ Len(text) \in 0 .. Len(text)
      BY <1>1, <2>1 DEF At
    <3> HIDE DEF loc
    <3> QED BY <3>1, SubSeqProperties DEF Texts, From
  <2>5. ReplaceOne(text, Marker, by) = (head \o by) \o tail
    BY <1>4 DEF ReplaceOne
  <2> HIDE DEF loc, head, tail
  <2>6. head \o by \in Texts /\ Len(head \o by) \in Nat \ {0} /\ (head \o by)[1] = "/"
    BY <2>3 DEF Texts
  <2> HIDE DEF head
  <2>7. (head \o by) \o tail # <<>> /\ ((head \o by) \o tail)[1] = "/"
    BY <2>4, <2>6 DEF Texts
  <2> QED BY <1>2, <2>5, <2>7
<1> QED BY <1>3, <1>4

LEMMA RootedHasNoScheme ==
  ASSUME NEW text \in Texts, text # <<>>, text[1] = "/"
  PROVE  ~HasScheme(text)
<1> DEFINE slash == Find(text, <<"/">>, 1)
           colon == Find(text, <<":">>, 1)
<1>1. 1 \in 1 .. Len(text) /\ At(text, <<"/">>, 1)
  <2>1. 1 \in 1 .. Len(text)
    BY DEF Texts
  <2> QED BY <2>1, SlashAt
<1>2. slash = 1
  <2>1. slash \in 1 .. Len(text) /\ ~(1 \in 1 .. slash - 1)
    BY <1>1, FindIsFirst
  <2> QED BY <2>1
<1>3. colon = 0 \/ colon \in 1 .. Len(text)
  BY FindIsFirst
<1> HIDE DEF slash, colon
<1>4. ~(colon # 0 /\ (slash = 0 \/ colon < slash))
  BY <1>2, <1>3
<1> QED BY <1>4, Zenon DEF HasScheme, slash, colon

\* The library leaves a plain path as it is.
LEMMA PlainStays ==
  ASSUME NEW text \in Texts, text # <<>>, text[1] = "/", IsPlain(text)
  PROVE  Resource(BehindScheme(text)) = text
<1> DEFINE query == Find(text, <<"?">>, 1)
           path  == SubSeq(text, 1, query - 1)
<1>1. Len(text) \in Nat \ {0}
  BY DEF Texts
<1>2. BehindScheme(text) = text
  BY RootedHasNoScheme, Zenon DEF BehindScheme
<1>3. ~At(text, <<"/", "/">>, 1) /\ query # Len(text)
  BY DEF IsPlain
<1>4. BehindAuthority(text) = text
  BY <1>3, Zenon DEF BehindAuthority
<1>5. Resource(text) = WithoutHost(text)
  BY <1>3, <1>4, Zenon DEF Resource
<1>6. CASE query = 0
  <2>1. Rooted(text) = text
    BY Zenon DEF Rooted
  <2>2. WithoutHost(text) = text \o <<>>
    BY <1>6, <2>1 DEF WithoutHost
  <2>3. text \o <<>> = text
    BY DEF Texts
  <2> QED BY <1>2, <1>5, <2>2, <2>3, Zenon
<1>7. CASE query # 0
  <2>1. query \in 1 .. Len(text) - 1 /\ At(text, <<"?">>, query)
    <3>1. query \in 1 .. Len(text) /\ At(text, <<"?">>, query)
      BY <1>7, FindIsFirst
    <3> HIDE DEF query
    <3> QED BY <1>1, <1>3, <3>1
  <2>2. query # 1
    <3> SUFFICES ASSUME At(text, <<"?">>, 1) PROVE FALSE
      BY <2>1
    <3>1. SubSeq(text, 1, 1) = <<"?">>
      BY DEF At
    <3>2. SubSeq(text, 1, 1)[1] = text[1]
      BY <1>1, SubSeqProperties DEF Texts
    <3>3. <<"?">>[1] = "?"
      OBVIOUS
    <3>4. text[1] = "?"
      BY <3>1, <3>2, <3>3, Zenon
    <3> QED BY <3>4
  <2> HIDE DEF query
  <2>3. path \in Texts /\ Len(path) = query - 1 /\ path[1] = text[1] /\ path # <<>>
    <3>1. 1 \in 1 .. Len(text) + 1 /\ query - 1 \in 1 .. Len(text)
      BY <1>1, <2>1, <2>2
    <3>2. path \in Texts /\ Len(path) = query - 1 /\ \A i \in 1 .. query - 1 : path[i] = text[i]
      BY <1>1, <3>1, SubSeqProperties DEF Texts
    <3> HIDE DEF path
    <3> QED BY <3>1, <3>2
  <2> HIDE DEF path
  <2>4. Rooted(path) = path
    BY <2>3, Zenon DEF Rooted
  <2>5. WithoutHost(text) = Rooted(path) \o From(text, query)
    BY <1>3, <1>7 DEF WithoutHost, query, path
  <2>6. path \o From(text, query) = text
    <3>1. /\ 1 \in 1 .. Len(text) + 1 /\ query - 1 \in 1 - 1 .. Len(text)
          /\ Len(text) \in query - 1 .. Len(text) /\ (query - 1) + 1 = query
      BY <1>1, <2>1
    <3>2. SubSeq(text, 1, query - 1) \o SubSeq(text, (query - 1) + 1, Len(text))
            = SubSeq(text, 1, Len(text))
      BY <3>1, ConcatAdjacentSubSeq DEF Texts
    <3>3. SubSeq(text, 1, Len(text)) = text
      BY SubSeqFull DEF Texts
    <3> QED BY <3>1, <3>2, <3>3, Zenon DEF path, From
  <2> QED BY <1>2, <1>5, <2>4, <2>5, <2>6, Zenon
<1> QED BY <1>6, <1>7

\* The path of a URL that states its protocol begins with a slash.
LEMMA PathIsRooted ==
  ASSUME URL \in Texts, Skipped \in 0 .. Len(URL), PathStart = Skipped + 1,
         PathStart <= Len(URL) => URL[PathStart] = "/"
  PROVE  Path # <<>> /\ Path[1] = "/"
<1>1. CASE From(URL, Skipped + 1) = <<>>
  BY <1>1 DEF Path, Completed
<1>2. CASE From(URL, Skipped + 1) # <<>>
  <2> DEFINE rest == From(URL, Skipped + 1)
             k    == Skipped + 1
  <2>1. Len(URL) \in Nat /\ k \in 1 .. Len(URL) + 1 /\ Len(URL) \in 0 .. Len(URL)
    BY DEF Texts
  <2> HIDE DEF k
  <2>2. /\ rest \in Texts
        /\ Len(rest) = IF k <= Len(URL) THEN Len(URL) - k + 1 ELSE 0
        /\ \A i \in 1 .. Len(URL) - k + 1 : rest[i] = URL[k + i - 1]
    BY <2>1, SubSeqProperties DEF Texts, From, k
  <2>3. k <= Len(URL)
    <3> HIDE DEF rest
    <3>1. rest # <<>>
      BY <1>2 DEF rest
    <3> QED BY <2>2, <3>1 DEF Texts
  <2>4. 1 \in 1 .. Len(URL) - k + 1 /\ k + 1 - 1 = k
    BY <2>1, <2>3
  <2>5. rest[1] = URL[k]
    BY <2>2, <2>4, Zenon
  <2>6. URL[k] = "/"
    BY <2>3 DEF k
  <2>7. Path = rest
    BY <1>2 DEF Path, Completed
  <2> QED BY <1>2, <2>5, <2>6, <2>7, Zenon
<1> QED BY <1>1, <1>2

\* A URL that states its protocol is cut so that what a call fills in is the wanted path.
LEMMA FilledRightly ==
  ASSUME UrlInv, HasProtocol, Cut
  PROVE  /\ Skipped \in 0 .. Len(URL) /\ PathStart - 1 = Skipped /\ PathOf = Path
         /\ Protocol \o Domain = SubSeq(URL, 1, Skipped)
         /\ Path \in Texts /\ Filled \in Texts /\ Filled # <<>> /\ Filled[1] = "/"
         /\ Filled = Wanted
<1>1. /\ URL \in Texts /\ IPAddress \in Texts /\ Protocol \in {Http, Https}
      /\ At(URL, Protocol, 1) /\ Domain = UpToSlash(ReplaceOne(URL, Protocol, <<>>))
  BY DEF UrlInv, Started, Cut, TypeOK
<1>2. /\ Skipped \in 0 .. Len(URL) /\ PathStart = Skipped + 1 /\ PathOf = Path
      /\ PathStart <= Len(URL) => URL[PathStart] = "/"
      /\ Protocol \o Domain = SubSeq(URL, 1, Skipped)
  BY <1>1, CutRightly
<1>3. Path \in Texts /\ Path # <<>> /\ Path[1] = "/" /\ Marker \in Texts /\ Marker # <<>>
  BY <1>1, <1>2, PathIsText, PathIsRooted, KnownTexts DEF Finds
<1>4. Filled \in Texts /\ Filled # <<>> /\ Filled[1] = "/"
  BY <1>1, <1>3, FilledIsRooted, Zenon DEF Filled
<1>5. Filled = Wanted
  <2>1. Filled = Seqs!ReplaceFirstSubSeq(IPAddress, Marker, Path)
    BY <1>1, <1>3, ReplacesFirstFound, Zenon DEF Filled
  <2> QED BY <1>2, <2>1, Zenon DEF Wanted
<1>6. PathStart - 1 = Skipped
  BY <1>2
<1> QED BY <1>2, <1>3, <1>4, <1>5, <1>6

\* Whatever the length of a URL that states its protocol, and whatever was asked before, each
\* call asks for the URL as it is configured, with its own address in it, unless its path then
\* begins with two slashes or its query is empty.
THEOREM CallsAskAsConfigured == Spec => []AsksAsConfigured
<1>1. UrlInv => AsksAsConfigured
  <2> SUFFICES ASSUME UrlInv, pc = "sent", HasProtocol, IsPlain(Wanted)
               PROVE  Webbie \o PathText = Meant
    BY DEF AsksAsConfigured
  <2>1. Cut /\ Webbie = Protocol \o Domain /\ PathText = Resource(BehindScheme(Filled))
    BY DEF UrlInv, Started, Cut
  <2>2. /\ PathStart - 1 = Skipped /\ Protocol \o Domain = SubSeq(URL, 1, Skipped)
        /\ Filled \in Texts /\ Filled # <<>> /\ Filled[1] = "/" /\ Filled = Wanted
    BY <2>1, FilledRightly
  <2>3. PathText = Filled
    <3>1. IsPlain(Filled)
      BY <2>2, Zenon
    <3> QED BY <2>1, <2>2, <3>1, PlainStays, Zenon
  <2> QED BY <2>1, <2>2, <2>3, Zenon DEF Meant
<1> QED BY <1>1, Invariance, PTL

\* No call about a URL that states its protocol throws, unless its text or the address has
\* characters of which no URI can be made.
THEOREM OnlyIllegalTextsThrow == Spec => []OnlyIllegalThrows
<1>1. UrlInv => OnlyIllegalThrows
  <2> SUFFICES ASSUME UrlInv, pc = "thrown", HasProtocol
               PROVE  ~IsLegal(PathOf) \/ ~IsLegal(IPAddress)
    BY DEF OnlyIllegalThrows
  <2>1. /\ Cut /\ IPAddress \in Texts
        /\ Skipped > Len(URL) \/ ~IsLegal(Filled) \/ HasScheme(Filled)
    BY DEF UrlInv, Started, Cut
  <2>2. /\ Skipped \in 0 .. Len(URL) /\ PathOf = Path /\ Path \in Texts
        /\ Filled \in Texts /\ Filled # <<>> /\ Filled[1] = "/"
    BY <2>1, FilledRightly
  <2>3. ~(Skipped > Len(URL))
    BY <2>2
  <2>4. ~HasScheme(Filled)
    BY <2>2, RootedHasNoScheme
  <2>5. ~IsLegal(ReplaceOne(Path, Marker, IPAddress))
    BY <2>1, <2>3, <2>4, Zenon DEF Filled
  <2>6. Marker \in Texts
    BY KnownTexts
  <2> QED BY <2>1, <2>2, <2>5, <2>6, LegalStays
<1> QED BY <1>1, Invariance, PTL

-----------------------------------------------------------------------------
(* Splitting a text.                                                       *)

\* Induction over the natural numbers, for sets.
LEMMA EveryNumber ==
  ASSUME NEW M, 0 \in M, \A n \in Nat : n \in M => n + 1 \in M
  PROVE  Nat \subseteq M
<1> SUFFICES ASSUME Nat \ M # {} PROVE FALSE
  OBVIOUS
<1> DEFINE T == Nat \ M
<1>1. PICK m \in T : \A j \in T : m <= j
  <2>1. T \subseteq Nat /\ T # {}
    OBVIOUS
  <2> HIDE DEF T
  <2> QED BY <2>1, LeastExists
<1>2. m \in Nat /\ m # 0 /\ m \notin M
  OBVIOUS
<1>3. m - 1 \in Nat /\ (m - 1) + 1 = m /\ ~(m <= m - 1)
  BY <1>2
<1>4. m - 1 \in M
  BY <1>1, <1>3
<1> QED BY <1>2, <1>3, <1>4

\* j is the table of what the first so many pieces are, joined.
JoinedUpTo(j, m, pieces, with) ==
  /\ j \in [1 .. m -> Texts] /\ j[1] = pieces[1]
  /\ \A i \in 2 .. m : j[i] = j[i - 1] \o (with \o pieces[i])

\* Such a table exists,
LEMMA JoinedUpToExists ==
  ASSUME NEW with \in Texts, NEW pieces \in Seq(Texts), pieces # <<>>
  PROVE  \E j : JoinedUpTo(j, Len(pieces), pieces, with)
<1> DEFINE N == Len(pieces)
           M == {m \in Nat : m + 1 <= N => \E j : JoinedUpTo(j, m + 1, pieces, with)}
<1>1. N \in Nat /\ N > 0 /\ \A i \in 1 .. N : pieces[i] \in Texts
  OBVIOUS
<1>2. 0 \in M
  <2>1. JoinedUpTo([i \in 1 .. 1 |-> pieces[1]], 1, pieces, with)
    BY <1>1 DEF JoinedUpTo
  <2> QED BY <2>1
<1>3. ASSUME NEW m \in Nat, m \in M PROVE m + 1 \in M
  <2> SUFFICES ASSUME m + 2 <= N PROVE \E j : JoinedUpTo(j, m + 2, pieces, with)
    OBVIOUS
  <2>1. PICK j : JoinedUpTo(j, m + 1, pieces, with)
    BY <1>1, <1>3
  <2> HIDE DEF N
  <2> DEFINE next == j[m + 1] \o (with \o pieces[m + 2])
             k == [i \in 1 .. m + 2 |-> IF i <= m + 1 THEN j[i] ELSE next]
  <2>2. next \in Texts
    <3>1. j[m + 1] \in Texts /\ pieces[m + 2] \in Texts
      BY <1>1, <2>1 DEF JoinedUpTo
    <3> QED BY <3>1 DEF Texts
  <2>3. k \in [1 .. m + 2 -> Texts]
    <3> HIDE DEF next
    <3> QED BY <2>1, <2>2 DEF JoinedUpTo
  <2>4. k[1] = pieces[1] /\ (\A i \in 1 .. m + 1 : k[i] = j[i]) /\ k[m + 2] = next
    <3>1. 1 \in 1 .. m + 2 /\ j[1] = pieces[1] /\ m + 2 \in 1 .. m + 2 /\ ~(m + 2 <= m + 1)
      BY <2>1 DEF JoinedUpTo
    <3> HIDE DEF next
    <3> QED BY <3>1
  <2>5. ASSUME NEW i \in 2 .. m + 2 PROVE k[i] = k[i - 1] \o (with \o pieces[i])
    <3> HIDE DEF k
    <3>1. CASE i <= m + 1
      <4>1. i \in 2 .. m + 1 /\ i \in 1 .. m + 1 /\ i - 1 \in 1 .. m + 1
        BY <3>1
      <4> QED BY <2>1, <2>4, <4>1 DEF JoinedUpTo
    <3>2. CASE i = m + 2
      <4>1. i - 1 = m + 1 /\ m + 1 \in 1 .. m + 1
        BY <3>2
      <4> QED BY <2>4, <3>2, <4>1
    <3>3. i <= m + 1 \/ i = m + 2
      BY <2>5
    <3> QED BY <3>1, <3>2, <3>3
  <2> HIDE DEF k
  <2>6. JoinedUpTo(k, m + 2, pieces, with)
    BY <2>3, <2>4, <2>5 DEF JoinedUpTo
  <2> QED BY <2>6
<1>4. Nat \subseteq M
  <2> HIDE DEF M
  <2> QED BY <1>2, <1>3, EveryNumber
<1>5. N - 1 \in Nat /\ (N - 1) + 1 = N
  BY <1>1
<1> HIDE DEF N
<1>6. \E j : JoinedUpTo(j, N, pieces, with)
  <2>1. N - 1 \in M
    <3> HIDE DEF M
    <3> QED BY <1>4, <1>5
  <2> QED BY <1>5, <2>1
<1> QED BY <1>6 DEF N

\* The recursive definition of Joined.
IsJoined(j, pieces, with) ==
  j = [i \in 1 .. Len(pieces) |->
         IF i = 1 THEN pieces[1] ELSE j[i - 1] \o (with \o pieces[i])]

\* and what Joined returns is found in one.
LEMMA JoinedIs ==
  ASSUME NEW with \in Texts, NEW pieces \in Seq(Texts), pieces # <<>>
  PROVE  \E j : /\ JoinedUpTo(j, Len(pieces), pieces, with)
                /\ Joined(pieces, with) = j[Len(pieces)]
<1> DEFINE N == Len(pieces)
           j == CHOOSE j : IsJoined(j, pieces, with)
<1>1. N \in Nat /\ N > 0
  OBVIOUS
<1>2. PICK k : JoinedUpTo(k, N, pieces, with)
  BY JoinedUpToExists
<1>3. IsJoined(k, pieces, with)
  <2> DEFINE l == [i \in 1 .. N |-> IF i = 1 THEN pieces[1] ELSE k[i - 1] \o (with \o pieces[i])]
  <2>1. k \in [1 .. N -> Texts] /\ \A i \in 1 .. N : k[i] = l[i]
    <3>1. \A i \in 1 .. N : i = 1 \/ i \in 2 .. N
      BY <1>1
    <3> QED BY <1>2, <3>1 DEF JoinedUpTo
  <2>2. k = l
    BY <2>1
  <2> QED BY <2>2 DEF IsJoined
<1>4. IsJoined(j, pieces, with)
  BY <1>3, Zenon
<1>5. Joined(pieces, with) = j[N]
  BY Zenon DEF Joined, IsJoined
<1> HIDE DEF j
<1>6. \A i \in 1 .. N : j[i] = IF i = 1 THEN pieces[1] ELSE j[i - 1] \o (with \o pieces[i])
  BY <1>4, Zenon DEF IsJoined
<1>7. DOMAIN j = 1 .. N
  BY <1>4, Zenon DEF IsJoined
<1> DEFINE M == {m \in Nat : m + 1 <= N => j[m + 1] = k[m + 1]}
<1>8. 0 \in M
  BY <1>1, <1>2, <1>6 DEF JoinedUpTo
<1>9. ASSUME NEW m \in Nat, m \in M PROVE m + 1 \in M
  <2> SUFFICES ASSUME m + 2 <= N PROVE j[m + 2] = k[m + 2]
    OBVIOUS
  <2>1. j[m + 1] = k[m + 1] /\ m + 2 \in 1 .. N /\ m + 2 \in 2 .. N /\ (m + 2) - 1 = m + 1
    BY <1>1, <1>9
  <2>2. j[m + 2] = j[m + 1] \o (with \o pieces[m + 2])
    <3>1. j[m + 2] = IF m + 2 = 1 THEN pieces[1]
                     ELSE j[(m + 2) - 1] \o (with \o pieces[m + 2])
      <4> HIDE DEF N
      <4> QED BY <1>6, <2>1
    <3>2. j[(m + 2) - 1] = j[m + 1] /\ ~(m + 2 = 1)
      <4>1. ~(m + 2 = 1)
        OBVIOUS
      <4> QED BY <2>1, <4>1, Zenon
    <3> QED BY <3>1, <3>2, Zenon
  <2>3. k[m + 2] = k[m + 1] \o (with \o pieces[m + 2])
    <3>1. k[m + 2] = k[(m + 2) - 1] \o (with \o pieces[m + 2])
      <4> HIDE DEF N
      <4> QED BY <1>2, <2>1 DEF JoinedUpTo
    <3>2. k[(m + 2) - 1] = k[m + 1]
      BY <2>1, Zenon
    <3> QED BY <3>1, <3>2, Zenon
  <2> QED BY <2>1, <2>2, <2>3
<1>10. Nat \subseteq M
  <2> HIDE DEF M
  <2> QED BY <1>8, <1>9, EveryNumber
<1>11. \A i \in 1 .. N : j[i] = k[i]
  <2> SUFFICES ASSUME NEW i \in 1 .. N PROVE j[i] = k[i]
    OBVIOUS
  <2>1. i - 1 \in Nat /\ (i - 1) + 1 = i
    BY <1>1
  <2> QED BY <1>10, <2>1
<1>12. Joined(pieces, with) = k[N]
  BY <1>1, <1>5, <1>11
<1> QED BY <1>2, <1>12

\* A piece in front comes with the separator that follows it.
LEMMA JoinedMore ==
  ASSUME NEW with \in Texts, NEW piece \in Texts, NEW rest \in Seq(Texts), rest # <<>>
  PROVE  /\ Joined(rest, with) \in Texts
         /\ Joined(<<piece>> \o rest, with) = piece \o (with \o Joined(rest, with))
<1> DEFINE N == Len(rest)
           more == <<piece>> \o rest
<1>1. N \in Nat /\ N > 0 /\ \A i \in 1 .. N : rest[i] \in Texts
  OBVIOUS
<1>2. /\ more \in Seq(Texts) /\ Len(more) = N + 1 /\ more # <<>> /\ more[1] = piece
      /\ \A i \in 1 .. N : more[i + 1] = rest[i]
  <2>1. <<piece>> \in Seq(Texts) /\ Len(<<piece>>) = 1
    OBVIOUS
  <2> QED BY <1>1, <2>1, ConcatProperties
<1> HIDE DEF N, more
<1>3. PICK u : JoinedUpTo(u, N, rest, with) /\ Joined(rest, with) = u[N]
  BY JoinedIs DEF N
<1>4. PICK v : JoinedUpTo(v, N + 1, more, with) /\ Joined(more, with) = v[N + 1]
  BY <1>2, JoinedIs
<1> DEFINE M == {m \in Nat : m + 1 <= N => v[m + 2] = piece \o (with \o u[m + 1])}
<1>5. 0 \in M
  <2>1. 1 \in 1 .. N /\ 2 \in 2 .. N + 1 /\ 2 - 1 = 1 /\ 1 + 1 = 2
    BY <1>1
  <2>2. v[2] = v[1] \o (with \o more[2]) /\ more[2] = rest[1] /\ v[1] = piece /\ u[1] = rest[1]
    BY <1>2, <1>3, <1>4, <2>1 DEF JoinedUpTo
  <2>3. v[0 + 2] = v[2] /\ u[0 + 1] = u[1]
    OBVIOUS
  <2>4. v[0 + 2] = piece \o (with \o u[0 + 1])
    BY <2>2, <2>3
  <2> QED BY <2>4
<1>6. ASSUME NEW m \in Nat, m \in M PROVE m + 1 \in M
  <2> SUFFICES ASSUME m + 2 <= N PROVE v[m + 3] = piece \o (with \o u[m + 2])
    OBVIOUS
  <2> DEFINE a == u[m + 1]
             b == rest[m + 2]
  <2>1. /\ m + 3 \in 2 .. N + 1 /\ (m + 3) - 1 = m + 2 /\ m + 2 \in 2 .. N /\ (m + 2) - 1 = m + 1
        /\ m + 2 \in 1 .. N /\ m + 1 \in 1 .. N /\ (m + 2) + 1 = m + 3
    BY <1>1
  <2>2. /\ v[m + 3] = v[m + 2] \o (with \o b) /\ u[m + 2] = a \o (with \o b)
        /\ v[m + 2] = piece \o (with \o a)
    <3>1. v[m + 3] = v[(m + 3) - 1] \o (with \o more[m + 3])
      BY <1>4, <2>1 DEF JoinedUpTo
    <3>2. u[m + 2] = u[(m + 2) - 1] \o (with \o rest[m + 2])
      BY <1>3, <2>1 DEF JoinedUpTo
    <3>3. more[m + 3] = b
      BY <1>2, <2>1
    <3>4. v[m + 2] = piece \o (with \o a)
      BY <1>6, <2>1
    <3> QED BY <2>1, <3>1, <3>2, <3>3, <3>4
  <2>3. a \in Texts /\ b \in Texts
    BY <1>1, <1>3, <2>1 DEF JoinedUpTo
  <2> HIDE DEF a, b
  <2>4. (piece \o (with \o a)) \o (with \o b) = piece \o (with \o (a \o (with \o b)))
    <3> DEFINE w == with \o b
    <3>1. w \in Texts
      BY <2>3 DEF Texts
    <3> HIDE DEF w
    <3>2. (with \o a) \o w = with \o (a \o w)
      BY <2>3, <3>1 DEF Texts
    <3>3. (piece \o (with \o a)) \o w = piece \o ((with \o a) \o w)
      <4> DEFINE x == with \o a
      <4>1. x \in Texts
        BY <2>3 DEF Texts
      <4> HIDE DEF x
      <4>2. (piece \o x) \o w = piece \o (x \o w)
        BY <3>1, <4>1 DEF Texts
      <4> QED BY <4>2 DEF x
    <3> QED BY <3>2, <3>3 DEF w
  <2> QED BY <2>2, <2>4
<1>7. Nat \subseteq M
  <2> HIDE DEF M
  <2> QED BY <1>5, <1>6, EveryNumber
<1>8. N - 1 \in Nat /\ (N - 1) + 1 = N /\ (N - 1) + 2 = N + 1
  BY <1>1
<1>9. v[N + 1] = piece \o (with \o u[N])
  <2>1. N - 1 \in M
    <3> HIDE DEF M
    <3> QED BY <1>7, <1>8
  <2>2. v[(N - 1) + 2] = piece \o (with \o u[(N - 1) + 1])
    BY <1>8, <2>1
  <2> QED BY <1>8, <2>2
<1>10. u[N] \in Texts
  BY <1>1, <1>3 DEF JoinedUpTo
<1> QED BY <1>3, <1>4, <1>9, <1>10 DEF more

\* One piece alone comes without a separator.
LEMMA JoinedOne ==
  ASSUME NEW with \in Texts, NEW piece \in Texts
  PROVE  Joined(<<piece>>, with) = piece
<1>1. <<piece>> \in Seq(Texts) /\ <<piece>> # <<>> /\ Len(<<piece>>) = 1 /\ <<piece>>[1] = piece
  OBVIOUS
<1>2. PICK j : JoinedUpTo(j, 1, <<piece>>, with) /\ Joined(<<piece>>, with) = j[1]
  BY <1>1, JoinedIs
<1> QED BY <1>1, <1>2 DEF JoinedUpTo

\* The pieces from a position on, by the table g of those from later ones on.
PiecesFrom(text, on, g, last) ==
  LET loc == Find(text, on, last)
  IN  IF loc # 0 THEN <<SubSeq(text, last, loc - 1)>> \o g[loc + Len(on)] ELSE <<From(text, last)>>

\* g is the table of the pieces from each position on that is not before low.
SplitFrom(g, low, text, on) ==
  /\ DOMAIN g = low .. Len(text) + 1
  /\ \A last \in low .. Len(text) + 1 : g[last] = PiecesFrom(text, on, g, last)

\* After what is found comes a later position.
LEMMA FoundEndsLater ==
  ASSUME NEW text \in Texts, NEW on \in Texts, on # <<>>, NEW last \in 1 .. Len(text) + 1,
         Find(text, on, last) # 0
  PROVE  /\ Find(text, on, last) \in last .. Len(text)
         /\ Find(text, on, last) + Len(on) \in last + 1 .. Len(text) + 1
         /\ At(text, on, Find(text, on, last))
         /\ \A j \in last .. Find(text, on, last) - 1 : ~At(text, on, j)
<1> DEFINE loc == Find(text, on, last)
<1>1. Len(text) \in Nat /\ Len(on) \in Nat /\ Len(on) > 0
  BY DEF Texts
<1>2. /\ loc \in last .. Len(text) /\ At(text, on, loc)
      /\ \A j \in last .. loc - 1 : ~At(text, on, j)
  BY <1>1, FindIsFirst
<1>3. loc + Len(on) <= Len(text) + 1
  BY <1>2, Zenon DEF At
<1> HIDE DEF loc
<1>4. loc + Len(on) \in last + 1 .. Len(text) + 1
  BY <1>1, <1>2, <1>3
<1> QED BY <1>2, <1>4 DEF loc

\* The pieces from a position on depend on later positions only.
LEMMA LaterPieces ==
  ASSUME NEW text \in Texts, NEW on \in Texts, on # <<>>, NEW last \in 1 .. Len(text) + 1,
         NEW g, NEW h, \A i \in last + 1 .. Len(text) + 1 : g[i] = h[i]
  PROVE  PiecesFrom(text, on, g, last) = PiecesFrom(text, on, h, last)
<1> DEFINE loc == Find(text, on, last)
<1>1. CASE loc = 0
  BY <1>1, Zenon DEF PiecesFrom
<1>2. CASE loc # 0
  <2>1. loc + Len(on) \in last + 1 .. Len(text) + 1
    BY <1>2, FoundEndsLater
  <2>2. g[loc + Len(on)] = h[loc + Len(on)]
    BY <2>1, Zenon
  <2> QED BY <2>2, Zenon DEF PiecesFrom
<1> QED BY <1>1, <1>2

\* Such a table exists, by induction from the end of the text.
LEMMA SplitFromExists ==
  ASSUME NEW text \in Texts, NEW on \in Texts, on # <<>>
  PROVE  \E g : SplitFrom(g, 1, text, on)
<1> DEFINE L == Len(text)
           M == {m \in Nat : m <= L => \E g : SplitFrom(g, L + 1 - m, text, on)}
<1>1. L \in Nat
  BY DEF Texts
<1>2. 0 \in M
  <2> DEFINE g == [i \in L + 1 .. L + 1 |-> <<From(text, L + 1)>>]
  <2>1. Find(text, on, L + 1) = 0
    <3>1. L + 1 .. L = {}
      BY <1>1
    <3> QED BY <3>1 DEF Find
  <2>2. DOMAIN g = L + 1 .. L + 1 /\ g[L + 1] = <<From(text, L + 1)>>
    BY <1>1
  <2> HIDE DEF g
  <2>3. \A last \in L + 1 .. L + 1 : last = L + 1
    BY <1>1
  <2>4. PiecesFrom(text, on, g, L + 1) = <<From(text, L + 1)>>
    BY <2>1, Zenon DEF PiecesFrom
  <2>5. SplitFrom(g, L + 1, text, on)
    BY <2>2, <2>3, <2>4, Zenon DEF SplitFrom
  <2>6. L + 1 - 0 = L + 1
    BY <1>1
  <2> QED BY <2>5, <2>6
<1>3. ASSUME NEW m \in Nat, m \in M PROVE m + 1 \in M
  <2> SUFFICES ASSUME m + 1 <= L PROVE \E g : SplitFrom(g, L + 1 - (m + 1), text, on)
    OBVIOUS
  <2> DEFINE low == L + 1 - (m + 1)
  <2>1. /\ m <= L /\ low \in 1 .. L /\ low + 1 = L + 1 - m
        /\ low .. L + 1 = {low} \cup (low + 1 .. L + 1) /\ low \notin low + 1 .. L + 1
        /\ low \in low .. L + 1 /\ low \in 1 .. L + 1
    BY <1>1
  <2>2. PICK g : SplitFrom(g, low + 1, text, on)
    <3>1. \E g : SplitFrom(g, L + 1 - m, text, on)
      BY <1>3, <2>1
    <3> QED BY <2>1, <3>1, Zenon
  <2> HIDE DEF low
  <2> DEFINE first == PiecesFrom(text, on, g, low)
             h == [i \in low .. L + 1 |-> IF i = low THEN first ELSE g[i]]
  <2>3. DOMAIN h = low .. L + 1 /\ h[low] = first /\ \A i \in low + 1 .. L + 1 : h[i] = g[i]
    <3> HIDE DEF first
    <3> QED BY <2>1
  <2> HIDE DEF h
  <2>4. h[low] = PiecesFrom(text, on, h, low)
    <3>1. PiecesFrom(text, on, g, low) = PiecesFrom(text, on, h, low)
      <4>1. \A i \in low + 1 .. Len(text) + 1 : g[i] = h[i]
        BY <2>3
      <4> QED BY <2>1, <4>1, LaterPieces
    <3> QED BY <2>3, <3>1, Zenon
  <2>5. ASSUME NEW i \in low + 1 .. L + 1 PROVE h[i] = PiecesFrom(text, on, h, i)
    <3>1. h[i] = g[i] /\ g[i] = PiecesFrom(text, on, g, i)
      BY <2>2, <2>3, Zenon DEF SplitFrom
    <3>2. PiecesFrom(text, on, g, i) = PiecesFrom(text, on, h, i)
      <4>1. i \in 1 .. L + 1 /\ \A j \in i + 1 .. L + 1 : j \in low + 1 .. L + 1
        BY <1>1, <2>1
      <4>2. \A j \in i + 1 .. Len(text) + 1 : g[j] = h[j]
        BY <2>3, <4>1
      <4> QED BY <4>1, <4>2, LaterPieces
    <3> QED BY <3>1, <3>2, Zenon
  <2>6. SplitFrom(h, low, text, on)
    BY <2>1, <2>3, <2>4, <2>5, Zenon DEF SplitFrom
  <2> QED BY <2>6 DEF low
<1>4. Nat \subseteq M
  <2> HIDE DEF M
  <2> QED BY <1>2, <1>3, EveryNumber
<1>5. L \in M /\ L <= L /\ L + 1 - L = 1
  <2> HIDE DEF M
  <2> QED BY <1>1, <1>4
<1> QED BY <1>5

\* The recursive definition in StringSplit.
IsSplit(g, text, on) == g = [last \in 1 .. Len(text) + 1 |-> PiecesFrom(text, on, g, last)]

\* What StringSplit returns is found in such a table.
LEMMA StringSplitIs ==
  ASSUME NEW text \in Texts, NEW on \in Texts, on # <<>>
  PROVE  \E g : SplitFrom(g, 1, text, on) /\ StringSplit(text, on) = g[1]
<1> DEFINE g == CHOOSE g : IsSplit(g, text, on)
<1>1. PICK h : SplitFrom(h, 1, text, on)
  BY SplitFromExists
<1>2. \E k : IsSplit(k, text, on)
  <2> DEFINE k == [last \in 1 .. Len(text) + 1 |-> PiecesFrom(text, on, h, last)]
  <2>1. DOMAIN k = 1 .. Len(text) + 1 /\ \A i \in 1 .. Len(text) + 1 : k[i] = h[i]
    BY <1>1, Zenon DEF SplitFrom
  <2>2. \A i \in 1 .. Len(text) + 1 : PiecesFrom(text, on, h, i) = PiecesFrom(text, on, k, i)
    <3> SUFFICES ASSUME NEW i \in 1 .. Len(text) + 1
                 PROVE PiecesFrom(text, on, h, i) = PiecesFrom(text, on, k, i)
      OBVIOUS
    <3> HIDE DEF k
    <3>1. \A j \in i + 1 .. Len(text) + 1 : j \in 1 .. Len(text) + 1
      BY DEF Texts
    <3>2. \A j \in i + 1 .. Len(text) + 1 : h[j] = k[j]
      BY <2>1, <3>1
    <3> QED BY <3>2, LaterPieces
  <2>3. k = [last \in 1 .. Len(text) + 1 |-> PiecesFrom(text, on, k, last)]
    BY <2>2, Zenon
  <2> HIDE DEF k
  <2> QED BY <2>3, Zenon DEF IsSplit
<1>3. IsSplit(g, text, on)
  BY <1>2, Zenon
<1>4. StringSplit(text, on) = g[1]
  BY Zenon DEF StringSplit, IsSplit, PiecesFrom
<1> HIDE DEF g
<1>5. SplitFrom(g, 1, text, on)
  BY <1>3, Zenon DEF IsSplit, SplitFrom
<1> QED BY <1>4, <1>5, Zenon

\* What is found nowhere from one position to another is not in the part between them.
LEMMA NoneWithin ==
  ASSUME NEW text \in Texts, NEW on \in Texts, on # <<>>, NEW a \in 1 .. Len(text) + 1,
         NEW b \in a - 1 .. Len(text), \A i \in a .. b : ~At(text, on, i)
  PROVE  ~Contains(SubSeq(text, a, b), on)
<1> DEFINE part == SubSeq(text, a, b)
<1>1. Len(text) \in Nat /\ Len(on) \in Nat /\ Len(on) > 0
  BY DEF Texts
<1>2. part \in Texts /\ Len(part) = b - a + 1
  BY SubSeqProperties DEF Texts
<1> SUFFICES ASSUME NEW i \in 1 .. Len(part), At(part, on, i) PROVE FALSE
  <2> HIDE DEF part
  <2>1. DOMAIN part = 1 .. Len(part)
    BY <1>2 DEF Texts
  <2> QED BY <2>1, Zenon DEF Contains, part
<1> HIDE DEF part
<1>3. i + Len(on) <= Len(part) + 1 /\ SubSeq(part, i, i + Len(on) - 1) = on
  BY Zenon DEF At
<1>4. a + i - 1 \in a .. b /\ a + i - 1 + Len(on) <= Len(text) + 1
  BY <1>1, <1>2, <1>3
<1>5. SubSeq(text, a + i - 1, a + (i + Len(on) - 1) - 1) = on
  <2>1. /\ a \in 1 .. Len(text) /\ b \in 1 .. Len(text) /\ i \in 1 .. b - a + 1
        /\ i + Len(on) - 1 \in 1 .. b - a + 1
    BY <1>1, <1>2, <1>3
  <2>2. SubSeq(SubSeq(text, a, b), i, i + Len(on) - 1)
          = SubSeq(text, a + i - 1, a + (i + Len(on) - 1) - 1)
    BY <2>1, SubSeqOfSubSeq DEF Texts
  <2> QED BY <1>3, <2>2, Zenon DEF part
<1>6. a + (i + Len(on) - 1) - 1 = (a + i - 1) + Len(on) - 1
  BY <1>1
<1>7. At(text, on, a + i - 1)
  <2>1. SubSeq(text, a + i - 1, (a + i - 1) + Len(on) - 1) = on
    BY <1>5, <1>6, Zenon
  <2> QED BY <1>4, <2>1, Zenon DEF At
<1> QED BY <1>4, <1>7

\* The pieces from a position on are those of the rest of the text.
SplitsFrom(pieces, text, on, last) ==
  /\ pieces \in Seq(Texts) /\ pieces # <<>>
  /\ Joined(pieces, on) = From(text, last)
  /\ \A i \in 1 .. Len(pieces) : ~Contains(pieces[i], on)

\* Where nothing more is found, the rest of the text is the last piece.
LEMMA LastPiece ==
  ASSUME NEW text \in Texts, NEW on \in Texts, on # <<>>, NEW last \in 1 .. Len(text) + 1,
         Find(text, on, last) = 0
  PROVE  SplitsFrom(<<From(text, last)>>, text, on, last)
<1> DEFINE piece == From(text, last)
<1>1. Len(text) \in Nat
  BY DEF Texts
<1>2. piece \in Texts
  BY <1>1, SubSeqProperties DEF Texts, From
<1>3. \A i \in last .. Len(text) : ~At(text, on, i)
  BY <1>1, FindIsFirst
<1>4. ~Contains(piece, on)
  <2>1. Len(text) \in last - 1 .. Len(text)
    BY <1>1
  <2> QED BY <1>3, <2>1, NoneWithin DEF From
<1> HIDE DEF piece
<1>5. Joined(<<piece>>, on) = piece
  BY <1>2, JoinedOne
<1>6. /\ <<piece>> \in Seq(Texts) /\ <<piece>> # <<>>
      /\ \A i \in 1 .. Len(<<piece>>) : <<piece>>[i] = piece
  BY <1>2
<1> QED BY <1>4, <1>5, <1>6, Zenon DEF SplitsFrom, piece

\* A piece that ends where a separator is found goes before those after the separator.
LEMMA FirstPiece ==
  ASSUME NEW text \in Texts, NEW on \in Texts, on # <<>>, NEW last \in 1 .. Len(text) + 1,
         Find(text, on, last) # 0, NEW rest,
         SplitsFrom(rest, text, on, Find(text, on, last) + Len(on))
  PROVE  SplitsFrom(<<SubSeq(text, last, Find(text, on, last) - 1)>> \o rest, text, on, last)
<1> DEFINE loc == Find(text, on, last)
           piece == SubSeq(text, last, loc - 1)
           all == <<piece>> \o rest
<1>1. Len(text) \in Nat /\ Len(on) \in Nat /\ Len(on) > 0
  BY DEF Texts
<1>2. /\ loc \in last .. Len(text) /\ loc + Len(on) \in last + 1 .. Len(text) + 1
      /\ SubSeq(text, loc, loc + Len(on) - 1) = on
      /\ \A j \in last .. loc - 1 : ~At(text, on, j)
  BY FoundEndsLater, Zenon DEF At
<1>3. /\ rest \in Seq(Texts) /\ rest # <<>> /\ Joined(rest, on) = From(text, loc + Len(on))
      /\ \A i \in 1 .. Len(rest) : ~Contains(rest[i], on)
  BY Zenon DEF SplitsFrom
<1> HIDE DEF loc
<1>4. piece \in Texts /\ ~Contains(piece, on)
  <2>1. loc - 1 \in last - 1 .. Len(text) /\ last \in Int /\ loc - 1 \in Int
    BY <1>1, <1>2
  <2>2. \A i \in last .. loc - 1 : text[i] \in Symbol
    BY <1>1, <1>2 DEF Texts
  <2>3. piece \in Texts
    BY <2>1, <2>2, SubSeqProperties DEF Texts
  <2> QED BY <1>2, <2>1, <2>3, NoneWithin
<1>5. piece \o (on \o From(text, loc + Len(on))) = From(text, last)
  <2>1. SubSeq(text, loc, loc + Len(on) - 1) \o SubSeq(text, (loc + Len(on) - 1) + 1, Len(text))
          = SubSeq(text, loc, Len(text))
    <3>1. /\ loc \in 1 .. Len(text) + 1 /\ loc + Len(on) - 1 \in loc - 1 .. Len(text)
          /\ Len(text) \in loc + Len(on) - 1 .. Len(text)
      BY <1>1, <1>2
    <3> QED BY <3>1, ConcatAdjacentSubSeq DEF Texts
  <2>2. on \o From(text, loc + Len(on)) = From(text, loc)
    <3>1. (loc + Len(on) - 1) + 1 = loc + Len(on)
      BY <1>1, <1>2
    <3> QED BY <1>2, <2>1, <3>1, Zenon DEF From
  <2>3. SubSeq(text, last, loc - 1) \o SubSeq(text, (loc - 1) + 1, Len(text))
          = SubSeq(text, last, Len(text))
    <3>1. loc - 1 \in last - 1 .. Len(text) /\ Len(text) \in loc - 1 .. Len(text)
      BY <1>1, <1>2
    <3> QED BY <3>1, ConcatAdjacentSubSeq DEF Texts
  <2>4. (loc - 1) + 1 = loc
    BY <1>1, <1>2
  <2> QED BY <2>2, <2>3, <2>4, Zenon DEF From
<1> HIDE DEF piece
<1>6. Joined(all, on) = From(text, last)
  <2>1. Joined(all, on) = piece \o (on \o Joined(rest, on))
    BY <1>3, <1>4, JoinedMore
  <2> QED BY <1>3, <1>5, <2>1, Zenon
<1>7. /\ all \in Seq(Texts) /\ all # <<>> /\ Len(all) = Len(rest) + 1 /\ all[1] = piece
      /\ \A i \in 1 .. Len(rest) : all[i + 1] = rest[i]
  <2>1. <<piece>> \in Seq(Texts) /\ Len(<<piece>>) = 1
    BY <1>4
  <2> QED BY <1>3, <2>1, ConcatProperties
<1> HIDE DEF all
<1>8. ASSUME NEW i \in 1 .. Len(all) PROVE ~Contains(all[i], on)
  <2>1. i = 1 \/ (i - 1 \in 1 .. Len(rest) /\ (i - 1) + 1 = i)
    BY <1>3, <1>7
  <2>2. CASE i = 1
    BY <1>4, <1>7, <2>2, Zenon
  <2>3. CASE i - 1 \in 1 .. Len(rest) /\ (i - 1) + 1 = i
    <3>1. all[(i - 1) + 1] = rest[i - 1]
      BY <1>7, <2>3, Zenon
    <3> QED BY <1>3, <2>3, <3>1, Zenon
  <2> QED BY <2>1, <2>2, <2>3
<1> QED BY <1>6, <1>7, <1>8, Zenon DEF SplitsFrom, all, piece, loc

\* StringSplit loses nothing of a text, and leaves no separator in a piece; nor do the pieces
\* that it finds from any position on.
LEMMA StringSplitSplits ==
  ASSUME NEW text \in Texts, NEW on \in Texts, on # <<>>
  PROVE  \E g : /\ SplitFrom(g, 1, text, on) /\ StringSplit(text, on) = g[1]
                /\ \A last \in 1 .. Len(text) + 1 : SplitsFrom(g[last], text, on, last)
<1> DEFINE L == Len(text)
<1>1. L \in Nat
  BY DEF Texts
<1>2. PICK g : SplitFrom(g, 1, text, on) /\ StringSplit(text, on) = g[1]
  BY StringSplitIs
<1> DEFINE M == {m \in Nat : \A last \in 1 .. L + 1 :
                               L + 1 - m <= last => SplitsFrom(g[last], text, on, last)}
<1>3. ASSUME NEW last \in 1 .. L + 1,
             \A i \in last + 1 .. L + 1 : SplitsFrom(g[i], text, on, i)
      PROVE  SplitsFrom(g[last], text, on, last)
  <2> DEFINE loc == Find(text, on, last)
  <2>1. g[last] = PiecesFrom(text, on, g, last)
    BY <1>2, Zenon DEF SplitFrom
  <2>2. CASE loc = 0
    <3>1. g[last] = <<From(text, last)>>
      BY <2>1, <2>2, Zenon DEF PiecesFrom
    <3>2. SplitsFrom(<<From(text, last)>>, text, on, last)
      BY <2>2, LastPiece
    <3> QED BY <3>1, <3>2, Zenon
  <2>3. CASE loc # 0
    <3>1. g[last] = <<SubSeq(text, last, loc - 1)>> \o g[loc + Len(on)]
      BY <2>1, <2>3, Zenon DEF PiecesFrom
    <3>2. loc + Len(on) \in last + 1 .. L + 1
      BY <2>3, FoundEndsLater
    <3>3. SplitsFrom(g[loc + Len(on)], text, on, loc + Len(on))
      BY <1>3, <3>2, Zenon
    <3>4. SplitsFrom(<<SubSeq(text, last, loc - 1)>> \o g[loc + Len(on)], text, on, last)
      BY <2>3, <3>3, FirstPiece
    <3> QED BY <3>1, <3>4, Zenon
  <2> QED BY <2>2, <2>3
<1>4. 0 \in M
  <2> SUFFICES ASSUME NEW last \in 1 .. L + 1, L + 1 - 0 <= last
               PROVE  SplitsFrom(g[last], text, on, last)
    OBVIOUS
  <2>1. last + 1 .. L + 1 = {}
    BY <1>1
  <2> QED BY <1>3, <2>1
<1>5. ASSUME NEW m \in Nat, m \in M PROVE m + 1 \in M
  <2> SUFFICES ASSUME NEW last \in 1 .. L + 1, L + 1 - (m + 1) <= last
               PROVE  SplitsFrom(g[last], text, on, last)
    OBVIOUS
  <2>1. \A i \in last + 1 .. L + 1 : i \in 1 .. L + 1 /\ L + 1 - m <= i
    BY <1>1
  <2>2. \A i \in last + 1 .. L + 1 : SplitsFrom(g[i], text, on, i)
    BY <1>5, <2>1
  <2> QED BY <1>3, <2>2
<1>6. Nat \subseteq M
  <2> HIDE DEF M
  <2> QED BY <1>4, <1>5, EveryNumber
<1>7. \A last \in 1 .. L + 1 : SplitsFrom(g[last], text, on, last)
  <2>1. L \in M
    <3> HIDE DEF M
    <3> QED BY <1>1, <1>6
  <2>2. \A last \in 1 .. L + 1 : L + 1 - L <= last
    BY <1>1
  <2> QED BY <2>1, <2>2
<1> QED BY <1>2, <1>7

\* Whatever the URL, splitting it loses nothing of it, not even empty pieces at its ends, and
\* leaves no separator in a piece.
THEOREM SplittingIsRight == Spec => []SplitsRightly
<1>1. UrlInv => SplitsRightly
  <2> SUFFICES ASSUME UrlInv, NEW on \in Finds
               PROVE  LET pieces == StringSplit(URL, on)
                      IN  /\ pieces # <<>>
                          /\ Joined(pieces, on) = URL
                          /\ \A i \in DOMAIN pieces : ~Contains(pieces[i], on)
    BY Zenon DEF SplitsRightly
  <2> DEFINE pieces == StringSplit(URL, on)
  <2>1. URL \in Texts /\ on \in Texts /\ on # <<>>
    BY KnownTexts DEF UrlInv
  <2>2. SplitsFrom(pieces, URL, on, 1)
    <3>1. 1 \in 1 .. Len(URL) + 1
      BY <2>1 DEF Texts
    <3> QED BY <2>1, <3>1, StringSplitSplits
  <2> HIDE DEF pieces
  <2>3. /\ pieces \in Seq(Texts) /\ pieces # <<>> /\ Joined(pieces, on) = From(URL, 1)
        /\ \A i \in 1 .. Len(pieces) : ~Contains(pieces[i], on)
    BY <2>2, Zenon DEF SplitsFrom
  <2>4. From(URL, 1) = URL
    BY <2>1, SubSeqFull DEF Texts, From
  <2>5. DOMAIN pieces = 1 .. Len(pieces)
    BY <2>3
  <2> QED BY <2>3, <2>4, <2>5, Zenon DEF pieces
<1> QED BY <1>1, Invariance, PTL

-----------------------------------------------------------------------------
(* Replacing all.                                                          *)

\* The recursive definition of FlattenSeq.
IsFlat(j, seqs) ==
  j = [i \in 1 .. Len(seqs) |-> IF i = 1 THEN seqs[i] ELSE j[i - 1] \o seqs[i]]

\* j is the table of what the first so many texts are, one after the other.
FlatUpTo(j, m, seqs) ==
  /\ DOMAIN j = 1 .. m /\ j[1] = seqs[1]
  /\ \A i \in 2 .. m : j[i] = j[i - 1] \o seqs[i]

\* Texts one after the other are texts joined with nothing.
LEMMA FlattenedIs ==
  ASSUME NEW seqs \in Seq(Texts), seqs # <<>>
  PROVE  \E j : FlatUpTo(j, Len(seqs), seqs) /\ Seqs!FlattenSeq(seqs) = j[Len(seqs)]
<1> DEFINE N == Len(seqs)
           j == CHOOSE j : IsFlat(j, seqs)
<1>1. N \in Nat /\ N > 0 /\ \A i \in 1 .. N : seqs[i] \in Texts
  OBVIOUS
<1>2. <<>> \in Texts /\ \A s \in Texts : <<>> \o s = s
  BY DEF Texts
<1>3. PICK k : JoinedUpTo(k, N, seqs, <<>>)
  BY <1>2, JoinedUpToExists
<1>4. IsFlat(k, seqs)
  <2> DEFINE l == [i \in 1 .. N |-> IF i = 1 THEN seqs[i] ELSE k[i - 1] \o seqs[i]]
  <2>1. k \in [1 .. N -> Texts] /\ k[1] = seqs[1] /\ \A i \in 2 .. N : k[i] = k[i - 1] \o (<<>> \o seqs[i])
    BY <1>3, Zenon DEF JoinedUpTo
  <2>2. \A i \in 1 .. N : i = 1 \/ (i \in 2 .. N /\ i # 1)
    BY <1>1
  <2>3. ASSUME NEW i \in 1 .. N PROVE k[i] = l[i]
    <3>1. CASE i = 1
      BY <2>1, <3>1
    <3>2. CASE i \in 2 .. N /\ i # 1
      <4>1. k[i] = k[i - 1] \o (<<>> \o seqs[i]) /\ <<>> \o seqs[i] = seqs[i]
        BY <1>1, <1>2, <2>1, <3>2
      <4>2. l[i] = k[i - 1] \o seqs[i]
        BY <3>2, Zenon
      <4> QED BY <4>1, <4>2, Zenon
    <3> QED BY <2>2, <3>1, <3>2
  <2>4. k = l
    <3>1. DOMAIN k = 1 .. N /\ DOMAIN l = 1 .. N
      BY <2>1
    <3>2. k = [i \in 1 .. N |-> k[i]] /\ l = [i \in 1 .. N |-> l[i]]
      BY <2>1
    <3> HIDE DEF l
    <3> QED BY <2>3, <3>2
  <2> QED BY <2>4 DEF IsFlat
<1>5. IsFlat(j, seqs)
  BY <1>4, Zenon
<1>6. Seqs!FlattenSeq(seqs) = j[N]
  <2>1. Len(seqs) # 0
    BY <1>1
  <2> QED BY <2>1, Zenon DEF Seqs!FlattenSeq, IsFlat
<1> HIDE DEF j
<1>7. \A i \in 1 .. N : j[i] = IF i = 1 THEN seqs[i] ELSE j[i - 1] \o seqs[i]
  BY <1>5, Zenon DEF IsFlat
<1>8. FlatUpTo(j, N, seqs)
  <2>1. DOMAIN j = 1 .. N
    BY <1>5, Zenon DEF IsFlat
  <2>2. 1 \in 1 .. N /\ \A i \in 2 .. N : i \in 1 .. N /\ i # 1
    BY <1>1
  <2> QED BY <1>7, <2>1, <2>2, Zenon DEF FlatUpTo
<1> QED BY <1>6, <1>8

\* Two of the ways to put three texts together are the same.
LEMMA Associative ==
  ASSUME NEW a \in Texts, NEW b \in Texts, NEW c \in Texts
  PROVE  (a \o b) \o c = a \o (b \o c) /\ a \o b \in Texts
BY DEF Texts

\* The same, to be cited for texts that are written out.
LEMMA AllAssociative == \A s, t, u \in Texts : (s \o t) \o u = s \o (t \o u)
BY Associative

\* What ReplaceAll makes of a text is its pieces, joined with the replacement.
LEMMA ReplaceAllJoins ==
  ASSUME NEW text \in Texts, NEW find \in Texts, find # <<>>, NEW by \in Texts
  PROVE  ReplaceAll(text, find, by) = Joined(StringSplit(text, find), by)
<1> DEFINE pieces == StringSplit(text, find)
           longer == [i \in DOMAIN pieces |-> pieces[i] \o by]
           N == Len(pieces)
<1>1. pieces \in Seq(Texts) /\ pieces # <<>>
  <2>1. 1 \in 1 .. Len(text) + 1
    BY DEF Texts
  <2>2. PICK g : StringSplit(text, find) = g[1] /\ SplitsFrom(g[1], text, find, 1)
    BY <2>1, StringSplitSplits
  <2> QED BY <2>2, Zenon DEF SplitsFrom
<1>2. ReplaceAll(text, find, by)
        = SubSeq(Seqs!FlattenSeq(longer), 1, Len(Seqs!FlattenSeq(longer)) - Len(by))
  BY Zenon DEF ReplaceAll
<1> HIDE DEF pieces
<1>3. N \in Nat /\ N > 0 /\ \A i \in 1 .. N : pieces[i] \in Texts
  BY <1>1
<1>4. /\ longer \in Seq(Texts) /\ longer # <<>> /\ Len(longer) = N
      /\ \A i \in 1 .. N : longer[i] = pieces[i] \o by
  <2>1. DOMAIN pieces = 1 .. N
    BY <1>1
  <2>2. longer = [i \in 1 .. N |-> longer[i]] /\ \A i \in 1 .. N : longer[i] = pieces[i] \o by
    BY <2>1
  <2>3. \A i \in 1 .. N : longer[i] \in Texts
    BY <1>3, <2>2, Associative
  <2> HIDE DEF longer, N
  <2>4. longer \in Seq(Texts) /\ Len(longer) = N
    BY <1>3, <2>2, <2>3
  <2> QED BY <1>3, <2>2, <2>4
<1> HIDE DEF longer, N
<1>5. PICK f : FlatUpTo(f, N, longer) /\ Seqs!FlattenSeq(longer) = f[N]
  BY <1>4, FlattenedIs
<1>6. PICK j : JoinedUpTo(j, N, pieces, by) /\ Joined(pieces, by) = j[N]
  BY <1>1, JoinedIs DEF N
<1> DEFINE M == {m \in Nat : m + 1 <= N => f[m + 1] = j[m + 1] \o by}
<1>7. 0 \in M
  <2>1. 1 \in 1 .. N
    BY <1>3
  <2>2. f[1] = j[1] \o by
    BY <1>4, <1>5, <1>6, <2>1, Zenon DEF FlatUpTo, JoinedUpTo
  <2>3. 0 + 1 = 1
    OBVIOUS
  <2> QED BY <2>2, <2>3
<1>8. ASSUME NEW m \in Nat, m \in M PROVE m + 1 \in M
  <2> SUFFICES ASSUME m + 2 <= N PROVE f[m + 2] = j[m + 2] \o by
    OBVIOUS
  <2>1. /\ m + 2 \in 2 .. N /\ m + 2 \in 1 .. N /\ (m + 2) - 1 = m + 1 /\ m + 1 \in 1 .. N
    BY <1>3
  <2>2. f[m + 1] = j[m + 1] \o by
    BY <1>8, <2>1
  <2>3. f[m + 2] = f[(m + 2) - 1] \o longer[m + 2] /\ longer[m + 2] = pieces[m + 2] \o by
    BY <1>4, <1>5, <2>1, Zenon DEF FlatUpTo
  <2>4. j[m + 2] = j[(m + 2) - 1] \o (by \o pieces[m + 2])
    BY <1>6, <2>1, Zenon DEF JoinedUpTo
  <2> DEFINE a == j[m + 1]
             p == pieces[m + 2]
  <2>5. f[(m + 2) - 1] = f[m + 1] /\ j[(m + 2) - 1] = a
    BY <2>1, Zenon
  <2>6. f[m + 2] = (a \o by) \o (p \o by) /\ j[m + 2] = a \o (by \o p)
    BY <2>2, <2>3, <2>4, <2>5, Zenon
  <2>7. a \in Texts /\ p \in Texts
    BY <1>3, <1>6, <2>1 DEF JoinedUpTo
  <2> HIDE DEF a, p
  <2>8. (a \o by) \o (p \o by) = (a \o (by \o p)) \o by
    <3>1. p \o by \in Texts /\ by \o p \in Texts /\ (by \o p) \o by = by \o (p \o by)
      BY <2>7, Associative
    <3>2. (a \o by) \o (p \o by) = a \o (by \o (p \o by))
      BY <2>7, <3>1, AllAssociative, Zenon
    <3>3. (a \o (by \o p)) \o by = a \o ((by \o p) \o by)
      <4>1. by \o p \in Texts /\ a \in Texts /\ by \in Texts
        BY <2>7, <3>1, Zenon
      <4> QED BY <4>1, AllAssociative, Zenon
    <3> QED BY <3>1, <3>2, <3>3, Zenon
  <2> QED BY <2>6, <2>8, Zenon
<1>9. Nat \subseteq M
  <2> HIDE DEF M
  <2> QED BY <1>7, <1>8, EveryNumber
<1>10. f[N] = j[N] \o by
  <2>1. N - 1 \in Nat /\ (N - 1) + 1 = N
    BY <1>3
  <2>2. (N - 1) + 1 <= N => f[(N - 1) + 1] = j[(N - 1) + 1] \o by
    BY <1>9, <2>1
  <2> QED BY <1>3, <2>1, <2>2
<1> DEFINE J == j[N]
<1>11. J \in Texts
  BY <1>3, <1>6 DEF JoinedUpTo
<1> HIDE DEF J
<1>12. SubSeq(J \o by, 1, Len(J \o by) - Len(by)) = J
  <2>1. Len(J \o by) - Len(by) = Len(J) /\ J \o by \in Texts
    BY <1>11 DEF Texts
  <2>2. SubSeq(J \o by, 1, Len(J)) = J
    BY <1>11 DEF Texts
  <2> QED BY <2>1, <2>2, Zenon
<1> QED BY <1>2, <1>5, <1>6, <1>10, <1>12, Zenon DEF J, pieces

-----------------------------------------------------------------------------
(* Replacing one after the other.                                         *)

\* r is the table of what becomes of a text by replacing once, twice and so on.
Chain(r, n, text, find, by) ==
  /\ r \in [0 .. n -> Texts] /\ r[0] = text
  /\ \A i \in 1 .. n : r[i] = ReplaceOne(r[i - 1], find, by)

\* Such a table exists for every number,
LEMMA ChainExists ==
  ASSUME NEW text \in Texts, NEW find \in Texts, NEW by \in Texts, NEW n \in Nat
  PROVE  \E r : Chain(r, n, text, find, by)
<1> DEFINE M == {m \in Nat : \E r : Chain(r, m, text, find, by)}
<1>1. 0 \in M
  <2>1. Chain([i \in 0 .. 0 |-> text], 0, text, find, by)
    BY DEF Chain
  <2> QED BY <2>1
<1>2. ASSUME NEW m \in Nat, m \in M PROVE m + 1 \in M
  <2>1. PICK r : Chain(r, m, text, find, by)
    BY <1>2
  <2> DEFINE next == ReplaceOne(r[m], find, by)
             k == [i \in 0 .. m + 1 |-> IF i <= m THEN r[i] ELSE next]
  <2>2. next \in Texts
    <3>1. r[m] \in Texts
      BY <2>1 DEF Chain
    <3> QED BY <3>1, ReplacedIsText
  <2> HIDE DEF next
  <2>3. /\ k \in [0 .. m + 1 -> Texts] /\ k[0] = text /\ k[m + 1] = next
        /\ \A i \in 0 .. m : k[i] = r[i]
    BY <2>1, <2>2 DEF Chain
  <2> HIDE DEF k
  <2>4. ASSUME NEW i \in 1 .. m + 1 PROVE k[i] = ReplaceOne(k[i - 1], find, by)
    <3>1. CASE i \in 1 .. m
      <4>1. r[i] = ReplaceOne(r[i - 1], find, by)
        BY <2>1, <3>1, Zenon DEF Chain
      <4>2. k[i] = r[i] /\ k[i - 1] = r[i - 1]
        BY <2>3, <3>1
      <4> QED BY <4>1, <4>2, Zenon
    <3>2. CASE i = m + 1
      <4>1. i - 1 = m /\ m \in 0 .. m
        BY <3>2
      <4>2. k[i - 1] = r[m] /\ k[i] = next
        BY <2>3, <3>2, <4>1, Zenon
      <4> QED BY <4>2, Zenon DEF next
    <3>3. i \in 1 .. m \/ i = m + 1
      OBVIOUS
    <3> QED BY <3>1, <3>2, <3>3
  <2>5. Chain(k, m + 1, text, find, by)
    BY <2>3, <2>4 DEF Chain
  <2> QED BY <2>5
<1>3. Nat \subseteq M
  <2> HIDE DEF M
  <2> QED BY <1>1, <1>2, EveryNumber
<1> QED BY <1>3

\* The recursive definition in Repeated.
IsRepeated(r, text, find, by) ==
  r = [n \in 0 .. Len(text) |-> IF n = 0 THEN text ELSE ReplaceOne(r[n - 1], find, by)]

\* and what Repeated returns is found in one.
LEMMA RepeatedIs ==
  ASSUME NEW text \in Texts, NEW find \in Texts, NEW by \in Texts
  PROVE  \E r : Chain(r, Len(text), text, find, by) /\ Repeated(text, find, by) = r[Len(text)]
<1> DEFINE L == Len(text)
           j == CHOOSE j : IsRepeated(j, text, find, by)
<1>1. L \in Nat
  BY DEF Texts
<1>2. PICK r : Chain(r, L, text, find, by)
  BY <1>1, ChainExists
<1>3. IsRepeated(r, text, find, by)
  <2> DEFINE l == [n \in 0 .. L |-> IF n = 0 THEN text ELSE ReplaceOne(r[n - 1], find, by)]
  <2>1. \A n \in 0 .. L : n = 0 \/ (n # 0 /\ n \in 1 .. L)
    BY <1>1
  <2>2. ASSUME NEW n \in 0 .. L PROVE r[n] = l[n]
    <3>1. CASE n = 0
      BY <1>2, <3>1, Zenon DEF Chain
    <3>2. CASE n # 0 /\ n \in 1 .. L
      BY <1>2, <3>2, Zenon DEF Chain
    <3> QED BY <2>1, <3>1, <3>2
  <2>3. r = [n \in 0 .. L |-> r[n]] /\ l = [n \in 0 .. L |-> l[n]]
    BY <1>2 DEF Chain
  <2>4. r = l
    <3> HIDE DEF l
    <3> QED BY <2>2, <2>3
  <2> QED BY <2>4, Zenon DEF IsRepeated
<1>4. IsRepeated(j, text, find, by)
  BY <1>3, Zenon
<1>5. Repeated(text, find, by) = j[L]
  BY Zenon DEF Repeated, IsRepeated
<1> HIDE DEF j
<1>6. \A n \in 0 .. L : j[n] = IF n = 0 THEN text ELSE ReplaceOne(j[n - 1], find, by)
  BY <1>4, Zenon DEF IsRepeated
<1> DEFINE M == {m \in Nat : m <= L => j[m] = r[m]}
<1>7. 0 \in M
  <2>1. 0 \in 0 .. L
    BY <1>1
  <2>2. j[0] = r[0]
    BY <1>2, <1>6, <2>1, Zenon DEF Chain
  <2> QED BY <2>2
<1>8. ASSUME NEW m \in Nat, m \in M PROVE m + 1 \in M
  <2> SUFFICES ASSUME m + 1 <= L PROVE j[m + 1] = r[m + 1]
    OBVIOUS
  <2>1. m + 1 \in 0 .. L /\ m + 1 \in 1 .. L /\ m + 1 # 0 /\ (m + 1) - 1 = m /\ j[m] = r[m]
    BY <1>1, <1>8
  <2>2. j[m + 1] = ReplaceOne(j[(m + 1) - 1], find, by)
    BY <1>6, <2>1, Zenon
  <2>3. r[m + 1] = ReplaceOne(r[(m + 1) - 1], find, by)
    BY <1>2, <2>1, Zenon DEF Chain
  <2> QED BY <2>1, <2>2, <2>3, Zenon
<1>9. Nat \subseteq M
  <2> HIDE DEF M
  <2> QED BY <1>7, <1>8, EveryNumber
<1>10. j[L] = r[L]
  <2>1. L \in M
    <3> HIDE DEF M
    <3> QED BY <1>1, <1>9
  <2> QED BY <1>1, <2>1
<1> QED BY <1>2, <1>5, <1>10, Zenon

-----------------------------------------------------------------------------
(* What is put in is not found again.                                      *)

\* Two texts, one after the other.
LEMMA OneAfterOther ==
  ASSUME NEW s \in Texts, NEW t \in Texts
  PROVE  /\ s \o t \in Texts /\ Len(s \o t) = Len(s) + Len(t)
         /\ \A i \in 1 .. Len(s) : (s \o t)[i] = s[i]
         /\ \A i \in 1 .. Len(t) : (s \o t)[Len(s) + i] = t[i]
<1>1. Len(s) \in Nat /\ Len(t) \in Nat
  BY DEF Texts
<1>2. /\ s \o t \in Texts /\ Len(s \o t) = Len(s) + Len(t)
      /\ \A i \in 1 .. Len(s) + Len(t) : (s \o t)[i] = IF i <= Len(s) THEN s[i] ELSE t[i - Len(s)]
  BY ConcatProperties DEF Texts
<1>3. \A i \in 1 .. Len(t) : Len(s) + i \in 1 .. Len(s) + Len(t) /\ ~(Len(s) + i <= Len(s))
                            /\ (Len(s) + i) - Len(s) = i
  BY <1>1
<1>4. \A i \in 1 .. Len(t) : (s \o t)[Len(s) + i] = t[i]
  <2> SUFFICES ASSUME NEW i \in 1 .. Len(t) PROVE (s \o t)[Len(s) + i] = t[i]
    OBVIOUS
  <2> QED BY <1>2, <1>3, Zenon
<1>5. \A i \in 1 .. Len(s) : i \in 1 .. Len(s) + Len(t) /\ i <= Len(s)
  BY <1>1
<1> QED BY <1>2, <1>4, <1>5

\* What is found at a place is there symbol by symbol.
LEMMA AtIsEachSymbol ==
  ASSUME NEW text \in Texts, NEW find \in Texts, NEW i \in Nat \ {0}
  PROVE  At(text, find, i) <=> /\ i + Len(find) <= Len(text) + 1
                               /\ \A k \in 1 .. Len(find) : text[i + k - 1] = find[k]
<1>1. Len(text) \in Nat /\ Len(find) \in Nat
  BY DEF Texts
<1> DEFINE part == SubSeq(text, i, i + Len(find) - 1)
<1>2. ASSUME i + Len(find) <= Len(text) + 1
      PROVE  /\ part \in Texts /\ Len(part) = Len(find)
             /\ \A k \in 1 .. Len(find) : part[k] = text[i + k - 1]
  <2>1. /\ i \in Int /\ i + Len(find) - 1 \in Int
        /\ \A m \in i .. i + Len(find) - 1 : text[m] \in Symbol
    BY <1>1, <1>2 DEF Texts
  <2>2. /\ part \in Seq(Symbol)
        /\ Len(part) = IF i <= i + Len(find) - 1 THEN (i + Len(find) - 1) - i + 1 ELSE 0
        /\ \A k \in 1 .. (i + Len(find) - 1) - i + 1 : part[k] = text[i + k - 1]
    BY <2>1, SubSeqProperties
  <2>3. (i + Len(find) - 1) - i + 1 = Len(find) /\ (i <= i + Len(find) - 1 \/ Len(find) = 0)
    BY <1>1
  <2> HIDE DEF part
  <2> QED BY <2>2, <2>3 DEF Texts
<1> HIDE DEF part
<1>3. i + Len(find) <= Len(text) + 1 => (part = find <=> \A k \in 1 .. Len(find) : part[k] = find[k])
  BY <1>2, SameTexts
<1>4. At(text, find, i) <=> i + Len(find) <= Len(text) + 1 /\ part = find
  BY Zenon DEF At, part
<1> QED BY <1>2, <1>3, <1>4

\* The texts have no symbol in common, and by has one.
Foreign(by, find) == by # <<>> /\ \A i \in DOMAIN by : \A j \in DOMAIN find : by[i] # find[j]

\* Nothing is found that begins in front of what follows u.
Passed(u, find) ==
  u \in Texts /\ \A t \in Texts : \A i \in 1 .. Len(u) : ~At(u \o t, find, i)

\* Behind a replacement for what was found, nothing that begins before is found.
LEMMA PassedMore ==
  ASSUME NEW find \in Texts, find # <<>>, NEW by \in Texts, Foreign(by, find),
         NEW u, Passed(u, find), NEW p \in Texts, ~Contains(p, find)
  PROVE  Passed(u \o (p \o by), find)
<1> DEFINE a == Len(u)
           b == Len(p)
           c == Len(by)
           n == Len(find)
           pb == p \o by
           x == u \o pb
<1>1. u \in Texts
  BY DEF Passed
<1>2. a \in Nat /\ b \in Nat /\ c \in Nat /\ n \in Nat /\ n > 0 /\ c > 0
  BY <1>1 DEF Texts, Foreign
<1>3. /\ pb \in Texts /\ Len(pb) = b + c /\ \A i \in 1 .. b : pb[i] = p[i]
      /\ \A i \in 1 .. c : pb[b + i] = by[i]
  BY <1>1 DEF Texts
<1> HIDE DEF pb
<1>4. /\ x \in Texts /\ Len(x) = a + (b + c) /\ \A i \in 1 .. b + c : x[a + i] = pb[i]
  <2>1. x \in Texts /\ Len(x) = a + Len(pb) /\ \A i \in 1 .. Len(pb) : x[a + i] = pb[i]
    BY <1>1, <1>3, OneAfterOther
  <2> HIDE DEF x
  <2> QED BY <1>3, <2>1, Zenon
<1> SUFFICES ASSUME NEW t \in Texts, NEW i \in 1 .. Len(x), At(x \o t, find, i) PROVE FALSE
  BY <1>4, Zenon DEF Passed, pb
<1> DEFINE y == pb \o t
<1>5. y \in Texts /\ x \o t = u \o y
  <2>1. y \in Texts
    BY <1>3, Associative
  <2>2. (u \o pb) \o t = u \o (pb \o t)
    BY <1>1, <1>3, AllAssociative, Zenon
  <2> QED BY <2>1, <2>2, Zenon
<1>6. i > a
  <2> HIDE DEF y
  <2>1. At(u \o y, find, i)
    BY <1>5, Zenon
  <2>2. ~(i \in 1 .. a)
    BY <1>5, <2>1, Zenon DEF Passed
  <2> QED BY <1>2, <1>4, <2>2
<1> DEFINE z == x \o t
<1>7. /\ z \in Texts /\ \A m \in 1 .. b + c : z[a + m] = pb[m]
  <2> HIDE DEF x
  <2>1. z \in Texts /\ \A m \in 1 .. a + (b + c) : z[m] = x[m]
    BY <1>4 DEF Texts
  <2>2. \A m \in 1 .. b + c : a + m \in 1 .. a + (b + c)
    BY <1>2
  <2> QED BY <1>4, <2>1, <2>2
<1> HIDE DEF x, y, z
<1>8. \A k \in 1 .. n : z[i + k - 1] = find[k]
  <2>1. At(z, find, i)
    BY DEF z
  <2>2. i \in Nat \ {0}
    BY <1>2, <1>6
  <2> QED BY <1>7, <2>1, <2>2, AtIsEachSymbol
<1> DEFINE m == i - a
<1>9. m \in 1 .. b + c
  BY <1>2, <1>4, <1>6
<1>10. \A j \in 1 .. c : \A k \in 1 .. n : by[j] # find[k]
  BY DEF Foreign, Texts
<1>11. ASSUME NEW k \in 1 .. n, m + k - 1 <= b + c
       PROVE  pb[m + k - 1] = find[k]
  <2>1. m + k - 1 \in 1 .. b + c /\ a + (m + k - 1) = i + k - 1
    BY <1>2, <1>9, <1>11
  <2>2. z[a + (m + k - 1)] = pb[m + k - 1]
    BY <1>7, <2>1, Zenon
  <2>3. z[i + k - 1] = find[k]
    BY <1>8, Zenon
  <2> QED BY <2>1, <2>2, <2>3, Zenon
<1>12. CASE m > b
  <2>1. 1 \in 1 .. n /\ m + 1 - 1 <= b + c /\ m - b \in 1 .. c /\ m + 1 - 1 = b + (m - b)
    BY <1>2, <1>9, <1>12
  <2>2. pb[m + 1 - 1] = find[1]
    BY <1>11, <2>1
  <2>3. pb[b + (m - b)] = by[m - b]
    BY <1>3, <2>1, Zenon
  <2>4. by[m - b] = find[1]
    BY <2>1, <2>2, <2>3, Zenon
  <2> QED BY <1>10, <2>1, <2>4, Zenon
<1>13. CASE m <= b /\ m + n - 1 > b
  <2>1. /\ b + 2 - m \in 1 .. n /\ m + (b + 2 - m) - 1 = b + 1 /\ b + 1 <= b + c /\ 1 \in 1 .. c
    BY <1>2, <1>9, <1>13
  <2>2. pb[m + (b + 2 - m) - 1] = find[b + 2 - m]
    BY <1>11, <2>1
  <2>3. pb[b + 1] = by[1]
    BY <1>3, <2>1, Zenon
  <2>4. by[1] = find[b + 2 - m]
    BY <2>1, <2>2, <2>3, Zenon
  <2> QED BY <1>10, <2>1, <2>4, Zenon
<1>14. CASE m <= b /\ m + n - 1 <= b
  <2>1. m \in Nat \ {0} /\ m + n <= b + 1 /\ m \in 1 .. b
    BY <1>2, <1>9, <1>14
  <2>2. ASSUME NEW k \in 1 .. n PROVE p[m + k - 1] = find[k]
    <3>1. m + k - 1 \in 1 .. b /\ m + k - 1 <= b + c
      BY <1>2, <1>9, <1>14
    <3>2. pb[m + k - 1] = find[k]
      BY <1>11, <3>1
    <3>3. pb[m + k - 1] = p[m + k - 1]
      BY <1>3, <3>1, Zenon
    <3> QED BY <3>2, <3>3, Zenon
  <2> HIDE DEF m
  <2>3. At(p, find, m)
    BY <2>1, <2>2, AtIsEachSymbol
  <2>4. m \in DOMAIN p
    BY <2>1 DEF Texts
  <2> QED BY <2>3, <2>4, Zenon DEF Contains
<1>15. (m > b) \/ (m <= b /\ m + n - 1 > b) \/ (m <= b /\ m + n - 1 <= b)
  BY <1>2, <1>9
<1> QED BY <1>12, <1>13, <1>14, <1>15

-----------------------------------------------------------------------------
(* Replacing all is replacing one after the other.                         *)

\* The piece that begins at a position, and where the one after it begins.
PieceAt(text, find, last)    == SubSeq(text, last, Find(text, find, last) - 1)
AfterFound(text, find, last) == Find(text, find, last) + Len(find)

\* Behind a part in which nothing is found that begins there, the rest of the text is looked
\* through as it is in the text.
LEMMA ReplacesBehind ==
  ASSUME NEW text \in Texts, NEW find \in Texts, find # <<>>, NEW by \in Texts,
         NEW u, Passed(u, find), NEW last \in 1 .. Len(text) + 1
  PROVE  /\ u \o From(text, last) \in Texts
         /\ Find(text, find, last) = 0
              => ReplaceOne(u \o From(text, last), find, by) = u \o From(text, last)
         /\ Find(text, find, last) # 0
              => ReplaceOne(u \o From(text, last), find, by)
                   = (u \o (PieceAt(text, find, last) \o by)) \o From(text, AfterFound(text, find, last))
<1> DEFINE a == Len(u)
           L == Len(text)
           n == Len(find)
           t == From(text, last)
           x == u \o t
           loc == Find(text, find, last)
           place(i) == a + (i - last) + 1
<1>1. u \in Texts /\ a \in Nat /\ L \in Nat /\ n \in Nat /\ n > 0
  BY DEF Passed, Texts
<1>2. /\ t \in Texts /\ Len(t) = L + 1 - last
      /\ \A i \in 1 .. L + 1 - last : t[i] = text[last + i - 1]
  <2>1. L \in 0 .. L
    BY <1>1
  <2>2. /\ t \in Texts /\ Len(t) = (IF last <= L THEN L - last + 1 ELSE 0)
        /\ \A i \in 1 .. L - last + 1 : t[i] = text[last + i - 1]
    BY <2>1, SubSeqProperties DEF Texts, From
  <2> HIDE DEF t
  <2> QED BY <1>1, <2>2
<1> HIDE DEF t
<1>3. /\ x \in Texts /\ Len(x) = a + (L + 1 - last)
      /\ \A i \in 1 .. a : x[i] = u[i]
      /\ \A i \in 1 .. L + 1 - last : x[a + i] = text[last + i - 1]
  <2>1. /\ x \in Texts /\ Len(x) = a + Len(t)
        /\ \A i \in 1 .. a : x[i] = u[i]
        /\ \A i \in 1 .. Len(t) : x[a + i] = t[i]
    BY <1>1, <1>2, OneAfterOther
  <2> HIDE DEF x
  <2> QED BY <1>2, <2>1
<1>4. \A i \in 1 .. a : ~At(x, find, i)
  BY <1>2, Zenon DEF Passed
<1> HIDE DEF x
<1>5. ASSUME NEW i \in last .. L PROVE At(x, find, place(i)) <=> At(text, find, i)
  <2>1. /\ i \in Nat \ {0} /\ place(i) \in Nat \ {0}
        /\ (i + n <= L + 1 <=> place(i) + n <= Len(x) + 1)
    BY <1>1, <1>3
  <2>2. ASSUME i + n <= L + 1, NEW k \in 1 .. n PROVE x[place(i) + k - 1] = text[i + k - 1]
    <3>1. /\ (i - last) + k \in 1 .. L + 1 - last /\ a + ((i - last) + k) = place(i) + k - 1
          /\ last + ((i - last) + k) - 1 = i + k - 1
      BY <1>1, <2>2
    <3>2. x[a + ((i - last) + k)] = text[last + ((i - last) + k) - 1]
      BY <1>3, <3>1, Zenon
    <3> QED BY <3>1, <3>2, Zenon
  <2>3. At(text, find, i) <=> i + n <= L + 1 /\ \A k \in 1 .. n : text[i + k - 1] = find[k]
    BY <2>1, AtIsEachSymbol
  <2>4. At(x, find, place(i)) <=> /\ place(i) + n <= Len(x) + 1
                                  /\ \A k \in 1 .. n : x[place(i) + k - 1] = find[k]
    <3> DEFINE q == place(i)
    <3> SUFFICES At(x, find, q) <=> /\ q + n <= Len(x) + 1
                                    /\ \A k \in 1 .. n : x[q + k - 1] = find[k]
      OBVIOUS
    <3>1. q \in Nat \ {0}
      BY <2>1
    <3> HIDE DEF q
    <3> QED BY <1>3, <3>1, AtIsEachSymbol
  <2> HIDE DEF place
  <2> QED BY <2>1, <2>2, <2>3, <2>4
<1>6. ASSUME NEW i \in a + 1 .. Len(x)
      PROVE  \E m \in last .. L : i = place(m)
  <2>1. (i - a) + last - 1 \in last .. L /\ i = place((i - a) + last - 1)
    BY <1>1, <1>3
  <2> QED BY <2>1
<1>7. \/ /\ loc = 0
         /\ \A i \in last .. L : ~At(text, find, i)
      \/ /\ loc \in last .. L /\ At(text, find, loc)
         /\ \A j \in last .. loc - 1 : ~At(text, find, j)
  BY <1>1, FindIsFirst
<1> DEFINE lx == Find(x, find, 1)
<1>8. \/ /\ lx = 0 /\ \A i \in 1 .. Len(x) : ~At(x, find, i)
      \/ /\ lx \in 1 .. Len(x) /\ At(x, find, lx)
         /\ \A j \in 1 .. lx - 1 : ~At(x, find, j)
  BY <1>3, FindIsFirst
<1>9. ReplaceOne(x, find, by)
        = IF lx = 0 THEN x ELSE SubSeq(x, 1, lx - 1) \o by \o From(x, lx + n)
  BY Zenon DEF ReplaceOne
<1> HIDE DEF loc, lx
<1>10. CASE loc = 0
  <2>1. \A i \in last .. L : ~At(text, find, i)
    BY <1>1, <1>7, <1>10
  <2>2. ASSUME NEW i \in 1 .. Len(x) PROVE ~At(x, find, i)
    <3>1. i \in 1 .. a \/ i \in a + 1 .. Len(x)
      BY <1>1
    <3>2. CASE i \in 1 .. a
      BY <1>4, <3>2, Zenon
    <3>3. CASE i \in a + 1 .. Len(x)
      <4>1. PICK m \in last .. L : i = place(m)
        BY <1>6, <3>3
      <4> HIDE DEF place
      <4> QED BY <1>5, <2>1, <4>1, Zenon
    <3> QED BY <3>1, <3>2, <3>3
  <2>3. lx = 0
    BY <1>8, <2>2
  <2> QED BY <1>3, <1>9, <1>10, <2>3, Zenon DEF loc, x, t
<1>11. CASE loc # 0
  <2>1. /\ loc \in last .. L /\ At(text, find, loc)
        /\ \A j \in last .. loc - 1 : ~At(text, find, j)
    BY <1>7, <1>11
  <2>2. loc + n <= L + 1
    BY <2>1, Zenon DEF At
  <2>3. At(x, find, place(loc)) /\ place(loc) \in 1 .. Len(x)
    BY <1>1, <1>3, <1>5, <2>1
  <2>4. ASSUME NEW j \in 1 .. place(loc) - 1 PROVE ~At(x, find, j)
    <3>1. j \in 1 .. a \/ (j \in a + 1 .. Len(x) /\ \A m \in last .. L : j = place(m) => m \in last .. loc - 1)
      BY <1>1, <1>3, <2>1, <2>3
    <3>2. CASE j \in 1 .. a
      BY <1>4, <3>2, Zenon
    <3>3. CASE j \in a + 1 .. Len(x) /\ \A m \in last .. L : j = place(m) => m \in last .. loc - 1
      <4>1. PICK m \in last .. L : j = place(m)
        BY <1>6, <3>3
      <4> HIDE DEF place
      <4> QED BY <1>5, <2>1, <3>3, <4>1, Zenon
    <3> QED BY <3>1, <3>2, <3>3
  <2>5. lx = place(loc)
    <3> DEFINE q == place(loc)
    <3>1. q \in 1 .. Len(x) /\ At(x, find, q) /\ \A j \in 1 .. q - 1 : ~At(x, find, j)
      BY <2>3, <2>4
    <3> HIDE DEF q
    <3>2. lx \in 1 .. Len(x) /\ At(x, find, lx) /\ \A j \in 1 .. lx - 1 : ~At(x, find, j)
      BY <1>8, <3>1
    <3>3. ~(lx < q) /\ ~(q < lx)
      BY <3>1, <3>2
    <3>4. lx = q
      BY <3>1, <3>2, <3>3
    <3> QED BY <3>4, Zenon DEF q
  <2> DEFINE p == SubSeq(text, last, loc - 1)
             front == SubSeq(x, 1, lx - 1)
             rest == From(text, loc + n)
             back == From(x, lx + n)
  <2>6. p \in Texts /\ Len(p) = loc - last /\ \A i \in 1 .. loc - last : p[i] = text[last + i - 1]
    <3>1. loc - 1 \in 0 .. L
      BY <1>1, <2>1
    <3>2. /\ p \in Texts /\ Len(p) = (IF last <= loc - 1 THEN (loc - 1) - last + 1 ELSE 0)
          /\ \A i \in 1 .. (loc - 1) - last + 1 : p[i] = text[last + i - 1]
      BY <3>1, SubSeqProperties DEF Texts
    <3> HIDE DEF p
    <3> QED BY <2>1, <3>2
  <2> HIDE DEF p
  <2>7. front \in Texts /\ Len(front) = a + (loc - last) /\ \A i \in 1 .. a + (loc - last) : front[i] = x[i]
    <3>1. 1 \in 1 .. Len(x) + 1 /\ lx - 1 \in 0 .. Len(x) /\ lx - 1 = a + (loc - last)
      BY <1>1, <2>1, <2>3, <2>5
    <3>2. /\ front \in Texts /\ Len(front) = (IF 1 <= lx - 1 THEN (lx - 1) - 1 + 1 ELSE 0)
          /\ \A i \in 1 .. (lx - 1) - 1 + 1 : front[i] = x[1 + i - 1]
      BY <1>3, <3>1, SubSeqProperties DEF Texts
    <3> HIDE DEF front
    <3> QED BY <1>1, <2>1, <3>1, <3>2
  <2> HIDE DEF front
  <2>8. front = u \o p
    <3> DEFINE up == u \o p
    <3>1. /\ up \in Texts /\ Len(up) = a + (loc - last)
          /\ \A i \in 1 .. a : up[i] = u[i]
          /\ \A i \in 1 .. loc - last : up[a + i] = p[i]
      <4>1. /\ up \in Texts /\ Len(up) = a + Len(p)
            /\ \A i \in 1 .. a : up[i] = u[i]
            /\ \A i \in 1 .. Len(p) : up[a + i] = p[i]
        BY <1>1, <2>6, OneAfterOther
      <4> HIDE DEF up
      <4> QED BY <2>6, <4>1, Zenon
    <3>2. ASSUME NEW i \in 1 .. a + (loc - last) PROVE front[i] = up[i]
      <4> HIDE DEF up
      <4>1. CASE i <= a
        <5>1. i \in 1 .. a
          BY <4>1
        <5>2. x[i] = u[i] /\ front[i] = x[i] /\ up[i] = u[i]
          BY <1>3, <2>7, <3>1, <5>1, Zenon
        <5> QED BY <5>2, Zenon
      <4>2. CASE i > a
        <5>1. i - a \in 1 .. loc - last /\ i - a \in 1 .. L + 1 - last /\ a + (i - a) = i
          BY <1>1, <2>1, <4>2
        <5>2. x[a + (i - a)] = text[last + (i - a) - 1] /\ p[i - a] = text[last + (i - a) - 1]
          BY <1>3, <2>6, <5>1
        <5>3. up[a + (i - a)] = p[i - a]
          BY <3>1, <5>1
        <5> QED BY <2>7, <5>1, <5>2, <5>3, Zenon
      <4> QED BY <1>1, <4>1, <4>2
    <3> HIDE DEF up
    <3>3. front = up
      BY <2>7, <3>1, <3>2, SameTexts
    <3> QED BY <3>3 DEF up
  <2>9. /\ rest \in Texts /\ Len(rest) = L + 1 - (loc + n)
        /\ \A i \in 1 .. L + 1 - (loc + n) : rest[i] = text[loc + n + i - 1]
    <3>1. loc + n \in 1 .. L + 1 /\ L \in 0 .. L
      BY <1>1, <2>1, <2>2
    <3>2. /\ rest \in Texts /\ Len(rest) = (IF loc + n <= L THEN L - (loc + n) + 1 ELSE 0)
          /\ \A i \in 1 .. L - (loc + n) + 1 : rest[i] = text[loc + n + i - 1]
      BY <3>1, SubSeqProperties DEF Texts, From
    <3> HIDE DEF rest
    <3> QED BY <1>1, <3>1, <3>2
  <2> HIDE DEF rest
  <2>10. /\ back \in Texts /\ Len(back) = L + 1 - (loc + n)
         /\ \A i \in 1 .. L + 1 - (loc + n) : back[i] = x[lx + n + i - 1]
    <3> DEFINE X == Len(x)
    <3>1. /\ X \in Nat /\ lx + n \in 1 .. X + 1 /\ X \in 0 .. X
          /\ X + 1 - (lx + n) = L + 1 - (loc + n)
      BY <1>1, <1>3, <2>1, <2>2, <2>5
    <3>2. /\ back \in Texts /\ Len(back) = (IF lx + n <= X THEN X - (lx + n) + 1 ELSE 0)
          /\ \A i \in 1 .. X - (lx + n) + 1 : back[i] = x[lx + n + i - 1]
      <4>1. x \in Seq(Symbol)
        BY <1>3 DEF Texts
      <4>2. /\ SubSeq(x, lx + n, X) \in Seq(Symbol)
            /\ Len(SubSeq(x, lx + n, X)) = (IF lx + n <= X THEN X - (lx + n) + 1 ELSE 0)
            /\ \A i \in 1 .. X - (lx + n) + 1 : SubSeq(x, lx + n, X)[i] = x[lx + n + i - 1]
        BY <3>1, <4>1, SubSeqProperties
      <4> QED BY <4>2, Zenon DEF Texts, From
    <3> HIDE DEF X
    <3> HIDE DEF back
    <3>3. X - (lx + n) + 1 = L + 1 - (loc + n) /\ Len(back) = L + 1 - (loc + n)
      BY <1>1, <2>1, <3>1, <3>2
    <3> QED BY <3>2, <3>3
  <2> HIDE DEF back
  <2>11. back = rest
    <3>1. ASSUME NEW i \in 1 .. L + 1 - (loc + n) PROVE back[i] = rest[i]
      <4>1. /\ loc - last + n + i \in 1 .. L + 1 - last
            /\ a + (loc - last + n + i) = lx + n + i - 1
            /\ last + (loc - last + n + i) - 1 = loc + n + i - 1
        BY <1>1, <2>1, <2>2, <2>5
      <4>2. x[a + (loc - last + n + i)] = text[last + (loc - last + n + i) - 1]
        BY <1>3, <4>1, Zenon
      <4>3. x[lx + n + i - 1] = text[loc + n + i - 1]
        BY <4>1, <4>2, Zenon
      <4> QED BY <2>9, <2>10, <4>3, Zenon
    <3> QED BY <2>9, <2>10, <3>1, SameTexts
  <2>12. ReplaceOne(x, find, by) = (u \o (p \o by)) \o rest
    <3>1. lx # 0
      BY <1>1, <2>1, <2>5
    <3>2. ReplaceOne(x, find, by) = ((u \o p) \o by) \o rest
      BY <1>9, <2>8, <2>11, <3>1, Zenon DEF front, back
    <3>3. (u \o p) \o by = u \o (p \o by)
      BY <1>1, <2>6, AllAssociative, Zenon
    <3> QED BY <3>2, <3>3, Zenon
  <2> QED BY <1>3, <1>11, <2>12, Zenon DEF loc, x, t, p, rest, PieceAt, AfterFound
<1> QED BY <1>10, <1>11

\* A text in which nothing is replaced stays.
LEMMA ChainStays ==
  ASSUME NEW text, NEW find, NEW by, NEW n \in Nat, NEW r, Chain(r, n, text, find, by),
         ReplaceOne(text, find, by) = text
  PROVE  r[n] = text
<1> DEFINE M == {m \in Nat : m <= n => r[m] = text}
<1>1. 0 \in M
  BY DEF Chain
<1>2. ASSUME NEW m \in Nat, m \in M PROVE m + 1 \in M
  <2> SUFFICES ASSUME m + 1 <= n PROVE r[m + 1] = text
    OBVIOUS
  <2>1. m + 1 \in 1 .. n /\ (m + 1) - 1 = m /\ r[m] = text
    BY <1>2
  <2>2. r[m + 1] = ReplaceOne(r[(m + 1) - 1], find, by)
    BY <2>1, Zenon DEF Chain
  <2> QED BY <2>1, <2>2, Zenon
<1>3. Nat \subseteq M
  <2> HIDE DEF M
  <2> QED BY <1>1, <1>2, EveryNumber
<1>4. n \in M
  <2> HIDE DEF M
  <2> QED BY <1>3
<1> QED BY <1>4

\* What comes after the first replacement are the later ones of the text after it.
LEMMA ChainGoesOn ==
  ASSUME NEW text, NEW find, NEW by, NEW n \in Nat \ {0}, NEW r, Chain(r, n, text, find, by)
  PROVE  \E k : Chain(k, n - 1, ReplaceOne(text, find, by), find, by) /\ k[n - 1] = r[n]
<1> DEFINE k == [i \in 0 .. n - 1 |-> r[i + 1]]
<1>1. \A i \in 0 .. n - 1 : i + 1 \in 0 .. n /\ i + 1 \in 1 .. n /\ (i + 1) - 1 = i
  OBVIOUS
<1>2. k \in [0 .. n - 1 -> Texts] /\ \A i \in 0 .. n - 1 : k[i] = r[i + 1]
  <2>1. \A i \in 0 .. n - 1 : r[i + 1] \in Texts
    BY <1>1 DEF Chain
  <2> QED BY <2>1
<1> HIDE DEF k
<1>3. k[0] = ReplaceOne(text, find, by)
  <2>1. 0 \in 0 .. n - 1 /\ 0 + 1 = 1 /\ 1 \in 1 .. n /\ 1 - 1 = 0
    OBVIOUS
  <2>2. k[0] = r[1] /\ r[1] = ReplaceOne(r[0], find, by)
    BY <1>2, <2>1, Zenon DEF Chain
  <2> QED BY <2>2, Zenon DEF Chain
<1>4. ASSUME NEW i \in 1 .. n - 1 PROVE k[i] = ReplaceOne(k[i - 1], find, by)
  <2>1. /\ i \in 0 .. n - 1 /\ i - 1 \in 0 .. n - 1 /\ (i - 1) + 1 = i
        /\ i + 1 \in 1 .. n /\ (i + 1) - 1 = i
    OBVIOUS
  <2>2. k[i] = r[i + 1] /\ k[i - 1] = r[i]
    BY <1>2, <2>1, Zenon
  <2>3. r[i + 1] = ReplaceOne(r[i], find, by)
    BY <2>1, Zenon DEF Chain
  <2> QED BY <2>2, <2>3, Zenon
<1>5. k[n - 1] = r[n]
  <2>1. n - 1 \in 0 .. n - 1 /\ (n - 1) + 1 = n
    OBVIOUS
  <2> QED BY <1>2, <2>1, Zenon
<1> QED BY <1>2, <1>3, <1>4, <1>5 DEF Chain

\* What comes of replacing in the text behind u until nothing is found are the pieces from
\* that position on, joined with the replacement.
LEMMA ChainJoins ==
  ASSUME NEW text \in Texts, NEW find \in Texts, find # <<>>, NEW by \in Texts,
         Foreign(by, find), NEW g, SplitFrom(g, 1, text, find),
         \A last \in 1 .. Len(text) + 1 : SplitsFrom(g[last], text, find, last)
  PROVE  \A last \in 1 .. Len(text) + 1 : \A u, r : \A n \in Nat :
           Passed(u, find) /\ last + n >= Len(text) + 1
             /\ Chain(r, n, u \o From(text, last), find, by)
           => r[n] = u \o Joined(g[last], by)
<1> DEFINE L == Len(text)
           Goal(last) == \A u, r : \A n \in Nat :
                           Passed(u, find) /\ last + n >= L + 1
                             /\ Chain(r, n, u \o From(text, last), find, by)
                           => r[n] = u \o Joined(g[last], by)
<1>1. L \in Nat /\ Len(find) \in Nat
  BY DEF Texts
<1>2. ASSUME NEW last \in 1 .. L + 1, \A i \in last + 1 .. L + 1 : Goal(i)
      PROVE  Goal(last)
  <2> HIDE DEF Goal
  <2> SUFFICES ASSUME NEW u, NEW r, NEW n \in Nat, Passed(u, find), last + n >= L + 1,
                      Chain(r, n, u \o From(text, last), find, by)
               PROVE  r[n] = u \o Joined(g[last], by)
    BY DEF Goal
  <2> DEFINE place == Find(text, find, last)
             now == u \o From(text, last)
             p == SubSeq(text, last, place - 1)
             rest == g[place + Len(find)]
  <2>1. g[last] = PiecesFrom(text, find, g, last)
    BY Zenon DEF SplitFrom
  <2>2. /\ now \in Texts
        /\ place = 0 => ReplaceOne(now, find, by) = now
        /\ place # 0 => ReplaceOne(now, find, by) = (u \o (p \o by)) \o From(text, place + Len(find))
    <3>1. place # 0 => ReplaceOne(now, find, by)
                         = (u \o (PieceAt(text, find, last) \o by)) \o From(text, AfterFound(text, find, last))
      BY ReplacesBehind
    <3>2. now \in Texts /\ (place = 0 => ReplaceOne(now, find, by) = now)
      BY ReplacesBehind
    <3> QED BY <3>1, <3>2, Zenon DEF PieceAt, AfterFound
  <2>3. CASE place = 0
    <3>1. r[n] = now
      <4> HIDE DEF now
      <4>1. Chain(r, n, now, find, by) /\ ReplaceOne(now, find, by) = now
        BY <2>2, <2>3, Zenon DEF now
      <4> QED BY <4>1, ChainStays
    <3>2. g[last] = <<From(text, last)>>
      BY <2>1, <2>3, Zenon DEF PiecesFrom
    <3>3. From(text, last) \in Texts
      BY <1>1, SubSeqProperties DEF Texts, From
    <3>4. Joined(<<From(text, last)>>, by) = From(text, last)
      BY <3>3, JoinedOne
    <3> QED BY <3>1, <3>2, <3>4, Zenon
  <2>4. CASE place # 0
    <3> DEFINE next == place + Len(find)
               v == u \o (p \o by)
    <3>1. /\ place \in last .. L /\ next \in last + 1 .. L + 1
          /\ \A j \in last .. place - 1 : ~At(text, find, j)
      BY <2>4, FoundEndsLater
    <3>2. g[last] = <<p>> \o rest
      BY <2>1, <2>4, Zenon DEF PiecesFrom
    <3>3. rest \in Seq(Texts) /\ rest # <<>>
      <4>1. next \in 1 .. L + 1
        BY <1>1, <3>1
      <4> QED BY <4>1, Zenon DEF SplitsFrom
    <3>4. p \in Texts /\ ~Contains(p, find)
      <4>1. last \in 1 .. L + 1 /\ place - 1 \in 0 .. L /\ place - 1 \in last - 1 .. L
        BY <1>1, <3>1
      <4>2. p \in Texts
        BY <4>1, SubSeqProperties DEF Texts
      <4> QED BY <3>1, <4>1, <4>2, NoneWithin
    <3> HIDE DEF place, p, rest
    <3>5. Passed(v, find)
      BY <3>4, PassedMore
    <3>6. n \in Nat \ {0} /\ n - 1 \in Nat /\ next + (n - 1) >= L + 1
      BY <1>1, <3>1
    <3> HIDE DEF next
    <3>7. PICK k : Chain(k, n - 1, ReplaceOne(now, find, by), find, by) /\ k[n - 1] = r[n]
      <4> HIDE DEF now
      <4>1. Chain(r, n, now, find, by)
        BY Zenon DEF now
      <4> QED BY <3>6, <4>1, ChainGoesOn
    <3>8. Chain(k, n - 1, v \o From(text, next), find, by)
      BY <2>2, <2>4, <3>7, Zenon DEF next
    <3>9. Goal(next)
      BY <1>2, <3>1, Zenon
    <3>10. k[n - 1] = v \o Joined(g[next], by)
      <4> HIDE DEF v
      <4> QED BY <3>5, <3>6, <3>8, <3>9, Zenon DEF Goal
    <3> DEFINE J == Joined(rest, by)
    <3>11. J \in Texts /\ Joined(<<p>> \o rest, by) = p \o (by \o J)
      BY <3>3, <3>4, JoinedMore
    <3> HIDE DEF J
    <3>12. v \o J = u \o (p \o (by \o J))
      <4>1. u \in Texts /\ p \o by \in Texts
        BY <3>4, Associative, Zenon DEF Passed
      <4>2. (u \o (p \o by)) \o J = u \o ((p \o by) \o J)
        BY <3>11, <4>1, AllAssociative, Zenon
      <4>3. (p \o by) \o J = p \o (by \o J)
        BY <3>4, <3>11, AllAssociative, Zenon
      <4> QED BY <4>2, <4>3, Zenon
    <3> QED BY <3>2, <3>7, <3>10, <3>11, <3>12, Zenon DEF J, rest, next
  <2> QED BY <2>3, <2>4
<1> HIDE DEF Goal
<1> DEFINE M == {m \in Nat : \A last \in 1 .. L + 1 : L + 1 - m <= last => Goal(last)}
<1>3. 0 \in M
  <2> SUFFICES ASSUME NEW last \in 1 .. L + 1, L + 1 - 0 <= last PROVE Goal(last)
    OBVIOUS
  <2>1. last + 1 .. L + 1 = {}
    BY <1>1
  <2> QED BY <1>2, <2>1
<1>4. ASSUME NEW m \in Nat, m \in M PROVE m + 1 \in M
  <2> SUFFICES ASSUME NEW last \in 1 .. L + 1, L + 1 - (m + 1) <= last PROVE Goal(last)
    OBVIOUS
  <2>1. \A i \in last + 1 .. L + 1 : i \in 1 .. L + 1 /\ L + 1 - m <= i
    BY <1>1
  <2>2. \A i \in last + 1 .. L + 1 : Goal(i)
    BY <1>4, <2>1
  <2> QED BY <1>2, <2>2
<1>5. Nat \subseteq M
  <2> HIDE DEF M
  <2> QED BY <1>3, <1>4, EveryNumber
<1>6. \A last \in 1 .. L + 1 : Goal(last)
  <2>1. L \in M
    <3> HIDE DEF M
    <3> QED BY <1>1, <1>5
  <2>2. \A last \in 1 .. L + 1 : L + 1 - L <= last
    BY <1>1
  <2> QED BY <2>1, <2>2
<1> QED BY <1>6, Zenon DEF Goal

\* ReplaceAll does what ReplaceOne does if it is called until nothing is found, when what is
\* put in has no symbol of what is looked for.
LEMMA ReplaceAllRepeats ==
  ASSUME NEW text \in Texts, NEW find \in Texts, find # <<>>, NEW by \in Texts,
         Foreign(by, find)
  PROVE  ReplaceAll(text, find, by) = Repeated(text, find, by)
<1> DEFINE L == Len(text)
<1>1. L \in Nat /\ 1 \in 1 .. L + 1 /\ 1 + L >= L + 1
  BY DEF Texts
<1>2. PICK g : /\ SplitFrom(g, 1, text, find) /\ StringSplit(text, find) = g[1]
               /\ \A last \in 1 .. L + 1 : SplitsFrom(g[last], text, find, last)
  BY StringSplitSplits
<1>3. PICK r : Chain(r, L, text, find, by) /\ Repeated(text, find, by) = r[L]
  BY RepeatedIs
<1>4. Passed(<<>>, find)
  BY DEF Passed, Texts
<1>5. <<>> \o From(text, 1) = text
  BY SubSeqFull DEF Texts, From
<1>6. r[L] = <<>> \o Joined(g[1], by)
  <2>1. \A last \in 1 .. Len(text) + 1 : \A u, k : \A n \in Nat :
          Passed(u, find) /\ last + n >= Len(text) + 1
            /\ Chain(k, n, u \o From(text, last), find, by)
          => k[n] = u \o Joined(g[last], by)
    BY <1>2, ChainJoins
  <2>2. Chain(r, L, <<>> \o From(text, 1), find, by)
    BY <1>3, <1>5, Zenon
  <2> QED BY <1>1, <1>4, <2>1, <2>2, Zenon
<1>7. <<>> \o Joined(g[1], by) = Joined(g[1], by)
  <2>1. g[1] \in Seq(Texts) /\ g[1] # <<>>
    BY <1>1, <1>2, Zenon DEF SplitsFrom
  <2>2. PICK j : JoinedUpTo(j, Len(g[1]), g[1], by) /\ Joined(g[1], by) = j[Len(g[1])]
    BY <2>1, JoinedIs
  <2>3. Len(g[1]) \in 1 .. Len(g[1])
    BY <2>1
  <2>4. Joined(g[1], by) \in Texts
    BY <2>2, <2>3, Zenon DEF JoinedUpTo
  <2> QED BY <2>4 DEF Texts
<1>8. ReplaceAll(text, find, by) = Joined(g[1], by)
  BY <1>2, ReplaceAllJoins
<1> QED BY <1>3, <1>6, <1>7, <1>8, Zenon

\* Whatever the URL and the addresses, if these have no symbol of what is looked for,
\* ReplaceAll, which works on the pieces between what is found, does what ReplaceOne does if
\* it is called until nothing is found.
THEOREM AllAreReplaced == ASSUME AddressesAreForeign PROVE Spec => []ReplacesAll
<1>1. UrlInv => ReplacesAll
  <2> SUFFICES ASSUME UrlInv, NEW find \in Finds, NEW by \in Addresses
               PROVE  ReplaceAll(URL, find, by) = Repeated(URL, find, by)
    BY Zenon DEF ReplacesAll
  <2>1. URL \in Texts /\ find \in Texts /\ find # <<>> /\ by \in Texts
    BY KnownTexts DEF UrlInv
  <2>2. Foreign(by, find)
    BY Zenon DEF AddressesAreForeign, Foreign
  <2> QED BY <2>1, <2>2, ReplaceAllRepeats
<1> QED BY <1>1, Invariance, PTL
=============================================================================
