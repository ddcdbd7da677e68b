---------------------------- MODULE Plugin_proof ----------------------------
(***************************************************************************)
(* Proofs about SettingsFile and Plugin: a file that nobody saves is read  *)
(* whole, and none is made of two saves; what SettingsLoad_proof           *)
(* shows of the loading also holds of the loading of what was read; and    *)
(* settings that were not read allow nothing.                              *)
(***************************************************************************)
EXTENDS Plugin, SettingsLoad_proof

pluginVars == <<fileVars, loadVars, checkVars>>

-----------------------------------------------------------------------------
(* The file is read: what is read of a file that nobody saves.             *)

\* A file that has not been saved is as it was when its size was asked for, and when its
\* first bytes were read.
Unsaved ==
  /\ disk \in Versions
  /\ step = "ask" => TheWord = <<>>
  /\ step \in {"open", "mark", "rest"} => disk # Missing /\ disk # <<>> /\ TheFileSize = Len(disk)
  /\ step \in {"open", "mark"} => TheWord = <<>>
  /\ step = "rest" => TheWord = SubSeq(disk, 1, 2) /\ Len(disk) >= 2
  /\ step = "done" => SettledIsWhole

FileInv == saves \in Nat /\ (saves = 0 => Unsaved)

LEMMA InitFileInv == InitFile => FileInv
BY DEF InitFile, FileInv, Unsaved

\* A function on the numbers up to one is a sequence.
LEMMA IsSequence ==
  ASSUME NEW S, NEW n \in Nat, NEW s, s = [i \in 1 .. n |-> s[i]], \A i \in 1 .. n : s[i] \in S
  PROVE  s \in Seq(S) /\ Len(s) = n
OBVIOUS

LEMMA IsItself ==
  ASSUME NEW S, NEW s \in Seq(S), NEW n, DOMAIN s = 1 .. n
  PROVE  s = [i \in 1 .. n |-> s[i]]
OBVIOUS

LEMMA IsPair ==
  ASSUME NEW S, NEW a \in S, NEW b \in S
  PROVE  <<a, b>> \in Seq(S) /\ Len(<<a, b>>) = 2
OBVIOUS

\* All that may stand in a file or a text.
Byte == STRING \cup {"junk", "other"}

LEMMA IsConcatenation ==
  ASSUME NEW S, NEW s \in Seq(S), NEW t \in Seq(S), NEW u \in Seq(S),
         Len(u) = Len(s) + Len(t), \A i \in 1 .. Len(s) : u[i] = s[i],
         \A i \in 1 .. Len(t) : u[i + Len(s)] = t[i]
  PROVE  u = s \o t
<1>1. s \o t \in Seq(S) /\ Len(s \o t) = Len(u)
  OBVIOUS
<1>2. \A i \in 1 .. Len(u) : (s \o t)[i] = u[i]
  <2> SUFFICES ASSUME NEW i \in 1 .. Len(u) PROVE (s \o t)[i] = u[i]
    OBVIOUS
  <2>1. CASE i <= Len(s)
    BY <2>1
  <2>2. CASE i > Len(s)
    <3>1. i - Len(s) \in 1 .. Len(t) /\ i - Len(s) + Len(s) = i
      BY <2>2
    <3> QED BY <2>2, <3>1
  <2> QED BY <2>1, <2>2
<1> QED BY <1>1, <1>2

\* What lies behind the mark of a file that is as it was is read as it is, as far as it is read.
LEMMA ReadUpTo ==
  ASSUME disk \in Seq(STRING), TheFileSize = Len(disk), Len(disk) >= 2,
         NEW n \in 0 .. Len(disk) - 2
  PROVE  /\ DOMAIN Read(n) = 1 .. Len(disk) - 2
         /\ \A i \in 1 .. Len(disk) - 2 : Read(n)[i] = IF i <= n THEN disk[i + 2] ELSE "junk"
<1>1. \A i \in 1 .. Len(disk) - 2 : Rest(disk)[i] = disk[i + 2]
  BY DEF Rest, MarkLength
<1>2. /\ DOMAIN Read(n) = 1 .. Len(disk) - 2
      /\ \A i \in 1 .. Len(disk) - 2 : Read(n)[i] = IF i <= n THEN Rest(disk)[i] ELSE "junk"
  BY DEF Read, MarkLength
<1> QED BY <1>1, <1>2

All == Read(Len(disk) - 2)

LEMMA ReadAll ==
  ASSUME disk \in Seq(STRING), TheFileSize = Len(disk), Len(disk) >= 2
  PROVE  /\ All \in Seq(STRING)
         /\ Len(All) = Len(disk) - 2
         /\ \A i \in 1 .. Len(disk) - 2 : All[i] = disk[i + 2]
<1>1. Len(disk) - 2 \in 0 .. Len(disk) - 2
  OBVIOUS
<1>2. /\ DOMAIN All = 1 .. Len(disk) - 2
      /\ \A i \in 1 .. Len(disk) - 2 : All[i] = IF i <= Len(disk) - 2 THEN disk[i + 2] ELSE "junk"
  BY <1>1, ReadUpTo DEF All
<1>3. \A i \in 1 .. Len(disk) - 2 : All[i] = disk[i + 2] /\ disk[i + 2] \in STRING
  BY <1>2
<1>4. All = [i \in 1 .. Len(disk) - 2 |-> All[i]]
  BY DEF All, Read, MarkLength
<1> QED BY <1>3, <1>4, IsSequence

\* The first bytes of a file in UTF-8 are a part of the text.
LEMMA DecodedUTF8 ==
  ASSUME disk \in Seq(STRING), TheFileSize = Len(disk), Len(disk) >= 2,
         TheWord = SubSeq(disk, 1, 2), TheWord \notin {Little, Big}
  PROVE  Decoded(TheWord, All) = disk
<1>1. Decoded(TheWord, All) = TheWord \o All
  BY DEF Decoded
<1>2. /\ TheWord \in Seq(STRING) /\ Len(TheWord) = 2
      /\ \A i \in 1 .. 2 : TheWord[i] = disk[i]
  OBVIOUS
<1>3. /\ All \in Seq(STRING) /\ Len(All) = Len(disk) - 2
      /\ \A i \in 1 .. Len(disk) - 2 : All[i] = disk[i + 2]
  BY ReadAll
<1>4. TheWord \o All \in Seq(STRING) /\ Len(TheWord \o All) = Len(disk)
  BY <1>2, <1>3
<1>5. \A i \in 1 .. Len(disk) : (TheWord \o All)[i] = disk[i]
  BY <1>2, <1>3
<1> QED BY <1>1, <1>4, <1>5

\* Of each two bytes of a file in UTF-16 one is the character.
LEMMA DecodedUTF16 ==
  ASSUME disk \in Seq(STRING), TheFileSize = Len(disk), Len(disk) >= 2,
         TheWord = SubSeq(disk, 1, 2), TheWord \in {Little, Big},
         HighBytesAreZero(disk, TheWord), \A i \in DOMAIN disk : disk[i] # "junk"
  PROVE  LET chars == Decoded(TheWord, All)
         IN  /\ disk = UTF16(chars, TheWord)
             /\ \A i \in DOMAIN chars : chars[i] # "junk"
<1> DEFINE chars == Decoded(TheWord, All)
           n == (Len(disk) - 2) \div 2
           low(i) == IF TheWord = Little THEN 2 * i + 1 ELSE 2 * i + 2
<1>1. n \in Nat /\ 2 * n = Len(disk) - 2
  BY DEF HighBytesAreZero
<1>2. /\ All \in Seq(STRING) /\ Len(All) = Len(disk) - 2
      /\ \A i \in 1 .. Len(disk) - 2 : All[i] = disk[i + 2]
  BY ReadAll
<1>3. chars = [i \in 1 .. n |-> Character(TheWord, All[2 * i - 1], All[2 * i])]
  BY <1>2 DEF Decoded
<1>4. \A i \in 1 .. n : chars[i] = disk[low(i)] /\ disk[low(i)] \in STRING /\ low(i) \in DOMAIN disk
  <2> SUFFICES ASSUME NEW i \in 1 .. n
               PROVE  chars[i] = disk[low(i)] /\ disk[low(i)] \in STRING /\ low(i) \in DOMAIN disk
    OBVIOUS
  <2>1. 2 * i - 1 \in 1 .. Len(disk) - 2 /\ 2 * i \in 1 .. Len(disk) - 2
    BY <1>1
  <2>2. All[2 * i - 1] = disk[2 * i + 1] /\ All[2 * i] = disk[2 * i + 2]
    <3>1. All[2 * i - 1] = disk[2 * i - 1 + 2] /\ All[2 * i] = disk[2 * i + 2]
      BY <1>2, <2>1
    <3>2. 2 * i - 1 + 2 = 2 * i + 1
      BY <1>1
    <3> QED BY <3>1, <3>2
  <2>3. 2 * i + 1 \in 3 .. Len(disk) /\ 2 * i + 2 \in 3 .. Len(disk)
    BY <1>1
  <2>4. (2 * i + 1) % 2 = 1 /\ (2 * i + 2) % 2 = 0
    BY <1>1
  <2>5. IF TheWord = Little THEN disk[2 * i + 2] = "0" ELSE disk[2 * i + 1] = "0"
    BY <2>3, <2>4 DEF HighBytesAreZero
  <2>6. chars[i] = disk[low(i)]
    BY <1>3, <2>2, <2>5 DEF Character
  <2> QED BY <2>3, <2>6
<1>5. chars \in Seq(STRING) /\ Len(chars) = n
  <2>1. chars = [i \in 1 .. n |-> chars[i]]
    BY <1>3
  <2>2. \A i \in 1 .. n : chars[i] \in STRING
    BY <1>4
  <2> HIDE DEF chars, n
  <2> QED BY <1>1, <2>1, <2>2, IsSequence
<1>6. \A i \in DOMAIN chars : chars[i] # "junk"
  <2>1. DOMAIN chars = 1 .. n
    BY <1>3
  <2> QED BY <1>4, <2>1
<1> DEFINE half(i) == (i + 1) \div 2
           pairs == [i \in 1 .. 2 * Len(chars) |->
                       IF (i % 2 = 1) = (TheWord = Little) THEN chars[half(i)] ELSE "0"]
<1>7. UTF16(chars, TheWord) = TheWord \o pairs
  BY DEF UTF16
<1>8. \A i \in 1 .. 2 * n : pairs[i] = disk[i + 2]
  <2> SUFFICES ASSUME NEW i \in 1 .. 2 * n PROVE pairs[i] = disk[i + 2]
    OBVIOUS
  <2>1. half(i) \in 1 .. n /\ i + 2 \in 3 .. Len(disk) /\ (i + 2) % 2 = i % 2
    BY <1>1
  <2>2. CASE (i % 2 = 1) = (TheWord = Little)
    <3>1. low(half(i)) = i + 2
      <4>1. CASE TheWord = Little
        <5>1. i % 2 = 1
          BY <2>2, <4>1
        <5> QED BY <1>1, <4>1, <5>1
      <4>2. CASE TheWord # Little
        <5>1. i % 2 = 0
          BY <1>1, <2>2, <4>2
        <5> QED BY <1>1, <4>2, <5>1
      <4> QED BY <4>1, <4>2
    <3> QED BY <1>4, <1>5, <2>1, <2>2, <3>1
  <2>3. CASE (i % 2 = 1) # (TheWord = Little)
    <3>1. ((i + 2) % 2 = 0) = (TheWord = Little)
      BY <2>1, <2>3
    <3>2. disk[i + 2] = "0"
      BY <2>1, <3>1 DEF HighBytesAreZero
    <3> QED BY <1>5, <2>3, <3>2
  <2> QED BY <2>2, <2>3
<1>9. pairs \in Seq(STRING) /\ Len(pairs) = 2 * n
  <2>1. \A i \in 1 .. 2 * n : pairs[i] \in STRING
    <3> SUFFICES ASSUME NEW i \in 1 .. 2 * n PROVE pairs[i] \in STRING
      OBVIOUS
    <3>1. i + 2 \in 1 .. Len(disk)
      BY <1>1
    <3>2. disk[i + 2] \in STRING
      BY <3>1
    <3> QED BY <1>8, <3>2
  <2>2. 2 * Len(chars) = 2 * n /\ 2 * n \in Nat
    <3> HIDE DEF chars, n
    <3> QED BY <1>1, <1>5
  <2>3. pairs = [i \in 1 .. 2 * n |-> pairs[i]]
    BY <2>2
  <2> HIDE DEF pairs, chars, n
  <2> QED BY IsSequence, <2>1, <2>2, <2>3
<1> HIDE DEF pairs, chars
<1>10. disk = TheWord \o pairs
  <2>1. TheWord \in Seq(STRING) /\ Len(TheWord) = 2 /\ \A i \in 1 .. 2 : TheWord[i] = disk[i]
    OBVIOUS
  <2>2. Len(disk) = Len(TheWord) + Len(pairs) /\ \A i \in 1 .. Len(pairs) : disk[i + 2] = pairs[i]
    BY <1>1, <1>8, <1>9, <2>1
  <2>3. /\ \A i \in 1 .. Len(TheWord) : disk[i] = TheWord[i]
        /\ \A i \in 1 .. Len(pairs) : disk[i + Len(TheWord)] = pairs[i]
    BY <2>1, <2>2
  <2>4. pairs \in Seq(STRING) /\ TheWord \in Seq(STRING)
    BY <1>9, <2>1
  <2> QED BY IsConcatenation, <2>2, <2>3, <2>4
<1> QED BY <1>6, <1>7, <1>10 DEF chars

\* The text of a file that is as it was, read to its end.
Whole == Decoded(TheWord, All)

LEMMA WholeIsSaid ==
  ASSUME disk \in Seq(STRING), TheFileSize = Len(disk), Len(disk) >= 2,
         TheWord = SubSeq(disk, 1, 2), TheWord \in {Little, Big} => HighBytesAreZero(disk, TheWord),
         \A i \in DOMAIN disk : disk[i] # "junk"
  PROVE  /\ \A i \in DOMAIN Whole : Whole[i] # "junk"
         /\ disk = Whole \/ disk = UTF16(Whole, Little) \/ disk = UTF16(Whole, Big)
BY DecodedUTF8, DecodedUTF16 DEF Whole

\* If less is read, the text is as it is up to some character, and memory as it was behind it.
Breaks(chars, k) ==
  /\ chars = [i \in 1 .. Len(Whole) |-> chars[i]]
  /\ DOMAIN chars = 1 .. Len(Whole) /\ k \in 0 .. Len(Whole)
  /\ \A i \in 1 .. Len(Whole) : chars[i] = IF i <= k THEN Whole[i] ELSE "junk"

LEMMA BreaksUTF8 ==
  ASSUME disk \in Seq(STRING), TheFileSize = Len(disk), Len(disk) >= 2,
         TheWord = SubSeq(disk, 1, 2), TheWord \notin {Little, Big},
         NEW n \in 0 .. Len(disk) - 2
  PROVE  Whole \in Seq(STRING) /\ Breaks(Decoded(TheWord, Read(n)), n + 2)
<1>1. Whole = disk
  BY DecodedUTF8 DEF Whole
<1>2. Decoded(TheWord, Read(n)) = TheWord \o Read(n)
  BY DEF Decoded
<1>3. /\ TheWord \in Seq(STRING) /\ Len(TheWord) = 2
      /\ \A i \in 1 .. 2 : TheWord[i] = disk[i]
  OBVIOUS
<1>4. /\ DOMAIN Read(n) = 1 .. Len(disk) - 2
      /\ \A i \in 1 .. Len(disk) - 2 : Read(n)[i] = IF i <= n THEN disk[i + 2] ELSE "junk"
  BY ReadUpTo
<1>5. Read(n) \in Seq(Byte) /\ Len(Read(n)) = Len(disk) - 2
  <2>1. \A i \in 1 .. Len(disk) - 2 : Read(n)[i] \in Byte
    <3> SUFFICES ASSUME NEW i \in 1 .. Len(disk) - 2 PROVE Read(n)[i] \in Byte
      OBVIOUS
    <3>1. i + 2 \in 1 .. Len(disk)
      OBVIOUS
    <3>2. disk[i + 2] \in Byte
      BY <3>1 DEF Byte
    <3>3. CASE i <= n
      BY <1>4, <3>2, <3>3, Zenon
    <3>4. CASE ~(i <= n)
      <4>1. Read(n)[i] = "junk"
        BY <1>4, <3>4, Zenon
      <4> QED BY <4>1 DEF Byte
    <3> QED BY <3>3, <3>4
  <2>2. Read(n) = [i \in 1 .. Len(disk) - 2 |-> Read(n)[i]]
    BY DEF Read, MarkLength
  <2>3. Len(disk) - 2 \in Nat
    OBVIOUS
  <2> QED BY <2>1, <2>2, <2>3, IsSequence
<1>6. /\ DOMAIN (TheWord \o Read(n)) = 1 .. Len(disk)
      /\ \A i \in 1 .. 2 : (TheWord \o Read(n))[i] = TheWord[i]
      /\ \A i \in 3 .. Len(disk) : (TheWord \o Read(n))[i] = Read(n)[i - 2]
  <2> HIDE DEF Read
  <2> QED BY <1>3, <1>5
<1>7. \A i \in 1 .. Len(disk) :
        (TheWord \o Read(n))[i] = IF i <= n + 2 THEN disk[i] ELSE "junk"
  <2> SUFFICES ASSUME NEW i \in 1 .. Len(disk)
               PROVE  (TheWord \o Read(n))[i] = IF i <= n + 2 THEN disk[i] ELSE "junk"
    OBVIOUS
  <2>1. CASE i <= 2
    BY <1>3, <1>6, <2>1
  <2>2. CASE i > 2
    <3>1. i - 2 \in 1 .. Len(disk) - 2 /\ i \in 3 .. Len(disk) /\ (i - 2) + 2 = i
      BY <2>2
    <3>2. Read(n)[i - 2] = IF i - 2 <= n THEN disk[(i - 2) + 2] ELSE "junk"
      BY <1>4, <3>1
    <3>3. i - 2 <= n <=> i <= n + 2
      OBVIOUS
    <3> QED BY <1>6, <3>1, <3>2, <3>3
  <2>3. i <= 2 \/ i > 2
    OBVIOUS
  <2> QED BY <2>1, <2>2, <2>3, Zenon
<1>8. n + 2 \in 0 .. Len(disk)
  OBVIOUS
<1>9. Decoded(TheWord, Read(n)) = [i \in 1 .. Len(disk) |-> Decoded(TheWord, Read(n))[i]]
  <2>1. TheWord \o Read(n) \in Seq(Byte)
    <3>1. TheWord \in Seq(Byte)
      BY <1>3 DEF Byte
    <3> HIDE DEF Read
    <3> QED BY <1>5, <3>1
  <2> HIDE DEF Read
  <2> QED BY <1>2, <1>6, <2>1, IsItself
<1> QED BY <1>1, <1>2, <1>6, <1>7, <1>8, <1>9, Zenon DEF Breaks

LEMMA BreaksUTF16 ==
  ASSUME disk \in Seq(STRING), TheFileSize = Len(disk), Len(disk) >= 2,
         TheWord = SubSeq(disk, 1, 2), TheWord \in {Little, Big},
         HighBytesAreZero(disk, TheWord), \A i \in DOMAIN disk : disk[i] # "junk",
         NEW n \in 0 .. Len(disk) - 2
  PROVE  Whole \in Seq(STRING) /\ Breaks(Decoded(TheWord, Read(n)), n \div 2)
<1> DEFINE half == (Len(disk) - 2) \div 2
<1>1. half \in Nat /\ 2 * half = Len(disk) - 2
  BY DEF HighBytesAreZero
<1>2. /\ DOMAIN Read(n) = 1 .. Len(disk) - 2
      /\ \A i \in 1 .. Len(disk) - 2 : Read(n)[i] = IF i <= n THEN disk[i + 2] ELSE "junk"
  BY ReadUpTo
<1>3. Len(Read(n)) = Len(disk) - 2
  <2>1. Len(disk) - 2 \in Nat
    OBVIOUS
  <2> QED BY <1>2, <2>1
<1>4. /\ All \in Seq(STRING) /\ Len(All) = Len(disk) - 2
      /\ \A i \in 1 .. Len(disk) - 2 : All[i] = disk[i + 2]
  BY ReadAll
<1>5. \A b : Decoded(TheWord, b) =
               [i \in 1 .. Len(b) \div 2 |-> Character(TheWord, b[2 * i - 1], b[2 * i])]
  BY DEF Decoded
<1>6. /\ Whole = [i \in 1 .. half |-> Character(TheWord, All[2 * i - 1], All[2 * i])]
      /\ Decoded(TheWord, Read(n)) =
           [i \in 1 .. half |-> Character(TheWord, Read(n)[2 * i - 1], Read(n)[2 * i])]
  BY <1>3, <1>4, <1>5 DEF Whole
<1>7. ASSUME NEW i \in 1 .. half
      PROVE  /\ Character(TheWord, All[2 * i - 1], All[2 * i]) \in STRING
             /\ Character(TheWord, Read(n)[2 * i - 1], Read(n)[2 * i]) =
                  IF i <= n \div 2 THEN Character(TheWord, All[2 * i - 1], All[2 * i]) ELSE "junk"
  <2>1. 2 * i - 1 \in 1 .. Len(disk) - 2 /\ 2 * i \in 1 .. Len(disk) - 2 /\ (2 * i - 1) + 2 = 2 * i + 1
    BY <1>1
  <2>2. 2 * i + 1 \in 3 .. Len(disk) /\ 2 * i + 2 \in 3 .. Len(disk)
    BY <1>1
  <2>3. (2 * i + 1) % 2 = 1 /\ (2 * i + 2) % 2 = 0
    BY <1>1
  <2>4. IF TheWord = Little THEN disk[2 * i + 2] = "0" ELSE disk[2 * i + 1] = "0"
    BY <2>2, <2>3 DEF HighBytesAreZero
  <2>5. /\ disk[2 * i + 1] \in STRING /\ disk[2 * i + 2] \in STRING
        /\ disk[2 * i + 1] # "junk" /\ disk[2 * i + 2] # "junk"
    BY <2>2
  <2>6. All[2 * i - 1] = disk[2 * i + 1] /\ All[2 * i] = disk[2 * i + 2]
    <3>1. All[2 * i - 1] = disk[(2 * i - 1) + 2] /\ All[2 * i] = disk[2 * i + 2]
      BY <1>4, <2>1
    <3> QED BY <2>1, <3>1
  <2>7. Character(TheWord, All[2 * i - 1], All[2 * i]) \in STRING
    BY <2>4, <2>5, <2>6 DEF Character
  <2>8. /\ Read(n)[2 * i - 1] = IF 2 * i - 1 <= n THEN disk[2 * i + 1] ELSE "junk"
        /\ Read(n)[2 * i] = IF 2 * i <= n THEN disk[2 * i + 2] ELSE "junk"
    <3>1. /\ Read(n)[2 * i - 1] = IF 2 * i - 1 <= n THEN disk[(2 * i - 1) + 2] ELSE "junk"
          /\ Read(n)[2 * i] = IF 2 * i <= n THEN disk[2 * i + 2] ELSE "junk"
      BY <1>2, <2>1
    <3> QED BY <2>1, <3>1
  <2>9. CASE 2 * i <= n
    <3>1. i <= n \div 2 /\ 2 * i - 1 <= n
      BY <1>1, <2>9
    <3> QED BY <2>6, <2>7, <2>8, <2>9, <3>1
  <2>10. CASE ~(2 * i <= n)
    <3>1. ~(i <= n \div 2)
      BY <1>1, <2>10
    <3>2. Read(n)[2 * i] = "junk" /\ Read(n)[2 * i - 1] \in {disk[2 * i + 1], "junk"}
      BY <2>8, <2>10
    <3>3. Character(TheWord, Read(n)[2 * i - 1], Read(n)[2 * i]) = "junk"
      BY <2>4, <3>2 DEF Character
    <3> QED BY <2>7, <3>1, <3>3
  <2> QED BY <2>9, <2>10
<1> HIDE DEF half
<1>8. Whole \in Seq(STRING) /\ Len(Whole) = half
  <2>1. \A i \in 1 .. half : Whole[i] \in STRING
    BY <1>6, <1>7
  <2>2. Whole = [i \in 1 .. half |-> Whole[i]]
    BY <1>6
  <2> QED BY <1>1, <2>1, <2>2, IsSequence
<1>9. n \div 2 \in 0 .. half
  BY <1>1
<1>10. \A i \in 1 .. half :
         Decoded(TheWord, Read(n))[i] = IF i <= n \div 2 THEN Whole[i] ELSE "junk"
  BY <1>6, <1>7, Zenon
<1>11. /\ DOMAIN Decoded(TheWord, Read(n)) = 1 .. half
       /\ Decoded(TheWord, Read(n)) = [i \in 1 .. half |-> Decoded(TheWord, Read(n))[i]]
  BY <1>6
<1> QED BY <1>8, <1>9, <1>10, <1>11 DEF Breaks

LEMMA SameBeginning ==
  ASSUME NEW S, NEW a \in Seq(S), NEW p \in Seq(S), NEW q \in Seq(S), Len(p) <= Len(q),
         \A i \in 1 .. Len(p) : p[i] = q[i]
  PROVE  SubSeq(a \o q, 1, Len(a \o p)) = a \o p /\ Len(a \o p) <= Len(a \o q)
<1> DEFINE b == a \o p
           c == a \o q
<1>1. b \in Seq(S) /\ Len(b) = Len(a) + Len(p) /\ c \in Seq(S) /\ Len(c) = Len(a) + Len(q)
  OBVIOUS
<1>2. \A i \in 1 .. Len(a) + Len(p) : b[i] = c[i]
  OBVIOUS
<1> HIDE DEF b, c
<1>3. SubSeq(c, 1, Len(b)) = b
  BY <1>1, <1>2
<1> QED BY <1>1, <1>3 DEF b, c

\* A file that says a text begins with the beginnings of the text.
LEMMA BeginsWithPart ==
  ASSUME NEW chars \in Seq(STRING), NEW k \in 0 .. Len(chars), NEW v, Says(v, chars)
  PROVE  Begins(v, SubSeq(chars, 1, k))
<1> DEFINE part == SubSeq(chars, 1, k)
<1>1. part \in Seq(STRING) /\ Len(part) = k /\ \A i \in 1 .. k : part[i] = chars[i]
  OBVIOUS
<1> HIDE DEF part
<1>2. CASE v = chars
  BY <1>1, <1>2 DEF Begins, part
<1>3. ASSUME NEW mark \in {Little, Big}, v = UTF16(chars, mark) PROVE Begins(v, part)
  <2> DEFINE pairs(t) == [i \in 1 .. 2 * Len(t) |->
                           IF (i % 2 = 1) = (mark = Little) THEN t[(i + 1) \div 2] ELSE "0"]
             Symbols == STRING \cup {"0", "FF", "FE"}
  <2>1. mark \in Seq(Symbols) /\ Len(mark) = 2
    <3>1. mark = <<"FF", "FE">> \/ mark = <<"FE", "FF">>
      BY DEF Little, Big
    <3>2. {"FF", "FE"} \subseteq Symbols
      OBVIOUS
    <3> HIDE DEF Symbols
    <3>3. "FF" \in Symbols /\ "FE" \in Symbols
      BY <3>2
    <3> QED BY <3>1, <3>3, IsPair
  <2>2. ASSUME NEW t \in Seq(STRING)
        PROVE  /\ UTF16(t, mark) = mark \o pairs(t)
               /\ pairs(t) \in Seq(Symbols) /\ Len(pairs(t)) = 2 * Len(t)
    <3>1. UTF16(t, mark) = mark \o pairs(t)
      BY DEF UTF16
    <3>2. ASSUME NEW i \in 1 .. 2 * Len(t) PROVE pairs(t)[i] \in Symbols
      <4>1. (i + 1) \div 2 \in 1 .. Len(t)
        OBVIOUS
      <4>2. t[(i + 1) \div 2] \in STRING
        BY <4>1
      <4> QED BY <4>2
    <3>3. 2 * Len(t) \in Nat /\ pairs(t) = [i \in 1 .. 2 * Len(t) |-> pairs(t)[i]]
      OBVIOUS
    <3> HIDE DEF pairs, Symbols
    <3> QED BY <3>1, <3>2, <3>3, IsSequence
  <2>3. \A i \in 1 .. 2 * k : pairs(part)[i] = pairs(chars)[i]
    <3> SUFFICES ASSUME NEW i \in 1 .. 2 * k PROVE pairs(part)[i] = pairs(chars)[i]
      OBVIOUS
    <3>1. (i + 1) \div 2 \in 1 .. k /\ i \in 1 .. 2 * Len(chars) /\ i \in 1 .. 2 * Len(part)
      BY <1>1
    <3>2. part[(i + 1) \div 2] = chars[(i + 1) \div 2]
      BY <1>1, <3>1
    <3> QED BY <3>1, <3>2
  <2> DEFINE p == pairs(part)
             q == pairs(chars)
  <2>4. /\ p \in Seq(Symbols) /\ q \in Seq(Symbols) /\ Len(p) = 2 * k /\ Len(q) = 2 * Len(chars)
        /\ \A i \in 1 .. 2 * k : p[i] = q[i]
        /\ UTF16(part, mark) = mark \o p /\ v = mark \o q
    BY <1>1, <1>3, <2>2, <2>3
  <2> HIDE DEF p, q, pairs, Symbols
  <2>5. SubSeq(mark \o q, 1, Len(mark \o p)) = mark \o p /\ Len(mark \o p) <= Len(mark \o q)
    <3>1. mark \in Seq(Symbols) /\ p \in Seq(Symbols) /\ q \in Seq(Symbols)
      BY <2>1, <2>4
    <3>2. Len(p) <= Len(q) /\ \A i \in 1 .. Len(p) : p[i] = q[i]
      BY <2>4
    <3> QED BY <3>1, <3>2, SameBeginning
  <2> QED BY <2>4, <2>5 DEF Begins
<1> QED BY <1>2, <1>3 DEF Says, part

\* A text that ends at memory as it was is a part of what was decoded.
LEMMA EndIsPart ==
  ASSUME NEW chars \in Seq(Byte), NEW t \in Ends(chars)
  PROVE  \E m \in 0 .. Len(chars) :
           t = SubSeq(chars, 1, m) /\ (m = Len(chars) \/ chars[m + 1] = "junk")
<1>1. CASE t = chars
  BY <1>1
<1>2. ASSUME NEW i \in DOMAIN chars, chars[i] = "junk", t = SubSeq(chars, 1, i - 1)
      PROVE  \E m \in 0 .. Len(chars) :
               t = SubSeq(chars, 1, m) /\ (m = Len(chars) \/ chars[m + 1] = "junk")
  <2>1. i - 1 \in 0 .. Len(chars) /\ (i - 1) + 1 = i
    OBVIOUS
  <2> QED BY <1>2, <2>1
<1> QED BY <1>1, <1>2 DEF Ends

\* What is returned of a file that is as it was.
IsPart(t) ==
  \E n \in 0 .. Len(t) : Begins(disk, SubSeq(t, 1, n)) /\ \A i \in n + 1 .. Len(t) : t[i] = "junk"

LEMMA RestIsWhole ==
  ASSUME Unsaved, saves = 0, ReadRest
  PROVE  \/ Says(disk, text')
         \/ Failures # {} /\ text' = <<>>
         \/ "disk" \in Failures /\ IsPart(text')
<1>1. /\ disk \in Seq(STRING) /\ \A i \in DOMAIN disk : disk[i] # "junk"
      /\ TheFileSize = Len(disk) /\ Len(disk) >= 2 /\ TheWord = SubSeq(disk, 1, 2)
      /\ TheWord \in {Little, Big} => HighBytesAreZero(disk, TheWord)
  BY VersionsAssumption DEF ReadRest, Unsaved
<1>2. CASE text' = <<>> /\ Failures # {}
  BY <1>2
<1>3. CASE ~(text' = <<>> /\ Failures # {})
  <2>1. PICK n \in Reads(TheFileSize - MarkLength, Len(Rest(disk))) :
          text' \in Ends(Decoded(TheWord, Read(n)))
    BY <1>3 DEF ReadRest, Return
  <2>2. Len(Rest(disk)) = Len(disk) - 2 /\ TheFileSize - MarkLength = Len(disk) - 2
    BY <1>1 DEF Rest, MarkLength
  <2>3. n \in 0 .. Len(disk) - 2 /\ ("disk" \notin Failures => n = Len(disk) - 2)
    BY <1>1, <2>1, <2>2 DEF Reads
  <2> DEFINE chars == Decoded(TheWord, Read(n))
  <2>4. /\ \A i \in DOMAIN Whole : Whole[i] # "junk"
        /\ Says(disk, Whole)
    BY <1>1, WholeIsSaid DEF Says
  <2>5. CASE n = Len(disk) - 2
    <3>1. text' \in Ends(Whole)
      BY <2>1, <2>5 DEF Whole, All
    <3>2. text' = Whole
      BY <2>4, <3>1 DEF Ends
    <3> QED BY <2>4, <3>2
  <2>6. CASE n # Len(disk) - 2
    <3>1. Whole \in Seq(STRING) /\ \E k \in Nat : Breaks(chars, k)
      <4>1. n + 2 \in Nat /\ n \div 2 \in Nat
        BY <2>3
      <4> QED BY <1>1, <2>3, <4>1, BreaksUTF8, BreaksUTF16
    <3>2. PICK k \in Nat : Breaks(chars, k)
      BY <3>1
    <3> HIDE DEF chars
    <3>3. /\ chars = [i \in 1 .. Len(Whole) |-> chars[i]]
          /\ DOMAIN chars = 1 .. Len(Whole) /\ k \in 0 .. Len(Whole)
          /\ \A i \in 1 .. Len(Whole) : chars[i] = IF i <= k THEN Whole[i] ELSE "junk"
      BY <3>2 DEF Breaks
    <3>4. chars \in Seq(Byte) /\ Len(chars) = Len(Whole)
      <4>1. \A i \in 1 .. Len(Whole) : chars[i] \in Byte
        <5> SUFFICES ASSUME NEW i \in 1 .. Len(Whole) PROVE chars[i] \in Byte
          OBVIOUS
        <5>1. Whole[i] \in Byte
          BY <3>1 DEF Byte
        <5>2. CASE i <= k
          BY <3>3, <5>1, <5>2, Zenon
        <5>3. CASE ~(i <= k)
          <6>1. chars[i] = "junk"
            BY <3>3, <5>3, Zenon
          <6> QED BY <6>1 DEF Byte
        <5> QED BY <5>2, <5>3
      <4>2. Len(Whole) \in Nat
        BY <3>1
      <4> QED BY <3>3, <4>1, <4>2, IsSequence
    <3>5. PICK m \in 0 .. Len(chars) :
            text' = SubSeq(chars, 1, m) /\ (m = Len(chars) \/ chars[m + 1] = "junk")
      BY <2>1, <3>4, EndIsPart DEF chars
    <3>6. k <= m
      <4>1. CASE m = Len(chars)
        BY <3>3, <3>4, <4>1
      <4>2. CASE m # Len(chars)
        <5>1. m + 1 \in 1 .. Len(Whole) /\ chars[m + 1] = "junk"
          BY <3>4, <3>5, <4>2
        <5>2. ~(m + 1 <= k)
          BY <2>4, <3>1, <3>3, <5>1
        <5> QED BY <3>3, <5>2
      <4> QED BY <4>1, <4>2
    <3>7. Len(text') = m /\ \A i \in 1 .. m : text'[i] = chars[i]
      BY <3>4, <3>5
    <3>8. SubSeq(text', 1, k) = SubSeq(Whole, 1, k)
      <4>1. \A i \in 1 .. k : text'[i] = Whole[i]
        BY <3>3, <3>4, <3>6, <3>7
      <4> QED BY <3>1, <3>3, <4>1
    <3>9. Begins(disk, SubSeq(text', 1, k))
      BY <2>4, <3>1, <3>3, <3>8, BeginsWithPart
    <3>10. \A i \in k + 1 .. Len(text') : text'[i] = "junk"
      <4> SUFFICES ASSUME NEW i \in k + 1 .. m PROVE text'[i] = "junk"
        BY <3>7
      <4>1. i \in 1 .. m /\ i \in 1 .. Len(Whole) /\ ~(i <= k)
        BY <3>3, <3>4
      <4> QED BY <3>3, <3>7, <4>1
    <3>11. k \in 0 .. Len(text')
      BY <3>3, <3>6, <3>7
    <3> QED BY <2>3, <2>6, <3>9, <3>10, <3>11 DEF IsPart
  <2> QED BY <2>5, <2>6
<1> QED BY <1>2, <1>3

LEMMA NextFileInv == FileInv /\ (Save \/ ReadAllText) => FileInv'
<1> SUFFICES ASSUME FileInv, Save \/ ReadAllText PROVE FileInv'
  OBVIOUS
<1>1. CASE Save
  BY <1>1 DEF Save, FileInv
<1>2. CASE ReadAllText
  <2> SUFFICES ASSUME saves = 0, Unsaved PROVE Unsaved'
    BY <1>2 DEF FileInv, ReadAllText, AskSize, OpenFile, FileInUse, ReadMark, ReadRest, Overrun
  <2>1. CASE AskSize
    BY <2>1 DEF AskSize, Unsaved, Bytes, Return, SettledIsWhole
  <2>2. CASE OpenFile
    BY <2>2 DEF OpenFile, Unsaved, Bytes
  <2>3. CASE FileInUse
    BY <2>3 DEF FileInUse, Unsaved, Return, SettledIsWhole
  <2>4. CASE ReadMark
    <3>1. Len(disk) \in Nat /\ disk \in Seq(STRING)
      BY <2>4, VersionsAssumption DEF ReadMark, Unsaved
    <3>2. PICK n \in Reads(2, Len(disk)) : TheWord' = SubSeq(disk, 1, n)
      BY <2>4 DEF ReadMark, MarkLength
    <3>3. /\ n \in 0 .. 2 /\ n <= Len(disk) /\ Len(TheWord') = n
          /\ "disk" \notin Failures => n = 2 \/ n = Len(disk)
      <4>1. /\ n \in 0 .. 2 /\ n <= Len(disk)
            /\ "disk" \notin Failures => n = 2 \/ n = Len(disk)
        BY <3>1, <3>2 DEF Reads
      <4> QED BY <3>1, <3>2, <4>1
    <3>4. UNCHANGED <<disk, saves, TheFileSize>> /\ TheFileSize = Len(disk)
      BY <2>4 DEF ReadMark, Unsaved
    <3>5. CASE step' = "rest"
      <4>1. n = 2
        BY <2>4, <3>3, <3>5 DEF ReadMark, Return
      <4> QED BY <2>4, <3>2, <3>3, <3>4, <3>5, <4>1 DEF ReadMark, Unsaved
    <3>6. CASE step' = "done"
      <4>1. /\ text' = <<>>
            /\ Len(TheWord') < 2 \/ Buffer(TheWord') < 0 \/ "memory" \in Failures
        BY <2>4, <3>6 DEF ReadMark, Return
      <4>2. Overruns' \/ Failures # {}
        BY <3>1, <3>3, <3>4, <4>1 DEF Overruns, Buffer
      <4> QED BY <2>4, <3>4, <3>6, <4>1, <4>2 DEF ReadMark, Unsaved, SettledIsWhole
    <3> QED BY <2>4, <3>5, <3>6 DEF ReadMark, Return
  <2>5. CASE ReadRest
    <3>1. step' = "done" /\ UNCHANGED <<disk, saves>>
      BY <2>5 DEF ReadRest, Return
    <3>2. \/ Says(disk, text')
          \/ Failures # {} /\ text' = <<>>
          \/ "disk" \in Failures /\ IsPart(text')
      BY <2>5, RestIsWhole
    <3>3. SettledIsWhole'
      BY <3>1, <3>2 DEF SettledIsWhole, IsPart, Says, Begins, UTF16, Little, Big
    <3> QED BY <3>1, <3>3 DEF Unsaved
  <2>6. CASE Overrun
    <3>1. Overruns'
      BY <2>6 DEF Overrun, Overruns
    <3> QED BY <2>6, <3>1 DEF Overrun, Unsaved, Return, SettledIsWhole
  <2> QED BY <1>2, <2>1, <2>2, <2>3, <2>4, <2>5, <2>6 DEF ReadAllText
<1> QED BY <1>1, <1>2

LEMMA StepFileInv == FileInv /\ [PluginNext]_pluginVars => FileInv'
<1> SUFFICES ASSUME FileInv, [PluginNext]_pluginVars PROVE FileInv'
  OBVIOUS
<1>1. CASE ReadFile
  BY <1>1, NextFileInv DEF ReadFile
<1>2. CASE PathUnknown \/ Parse \/ NoObject
  BY <1>2 DEF PathUnknown, Parse, NoObject, FileInv, Unsaved
<1>3. CASE LoadStep \/ Start \/ CheckStep \/ Gone \/ UNCHANGED pluginVars
  <2>1. UNCHANGED fileVars
    BY <1>3 DEF LoadStep, Start, CheckStep, Gone, pluginVars
  <2>2. UNCHANGED <<disk, saves, step, TheFileSize, TheWord, text>>
    BY <2>1 DEF fileVars
  <2>3. SettledIsWhole => SettledIsWhole'
    BY <2>2 DEF SettledIsWhole, Overruns, Says, Begins, UTF16
  <2> QED BY <2>2, <2>3 DEF FileInv, Unsaved
<1> QED BY <1>1, <1>2, <1>3 DEF PluginNext

\* A settings file of any length that nobody saves while it is read is read to its last
\* character, in each of the three encodings.  If memory or the disk fails, nothing is returned
\* of it, or its beginning up to some character and memory as it was behind that.
THEOREM SettledFilesAreWhole == PluginSpec => []SettledIsWhole
<1>1. PluginInit => FileInv
  BY InitFileInv DEF PluginInit
<1>2. FileInv => SettledIsWhole
  BY DEF FileInv, Unsaved, SettledIsWhole
<1> QED BY <1>1, <1>2, StepFileInv, PTL DEF PluginSpec, pluginVars
-----------------------------------------------------------------------------
(* The loading begins, from its initial state, when the text is parsed.    *)

NotBegun ==
  /\ SetDoc = Unreadable
  /\ pc = "open" /\ x = 1 /\ y = 1 /\ o = 1
  /\ HasLoaded = FALSE
  /\ Servers = <<>>
  /\ loaded = IF step = "unread" THEN "false" ELSE "none"

Loads == IF step = "parsed" THEN LoadInv ELSE NotBegun

\* Reading the file goes on from and to its own steps.
LEMMA FileStep ==
  Save \/ ReadAllText => {step, step'} \cap {"parsed", "unread"} = {}
BY DEF Save, ReadAllText, AskSize, OpenFile, FileInUse, ReadMark, ReadRest, Overrun, Return

\* A step that leaves the variables of the loading alone keeps its invariant.
LEMMA LoadInvStays == LoadInv /\ UNCHANGED vars => LoadInv'
BY NextLoadInv

LEMMA LoadInvBegins == (Init => LoadInv)'
BY InitLoadInv, PTL

LEMMA NextLoads == Loads /\ [PluginNext]_pluginVars => Loads'
<1> SUFFICES ASSUME Loads, [PluginNext]_pluginVars PROVE Loads'
  OBVIOUS
<1>1. CASE ReadFile
  <2>1. UNCHANGED <<SetDoc, pc, x, y, o, HasLoaded, Servers, loaded>>
    BY <1>1 DEF ReadFile, loadVars, vars, cursor
  <2> QED BY <1>1, <2>1, FileStep DEF ReadFile, Loads, NotBegun
<1>2. CASE PathUnknown \/ NoObject
  BY <1>2 DEF PathUnknown, NoObject, Loads, NotBegun, loadVars, vars, cursor
<1>3. CASE Parse
  <2>1. NotBegun /\ step = "done" /\ step' = "parsed"
    BY <1>3 DEF Parse, Loads
  <2>2. SetDoc' \in Files
    BY <1>3, MeaningsAssumption DEF Parse
  <2>3. Init'
    BY <1>3, <2>1, <2>2 DEF Parse, NotBegun, Init
  <2> QED BY <2>1, <2>3, LoadInvBegins DEF Loads
<1>4. CASE LoadStep
  <2>1. step = "parsed" /\ step' = "parsed" /\ Next
    BY <1>4 DEF LoadStep, fileVars
  <2> QED BY <2>1, NextLoadInv DEF Loads
<1>5. CASE Start \/ CheckStep \/ Gone \/ UNCHANGED pluginVars
  <2>1. UNCHANGED <<step, vars>>
    BY <1>5 DEF Start, CheckStep, Gone, pluginVars, fileVars, loadVars
  <2>2. UNCHANGED <<SetDoc, pc, x, y, o, HasLoaded, Servers, loaded>>
    BY <2>1 DEF vars, cursor
  <2> QED BY <2>1, <2>2, LoadInvStays DEF Loads, NotBegun
<1> QED BY <1>1, <1>2, <1>3, <1>4, <1>5 DEF PluginNext

LEMMA LoadingInvariance == PluginSpec => []Loads
<1>1. PluginInit => Loads
  BY DEF PluginInit, InitFile, Loads, NotBegun
<1> QED BY <1>1, NextLoads, PTL DEF PluginSpec, pluginVars

LEMMA LoadsSuffices ==
  Loads => TypeOK /\ OnlyLastLacksClient /\ NothingInvented /\ CleanIsComplete
<1> SUFFICES ASSUME NotBegun
             PROVE  TypeOK /\ OnlyLastLacksClient /\ NothingInvented /\ CleanIsComplete
  BY LoadInvSuffices DEF Loads
<1>1. DOMAIN Servers = {} /\ Servers \in Seq(Server)
  BY DEF NotBegun
<1>2. SetDoc \in Files
  BY MeaningsAssumption DEF NotBegun
<1>3. TypeOK
  <2>1. loaded \in {"none", "false"} /\ pc = "open"
    BY DEF NotBegun
  <2>2. x \in Nat \ {0} /\ y \in Nat \ {0} /\ o \in Nat \ {0}
    BY DEF NotBegun
  <2>3. HasLoaded \in BOOLEAN
    BY DEF NotBegun
  <2> QED BY <1>1, <1>2, <2>1, <2>2, <2>3 DEF TypeOK, InList
<1>4. OnlyLastLacksClient /\ NothingInvented
  BY <1>1 DEF OnlyLastLacksClient, NothingInvented
<1>5. CleanIsComplete
  BY DEF NotBegun, CleanIsComplete
<1> QED BY <1>3, <1>4, <1>5

\* Whatever the file is when it is read, and in whatever state the reading leaves the text,
\* the loading keeps its types, ...
THEOREM LoadingIsTyped == PluginSpec => []TypeOK
BY LoadingInvariance, LoadsSuffices, PTL

\* ... puts nothing in force that the text does not state, ...
THEOREM NothingIsAdded == PluginSpec => []NothingInvented
BY LoadingInvariance, LoadsSuffices, PTL

\* ... leaves at most the last server without a client, ...
THEOREM OneClientMissing == PluginSpec => []OnlyLastLacksClient
BY LoadingInvariance, LoadsSuffices, PTL

\* ... and makes all of a text without defects the settings.
THEOREM CleanTextIsInForce == PluginSpec => []CleanIsComplete
BY LoadingInvariance, LoadsSuffices, PTL
-----------------------------------------------------------------------------
(* The file is saved while it is read.                                     *)

\* What the buffer holds that is not memory as it was is what lies behind the first bytes.
IsOfDisk(bytes) ==
  /\ bytes \in Seq(Byte)
  /\ \A i \in 1 .. Len(bytes) :
       bytes[i] = "junk" \/ (i + 2 <= Len(disk) /\ bytes[i] = disk[i + 2])

LEMMA RestIsOfDisk ==
  ASSUME disk \in Seq(Byte)
  PROVE  /\ IsOfDisk(Rest(disk)) /\ Len(Rest(disk)) \in Nat
         /\ \A i \in 1 .. Len(Rest(disk)) : i + 2 <= Len(disk) /\ Rest(disk)[i] = disk[i + 2]
<1>1. CASE Len(disk) >= 2
  BY <1>1 DEF IsOfDisk, Rest, MarkLength
<1>2. CASE Len(disk) < 2
  <2>1. Rest(disk) = <<>>
    BY <1>2 DEF Rest, MarkLength
  <2> QED BY <2>1 DEF IsOfDisk
<1> QED BY <1>1, <1>2

LEMMA BufferHolds ==
  ASSUME disk \in Seq(Byte), TheFileSize \in Nat, TheFileSize >= 2,
         NEW n \in 0 .. Len(Rest(disk))
  PROVE  IsOfDisk(Read(n))
<1>1. /\ DOMAIN Read(n) = 1 .. TheFileSize - 2
      /\ \A i \in 1 .. TheFileSize - 2 :
           Read(n)[i] = IF i <= n THEN Rest(disk)[i] ELSE "junk"
  BY DEF Read, MarkLength
<1>2. TheFileSize - 2 \in Nat /\ Read(n) = [i \in 1 .. TheFileSize - 2 |-> Read(n)[i]]
  BY DEF Read, MarkLength
<1>3. /\ Len(Rest(disk)) \in Nat
      /\ \A i \in 1 .. Len(Rest(disk)) : i + 2 <= Len(disk) /\ Rest(disk)[i] = disk[i + 2]
  BY RestIsOfDisk
<1>4. ASSUME NEW i \in 1 .. TheFileSize - 2
      PROVE  /\ Read(n)[i] \in Byte
             /\ Read(n)[i] = "junk" \/ (i + 2 <= Len(disk) /\ Read(n)[i] = disk[i + 2])
  <2>1. CASE i <= n
    <3>1. i \in 1 .. Len(Rest(disk))
      BY <1>3, <2>1
    <3>2. i + 2 <= Len(disk) /\ Rest(disk)[i] = disk[i + 2] /\ disk[i + 2] \in Byte
      BY <1>3, <3>1
    <3>3. Read(n)[i] = Rest(disk)[i]
      BY <1>1, <2>1, Zenon
    <3> QED BY <3>2, <3>3
  <2>2. CASE ~(i <= n)
    <3>1. Read(n)[i] = "junk"
      BY <1>1, <2>2, Zenon
    <3> QED BY <3>1 DEF Byte
  <2> QED BY <2>1, <2>2
<1>5. Read(n) \in Seq(Byte) /\ Len(Read(n)) = TheFileSize - 2
  BY <1>2, <1>4, IsSequence
<1> QED BY <1>4, <1>5 DEF IsOfDisk

\* The bytes behind the first two, up to one of them.
LEMMA BytesUpTo ==
  ASSUME NEW v \in Seq(Byte), NEW n \in 2 .. Len(v)
  PROVE  /\ SubSeq(v, 3, n) \in Seq(Byte)
         /\ Len(SubSeq(v, 3, n)) = n - 2
         /\ \A i \in 1 .. n - 2 : SubSeq(v, 3, n)[i] = v[i + 2]
OBVIOUS

Part(bytes, m) == SubSeq(Decoded(TheWord, bytes), 1, m)

\* In UTF-8, a text without memory as it was is a part of the file behind the first bytes.
LEMMA PartUTF8 ==
  ASSUME disk \in Seq(Byte), NEW v \in Seq(Byte), Len(v) >= 2,
         TheWord = SubSeq(v, 1, 2), TheWord \notin {Little, Big},
         NEW bytes, IsOfDisk(bytes),
         NEW m \in Nat, m >= 2, m <= Len(Decoded(TheWord, bytes)),
         \A i \in DOMAIN Part(bytes, m) : Part(bytes, m)[i] # "junk"
  PROVE  \E w \in {v, disk} : \E n \in 2 .. Len(w) :
           Part(bytes, m) = Decoded(TheWord, SubSeq(w, 3, n))
<1> DEFINE chars == TheWord \o bytes
           t == Part(bytes, m)
<1>1. /\ TheWord \in Seq(Byte) /\ Len(TheWord) = 2
      /\ \A i \in 1 .. 2 : TheWord[i] = v[i]
  OBVIOUS
<1>2. /\ bytes \in Seq(Byte) /\ Len(bytes) \in Nat
      /\ \A i \in 1 .. Len(bytes) :
           bytes[i] = "junk" \/ (i + 2 <= Len(disk) /\ bytes[i] = disk[i + 2])
  BY DEF IsOfDisk
<1>3. \A b : Decoded(TheWord, b) = TheWord \o b
  BY DEF Decoded
<1>4. /\ chars \in Seq(Byte) /\ Len(chars) = Len(bytes) + 2
      /\ \A i \in 1 .. 2 : chars[i] = TheWord[i]
      /\ \A i \in 3 .. Len(bytes) + 2 : chars[i] = bytes[i - 2]
  BY <1>1, <1>2
<1>5. t = SubSeq(chars, 1, m) /\ m <= Len(bytes) + 2
  <2>1. Decoded(TheWord, bytes) = chars
    BY <1>3
  <2> HIDE DEF chars
  <2> QED BY <1>4, <2>1 DEF Part
<1>6. \A i \in DOMAIN t : t[i] # "junk"
  OBVIOUS
<1> HIDE DEF chars, t
<1>7. m >= 2
  OBVIOUS
<1>8. /\ t \in Seq(Byte) /\ Len(t) = m /\ \A i \in 1 .. m : t[i] = chars[i] /\ t[i] # "junk"
  <2>1. t \in Seq(Byte) /\ Len(t) = m /\ \A i \in 1 .. m : t[i] = chars[i]
    BY <1>4, <1>5
  <2>2. DOMAIN t = 1 .. m
    BY <2>1
  <2> QED BY <1>6, <2>1, <2>2
<1>9. ASSUME NEW w \in Seq(Byte), m <= Len(w), \A i \in 3 .. m : t[i] = w[i]
      PROVE  t = Decoded(TheWord, SubSeq(w, 3, m))
  <2>1. m \in 2 .. Len(w)
    BY <1>7, <1>9
  <2>2. /\ SubSeq(w, 3, m) \in Seq(Byte) /\ Len(SubSeq(w, 3, m)) = m - 2
        /\ \A i \in 1 .. m - 2 : SubSeq(w, 3, m)[i] = w[i + 2]
    BY <1>9, <2>1, BytesUpTo
  <2>3. \A i \in 1 .. Len(SubSeq(w, 3, m)) : t[i + Len(TheWord)] = SubSeq(w, 3, m)[i]
    <3> SUFFICES ASSUME NEW i \in 1 .. m - 2 PROVE t[i + 2] = SubSeq(w, 3, m)[i]
      BY <1>1, <2>2
    <3>1. i + 2 \in 3 .. m
      BY <1>7
    <3> QED BY <1>9, <2>2, <3>1
  <2>4. \A i \in 1 .. Len(TheWord) : t[i] = TheWord[i]
    BY <1>1, <1>4, <1>7, <1>8
  <2>5. Len(t) = Len(TheWord) + Len(SubSeq(w, 3, m))
    BY <1>1, <1>7, <1>8, <2>2
  <2>6. t = TheWord \o SubSeq(w, 3, m)
    <3> DEFINE r == SubSeq(w, 3, m)
    <3>1. /\ TheWord \in Seq(Byte) /\ t \in Seq(Byte) /\ r \in Seq(Byte)
          /\ Len(t) = Len(TheWord) + Len(r)
          /\ \A i \in 1 .. Len(TheWord) : t[i] = TheWord[i]
          /\ \A i \in 1 .. Len(r) : t[i + Len(TheWord)] = r[i]
      BY <1>1, <1>8, <2>2, <2>3, <2>4, <2>5
    <3> HIDE DEF r
    <3>2. t = TheWord \o r
      BY <3>1, IsConcatenation
    <3> QED BY <3>2 DEF r
  <2> QED BY <1>3, <2>6
<1>10. CASE m = 2
  <2>1. t = Decoded(TheWord, SubSeq(v, 3, m))
    BY <1>9, <1>10
  <2>2. m \in 2 .. Len(v)
    BY <1>10
  <2> QED BY <2>1, <2>2 DEF t
<1>11. CASE m > 2
  <2>1. ASSUME NEW i \in 3 .. m PROVE i <= Len(disk) /\ t[i] = disk[i]
    <3>1. /\ i - 2 \in 1 .. Len(bytes) /\ (i - 2) + 2 = i
          /\ i \in 3 .. Len(bytes) + 2 /\ i \in 1 .. m
      BY <1>2, <1>5
    <3>2. \/ bytes[i - 2] = "junk"
          \/ (i - 2) + 2 <= Len(disk) /\ bytes[i - 2] = disk[(i - 2) + 2]
      BY <1>2, <3>1
    <3>3. t[i] = bytes[i - 2] /\ t[i] # "junk"
      BY <1>4, <1>8, <3>1
    <3> QED BY <3>1, <3>2, <3>3
  <2>2. m \in 3 .. m
    BY <1>11
  <2>3. m <= Len(disk)
    BY <2>1, <2>2
  <2>4. t = Decoded(TheWord, SubSeq(disk, 3, m))
    BY <1>9, <2>1, <2>3
  <2>5. m \in 2 .. Len(disk)
    BY <1>11, <2>3
  <2> QED BY <2>4, <2>5 DEF t
<1> QED BY <1>7, <1>10, <1>11

\* In UTF-16 too.
LEMMA PartUTF16 ==
  ASSUME disk \in Seq(Byte), NEW v \in Seq(Byte), Len(v) >= 2, TheWord \in {Little, Big},
         NEW bytes, IsOfDisk(bytes),
         NEW m \in Nat, m <= Len(Decoded(TheWord, bytes)),
         \A i \in DOMAIN Part(bytes, m) : Part(bytes, m)[i] # "junk"
  PROVE  \E w \in {v, disk} : \E n \in 2 .. Len(w) :
           Part(bytes, m) = Decoded(TheWord, SubSeq(w, 3, n))
<1> DEFINE half  == Len(bytes) \div 2
           char(b, i) == Character(TheWord, b[2 * i - 1], b[2 * i])
           chars == [i \in 1 .. half |-> char(bytes, i)]
           t == Part(bytes, m)
<1>1. /\ bytes \in Seq(Byte) /\ Len(bytes) \in Nat
      /\ \A i \in 1 .. Len(bytes) :
           bytes[i] = "junk" \/ (i + 2 <= Len(disk) /\ bytes[i] = disk[i + 2])
  BY DEF IsOfDisk
<1>2. half \in Nat /\ 2 * half <= Len(bytes)
  BY <1>1
<1>3. \A b : Decoded(TheWord, b) = [i \in 1 .. Len(b) \div 2 |-> char(b, i)]
  BY DEF Decoded
<1>4. \A i \in 1 .. half : 2 * i - 1 \in 1 .. Len(bytes) /\ 2 * i \in 1 .. Len(bytes)
  BY <1>1, <1>2
<1>5. Decoded(TheWord, bytes) = chars
  BY <1>3
<1> HIDE DEF half
<1>6. ASSUME NEW i \in 1 .. half PROVE char(bytes, i) \in Byte
  <2>1. bytes[2 * i - 1] \in Byte /\ bytes[2 * i] \in Byte
    BY <1>1, <1>4
  <2>2. \A first, second \in Byte : Character(TheWord, first, second) \in Byte
    BY DEF Character, Byte
  <2> QED BY <2>1, <2>2, Zenon
<1>7. chars \in Seq(Byte) /\ Len(chars) = half /\ \A i \in 1 .. half : chars[i] = char(bytes, i)
  <2> HIDE DEF char
  <2>1. /\ chars = [i \in 1 .. half |-> chars[i]] /\ \A i \in 1 .. half : chars[i] = char(bytes, i)
    OBVIOUS
  <2> QED BY <1>2, <1>6, <2>1, IsSequence
<1> HIDE DEF chars
<1>8. m <= half /\ t = SubSeq(chars, 1, m)
  BY <1>5, <1>7 DEF Part
<1>13. \A i \in DOMAIN t : t[i] # "junk"
  OBVIOUS
<1> HIDE DEF t
<1>9. /\ t \in Seq(Byte) /\ Len(t) = m /\ \A i \in 1 .. m : t[i] = chars[i] /\ t[i] # "junk"
  <2>1. t \in Seq(Byte) /\ Len(t) = m /\ \A i \in 1 .. m : t[i] = chars[i]
    BY <1>2, <1>7, <1>8
  <2>2. DOMAIN t = 1 .. m
    BY <2>1
  <2> QED BY <1>13, <2>1, <2>2
<1>10. ASSUME NEW w \in Seq(Byte), 2 * m + 2 <= Len(w),
              \A i \in 1 .. m : t[i] = Character(TheWord, w[2 * i + 1], w[2 * i + 2])
       PROVE  2 * m + 2 \in 2 .. Len(w) /\ t = Decoded(TheWord, SubSeq(w, 3, 2 * m + 2))
  <2> DEFINE n == 2 * m + 2
             b == SubSeq(w, 3, n)
  <2>1. n \in 2 .. Len(w) /\ n - 2 = 2 * m /\ (2 * m) \div 2 = m
    BY <1>2, <1>10
  <2>2. Len(b) = 2 * m /\ \A i \in 1 .. 2 * m : b[i] = w[i + 2]
    <3> HIDE DEF n
    <3> QED BY <1>10, <2>1, BytesUpTo
  <2> HIDE DEF b
  <2>3. \A i \in 1 .. m : t[i] = char(b, i)
    <3> SUFFICES ASSUME NEW i \in 1 .. m PROVE t[i] = char(b, i)
      OBVIOUS
    <3>1. /\ 2 * i - 1 \in 1 .. 2 * m /\ 2 * i \in 1 .. 2 * m
          /\ (2 * i - 1) + 2 = 2 * i + 1
      BY <1>2
    <3>2. b[2 * i - 1] = w[2 * i + 1] /\ b[2 * i] = w[2 * i + 2]
      <4>1. b[2 * i - 1] = w[(2 * i - 1) + 2] /\ b[2 * i] = w[2 * i + 2]
        BY <2>2, <3>1
      <4> QED BY <3>1, <4>1, Zenon
    <3> QED BY <1>10, <3>2, Zenon
  <2>4. Decoded(TheWord, b) = [i \in 1 .. m |-> char(b, i)]
    BY <1>3, <2>1, <2>2
  <2>5. t = [i \in 1 .. m |-> t[i]]
    BY <1>2, <1>9
  <2>6. t = Decoded(TheWord, b)
    <3> HIDE DEF char
    <3> QED BY <2>3, <2>4, <2>5
  <2> QED BY <2>1, <2>6 DEF b
<1>11. CASE m = 0
  <2>1. 2 * m + 2 <= Len(v)
    BY <1>11
  <2>2. \A i \in 1 .. m : t[i] = Character(TheWord, v[2 * i + 1], v[2 * i + 2])
    BY <1>11
  <2>3. 2 * m + 2 \in 2 .. Len(v) /\ t = Decoded(TheWord, SubSeq(v, 3, 2 * m + 2))
    BY <1>10, <2>1, <2>2
  <2> QED BY <2>3 DEF t
<1>12. CASE m # 0
  <2>1. ASSUME NEW i \in 1 .. m
        PROVE  /\ 2 * i + 2 <= Len(disk)
               /\ t[i] = Character(TheWord, disk[2 * i + 1], disk[2 * i + 2])
    <3>1. i \in 1 .. half /\ (2 * i - 1) + 2 = 2 * i + 1
      BY <1>2, <1>8
    <3>2. /\ \/ bytes[2 * i - 1] = "junk"
             \/ (2 * i - 1) + 2 <= Len(disk) /\ bytes[2 * i - 1] = disk[(2 * i - 1) + 2]
          /\ \/ bytes[2 * i] = "junk"
             \/ 2 * i + 2 <= Len(disk) /\ bytes[2 * i] = disk[2 * i + 2]
      BY <1>1, <1>4, <3>1
    <3>3. t[i] = Character(TheWord, bytes[2 * i - 1], bytes[2 * i]) /\ t[i] # "junk"
      BY <1>7, <1>9, <3>1
    <3>4. bytes[2 * i - 1] # "junk" /\ bytes[2 * i] # "junk"
      BY <3>3 DEF Character
    <3>5. 2 * i + 2 <= Len(disk)
      BY <3>2, <3>4
    <3>7. bytes[2 * i - 1] = disk[2 * i + 1] /\ bytes[2 * i] = disk[2 * i + 2]
      BY <3>1, <3>2, <3>4
    <3> QED BY <3>3, <3>5, <3>7
  <2>2. m \in 1 .. m
    BY <1>2, <1>12
  <2>3. 2 * m + 2 \in 2 .. Len(disk) /\ t = Decoded(TheWord, SubSeq(disk, 3, 2 * m + 2))
    BY <1>10, <2>1, <2>2
  <2> QED BY <2>3 DEF t
<1> QED BY <1>11, <1>12

\* A text says what a version says, at least for what a settings file with it may hold.
SaidBy(v, t) ==
  \E whole \in DOMAIN Meanings : Says(v, whole) /\ Meanings[t] \subseteq Meanings[whole]

\* What is on the disk while the file is read has been seen, unless the reading made it; the
\* first bytes are those of a version that has been seen; and what is returned, if it is a
\* document, is said by one.
SavedInv ==
  /\ seen \subseteq Versions \cup Saves
  /\ disk \in seen \cup {<<>>}
  /\ TheFileSize \in Nat
  /\ step = "mark" => disk # Missing \/ disk = <<>>
  /\ step = "rest" =>
       /\ disk \in seen /\ disk # Missing
       /\ \E v \in seen : v # Missing /\ Len(v) >= 2 /\ TheWord = SubSeq(v, 1, 2)
  /\ step = "done" => text = <<>> \/ (text \in DOMAIN Meanings => \E v \in seen : SaidBy(v, text))
  /\ OnlySaved

\* Files are sequences of bytes.
LEMMA FilesAreBytes ==
  ASSUME NEW v \in Versions \cup Saves, v # Missing
  PROVE  v \in Seq(Byte) /\ \A i \in DOMAIN v : v[i] # "junk"
<1>1. v \in Seq(STRING) /\ \A i \in DOMAIN v : v[i] # "junk"
  BY VersionsAssumption
<1>2. \A s \in Seq(STRING) : s \in Seq(Byte)
  BY DEF Byte
<1> QED BY <1>1, <1>2

\* A document that is returned is said by one of the versions it was read of.
LEMMA PartIsSaid ==
  ASSUME WholeOrForeign, SavedInv, step = "rest",
         NEW bytes, IsOfDisk(bytes),
         NEW m \in Nat, m <= Len(Decoded(TheWord, bytes)),
         Len(Part(bytes, m)) = m, Part(bytes, m) \in DOMAIN Meanings
  PROVE  \E v \in seen : SaidBy(v, Part(bytes, m))
<1> DEFINE t == Part(bytes, m)
<1> HIDE DEF t
<1>1. disk # Missing /\ disk \in seen /\ disk \in Versions \cup Saves
  BY DEF SavedInv
<1>2. PICK v \in seen : v # Missing /\ Len(v) >= 2 /\ TheWord = SubSeq(v, 1, 2)
  BY DEF SavedInv
<1>3. v \in Versions \cup Saves
  BY DEF SavedInv
<1>4. disk \in Seq(Byte) /\ v \in Seq(Byte)
  BY <1>1, <1>2, <1>3, FilesAreBytes
<1>5. m >= 2 /\ \A i \in DOMAIN Part(bytes, m) : Part(bytes, m)[i] # "junk"
  BY DEF WholeOrForeign
<1>6. \E w \in {v, disk} : \E n \in 2 .. Len(w) :
        Part(bytes, m) = Decoded(TheWord, SubSeq(w, 3, n))
  <2>1. CASE TheWord \in {Little, Big}
    BY <1>2, <1>4, <1>5, <2>1, PartUTF16
  <2>2. CASE TheWord \notin {Little, Big}
    <3>1. /\ disk \in Seq(Byte) /\ v \in Seq(Byte) /\ Len(v) >= 2
          /\ TheWord = SubSeq(v, 1, 2) /\ TheWord \notin {Little, Big}
      BY <1>2, <1>4, <2>2
    <3>2. /\ m \in Nat /\ m >= 2 /\ m <= Len(Decoded(TheWord, bytes))
          /\ \A i \in DOMAIN Part(bytes, m) : Part(bytes, m)[i] # "junk"
      BY <1>5
    <3> QED BY <3>1, <3>2, PartUTF8, ZenonT(60)
  <2> QED BY <2>1, <2>2
<1>7. PICK w \in {v, disk} :
        \E n \in 2 .. Len(w) : t = Decoded(SubSeq(v, 1, 2), SubSeq(w, 3, n))
  BY <1>2, <1>6 DEF t
<1>8. v \in (Versions \cup Saves) \ {Missing} /\ w \in (Versions \cup Saves) \ {Missing}
  BY <1>1, <1>2, <1>3
<1>9. \E u \in {v, w} : SaidBy(u, t)
  <2>1. PICK n \in 2 .. Len(w) : t = Decoded(SubSeq(v, 1, 2), SubSeq(w, 3, n))
    BY <1>7
  <2>2. LET d == Decoded(SubSeq(v, 1, 2), SubSeq(w, 3, n))
        IN  d \in DOMAIN Meanings => \E u \in {v, w} : \E whole \in DOMAIN Meanings :
              Says(u, whole) /\ Meanings[d] \subseteq Meanings[whole]
    BY <1>2, <1>8, Zenon DEF WholeOrForeign
  <2>3. t \in DOMAIN Meanings
    BY DEF t
  <2>4. \E u \in {v, w} : \E whole \in DOMAIN Meanings :
              Says(u, whole) /\ Meanings[t] \subseteq Meanings[whole]
    BY <2>1, <2>2, <2>3, Zenon
  <2> QED BY <2>4, Zenon DEF SaidBy
<1> QED BY <1>1, <1>9 DEF t

\* The first bytes are bytes, and so is what is decoded of them and others.
LEMMA DecodedIsBytes ==
  ASSUME SavedInv, step = "rest", NEW bytes \in Seq(Byte)
  PROVE  Decoded(TheWord, bytes) \in Seq(Byte)
<1>1. CASE TheWord \notin {Little, Big}
  <2>1. PICK v \in seen : v # Missing /\ Len(v) >= 2 /\ TheWord = SubSeq(v, 1, 2)
    BY DEF SavedInv
  <2>2. v \in Versions \cup Saves
    BY DEF SavedInv
  <2>3. v \in Seq(Byte)
    BY <2>1, <2>2, FilesAreBytes
  <2>4. TheWord \in Seq(Byte)
    BY <2>1, <2>3
  <2>5. TheWord \o bytes \in Seq(Byte)
    BY <2>4
  <2> QED BY <1>1, <2>5 DEF Decoded
<1>2. CASE TheWord \in {Little, Big}
  <2> DEFINE half == Len(bytes) \div 2
             char(i) == Character(TheWord, bytes[2 * i - 1], bytes[2 * i])
  <2>1. half \in Nat /\ 2 * half <= Len(bytes)
    OBVIOUS
  <2>2. ASSUME NEW i \in 1 .. half PROVE char(i) \in Byte
    <3>1. 2 * i - 1 \in 1 .. Len(bytes) /\ 2 * i \in 1 .. Len(bytes)
      BY <2>1
    <3>2. bytes[2 * i - 1] \in Byte /\ bytes[2 * i] \in Byte
      BY <3>1
    <3>3. \A first, second \in Byte : Character(TheWord, first, second) \in Byte
      BY DEF Character, Byte
    <3> QED BY <3>2, <3>3, Zenon
  <2>3. Decoded(TheWord, bytes) = [i \in 1 .. half |-> char(i)]
    BY <1>2 DEF Decoded
  <2> HIDE DEF half, char
  <2>4. [i \in 1 .. half |-> char(i)] \in Seq(Byte)
    BY <2>1, <2>2
  <2> QED BY <2>3, <2>4
<1> QED BY <1>1, <1>2

LEMMA ReturnedIsSaid ==
  ASSUME WholeOrForeign, SavedInv, ReadRest, text' # <<>>, text' \in DOMAIN Meanings
  PROVE  \E v \in seen : SaidBy(v, text')
<1>1. /\ step = "rest" /\ disk # Missing /\ disk \in Versions \cup Saves
      /\ TheFileSize \in Nat /\ TheFileSize >= 2
  BY DEF ReadRest, SavedInv, Overruns
<1>2. disk \in Seq(Byte)
  BY <1>1, FilesAreBytes
<1>3. PICK n \in Reads(TheFileSize - MarkLength, Len(Rest(disk))) :
        text' \in Ends(Decoded(TheWord, Read(n)))
  BY DEF ReadRest, Return
<1>4. n \in 0 .. Len(Rest(disk))
  <2>1. Len(Rest(disk)) \in Nat /\ TheFileSize - MarkLength \in Nat
    BY <1>1, <1>2, RestIsOfDisk DEF MarkLength
  <2> QED BY <1>3, <2>1 DEF Reads
<1>5. IsOfDisk(Read(n))
  BY <1>1, <1>2, <1>4, BufferHolds
<1>6. Decoded(TheWord, Read(n)) \in Seq(Byte)
  BY <1>1, <1>5, DecodedIsBytes DEF IsOfDisk
<1>7. PICK m \in 0 .. Len(Decoded(TheWord, Read(n))) :
        text' = SubSeq(Decoded(TheWord, Read(n)), 1, m)
  BY <1>3, <1>6, EndIsPart
<1>8. Len(text') = m /\ m \in Nat
  BY <1>6, <1>7
<1>9. /\ m \in Nat /\ m <= Len(Decoded(TheWord, Read(n)))
      /\ text' = Part(Read(n), m) /\ Len(Part(Read(n), m)) = m
      /\ Part(Read(n), m) \in DOMAIN Meanings
  BY <1>6, <1>7, <1>8 DEF Part
<1>10. \E v \in seen : SaidBy(v, Part(Read(n), m))
  BY <1>1, <1>5, <1>9, PartIsSaid
<1> QED BY <1>9, <1>10

\* Of an overrun buffer too.
LEMMA OverrunIsSaid ==
  ASSUME WholeOrForeign, SavedInv, Overrun, step' = "done", text' \in DOMAIN Meanings
  PROVE  \E v \in seen : SaidBy(v, text')
<1> DEFINE chars == Decoded(TheWord, Rest(disk))
<1>1. step = "rest" /\ disk # Missing /\ disk \in Versions \cup Saves
  BY DEF Overrun, SavedInv
<1>2. disk \in Seq(Byte)
  BY <1>1, FilesAreBytes
<1>3. IsOfDisk(Rest(disk))
  BY <1>2, RestIsOfDisk
<1>4. chars \in Seq(Byte)
  BY <1>1, <1>3, DecodedIsBytes DEF IsOfDisk
<1>5. PICK n \in 0 .. Len(chars) :
        text' = SubSeq(chars, 1, n) \/ text' = Append(SubSeq(chars, 1, n), "junk")
  BY DEF Overrun, Return
<1> HIDE DEF chars
<1>6. SubSeq(chars, 1, n) \in Seq(Byte) /\ Len(SubSeq(chars, 1, n)) = n
  BY <1>4
<1>7. text' # Append(SubSeq(chars, 1, n), "junk")
  <2> SUFFICES ASSUME text' = Append(SubSeq(chars, 1, n), "junk") PROVE FALSE
    OBVIOUS
  <2> DEFINE part == SubSeq(chars, 1, n)
  <2> HIDE DEF part
  <2>1. part \in Seq(Byte) /\ Len(part) = n /\ n \in Nat
    BY <1>6 DEF part
  <2>2. n + 1 \in DOMAIN Append(part, "junk") /\ Append(part, "junk")[n + 1] = "junk"
    BY <2>1
  <2> QED BY <2>2 DEF WholeOrForeign, part
<1>8. text' = SubSeq(chars, 1, n) /\ Len(text') = n /\ n \in Nat
  BY <1>5, <1>6, <1>7
<1>9. /\ n \in Nat /\ n <= Len(Decoded(TheWord, Rest(disk)))
      /\ text' = Part(Rest(disk), n) /\ Len(Part(Rest(disk), n)) = n
      /\ Part(Rest(disk), n) \in DOMAIN Meanings
  BY <1>4, <1>8 DEF chars, Part
<1>10. \E v \in seen : SaidBy(v, Part(Rest(disk), n))
  BY <1>1, <1>3, <1>9, PartIsSaid
<1> QED BY <1>9, <1>10

\* Each step of the reading, and each save, keeps the invariant.
LEMMA ReadingSavedInv ==
  ASSUME WholeOrForeign, SavedInv, Save \/ ReadAllText, UNCHANGED SetDoc
  PROVE  SavedInv'
<1>1. OnlySaved'
  BY FileStep DEF OnlySaved
<1>2. CASE Save
  <2>1. /\ step \in {"ask", "open", "mark", "rest"} /\ step' = step /\ seen \subseteq seen'
        /\ seen' \subseteq Versions \cup Saves
        /\ disk' \in seen' /\ TheFileSize' = TheFileSize /\ TheWord' = TheWord
        /\ step \in {"mark", "rest"} => disk' # Missing
    BY <1>2 DEF Save, SavedInv
  <2> QED BY <1>1, <2>1 DEF SavedInv
<1>3. CASE AskSize
  <2>1. Len(Bytes(disk)) \in Nat
    <3>1. CASE disk \in {Missing, <<>>}
      BY <3>1 DEF Bytes
    <3>2. CASE disk \notin {Missing, <<>>}
      <4>1. disk \in Versions \cup Saves /\ disk # Missing
        BY <3>2 DEF SavedInv
      <4>2. disk \in Seq(Byte)
        BY <4>1, FilesAreBytes
      <4> QED BY <3>2, <4>2 DEF Bytes
    <3> QED BY <3>1, <3>2
  <2> QED BY <1>1, <1>3, <2>1 DEF AskSize, Return, SavedInv
<1>4. CASE OpenFile
  <2>1. disk' \in seen \cup {<<>>} /\ (disk' # Missing \/ disk' = <<>>)
    BY <1>4 DEF OpenFile, Bytes, SavedInv
  <2> QED BY <1>1, <1>4, <2>1 DEF OpenFile, SavedInv
<1>5. CASE FileInUse
  BY <1>1, <1>5 DEF FileInUse, Return, SavedInv
<1>6. CASE ReadMark
  <2>1. CASE step' = "rest"
    <3>1. /\ disk \in seen \cup {<<>>} /\ (disk # Missing \/ disk = <<>>)
          /\ Len(TheWord') >= 2 /\ UNCHANGED <<disk, seen, TheFileSize, text>>
      BY <1>6, <2>1 DEF ReadMark, SavedInv, Return
    <3>2. PICK n \in Reads(2, Len(disk)) : TheWord' = SubSeq(disk, 1, n)
      BY <1>6 DEF ReadMark, MarkLength
    <3>3. disk \in Seq(Byte)
      <4>1. CASE disk = <<>>
        BY <4>1
      <4>2. CASE disk # <<>>
        <5>1. disk \in Versions \cup Saves /\ disk # Missing
          BY <3>1, <4>2 DEF SavedInv
        <5> QED BY <5>1, FilesAreBytes
      <4> QED BY <4>1, <4>2
    <3>4. n \in 0 .. 2 /\ n <= Len(disk) /\ Len(TheWord') = n
      <4>1. n \in 0 .. 2 /\ n <= Len(disk)
        BY <3>2, <3>3 DEF Reads
      <4> QED BY <3>2, <3>3, <4>1
    <3>5. n = 2 /\ Len(disk) >= 2 /\ disk # <<>>
      BY <3>1, <3>4
    <3>6. disk \in seen /\ disk # Missing /\ TheWord' = SubSeq(disk, 1, 2)
      BY <3>1, <3>2, <3>5
    <3> QED BY <1>1, <2>1, <3>1, <3>5, <3>6 DEF SavedInv
  <2>2. CASE step' # "rest"
    <3>1. step' = "done" /\ text' = <<>> /\ UNCHANGED <<disk, seen, TheFileSize>>
      BY <1>6, <2>2 DEF ReadMark, Return
    <3> QED BY <1>1, <3>1 DEF SavedInv
  <2> QED BY <2>1, <2>2
<1>7. CASE ReadRest
  <2>1. step' = "done" /\ UNCHANGED <<disk, seen, TheFileSize>>
    BY <1>7 DEF ReadRest, Return
  <2>2. text' # <<>> /\ text' \in DOMAIN Meanings => \E v \in seen : SaidBy(v, text')
    BY <1>7, ReturnedIsSaid
  <2> QED BY <1>1, <2>1, <2>2 DEF SavedInv, SaidBy
<1>8. CASE Overrun
  <2>1. step' \in {"down", "done"} /\ UNCHANGED <<disk, seen, TheFileSize>>
    BY <1>8 DEF Overrun, Return
  <2>2. step' = "done" /\ text' \in DOMAIN Meanings => \E v \in seen : SaidBy(v, text')
    BY <1>8, OverrunIsSaid
  <2> QED BY <1>1, <2>1, <2>2 DEF SavedInv, SaidBy
<1> QED BY <1>2, <1>3, <1>4, <1>5, <1>6, <1>7, <1>8 DEF ReadAllText

\* The settings of the text that was read are those of a version that says it.
LEMMA ParsedIsSaved ==
  ASSUME SavedInv, Parse
  PROVE  SavedInv'
<1>1. /\ step = "done" /\ step' = "parsed"
      /\ UNCHANGED <<disk, saves, seen, TheFileSize, TheWord, text>>
      /\ SetDoc' \in IF text = <<>> THEN {Unreadable}
                    ELSE IF text \in DOMAIN Meanings THEN Meanings[text] \cup {Absent}
                    ELSE {Absent}
  BY DEF Parse
<1>2. OnlySaved'
  <2> SUFFICES ASSUME SetDoc' \notin {Unreadable, Absent}
               PROVE  \E v \in seen : \E t \in DOMAIN Meanings :
                        Says(v, t) /\ SetDoc' \in Meanings[t]
    BY <1>1 DEF OnlySaved, Says, UTF16, Little, Big
  <2>1. text # <<>> /\ text \in DOMAIN Meanings /\ SetDoc' \in Meanings[text]
    BY <1>1
  <2>2. PICK v \in seen : SaidBy(v, text)
    BY <1>1, <2>1 DEF SavedInv
  <2> QED BY <2>1, <2>2 DEF SaidBy
<1> QED BY <1>1, <1>2 DEF SavedInv

\* The loading does not change what it loads.
LEMMA TextStays == Next => UNCHANGED SetDoc
BY DEF Next, LoadNothing, FindServers, ThrowEarly, SkipServer, TakeServer, BuildClient, Throw,
       EndServers, SkipFilter, TakeFilter, EndFilters, WrongList, SkipValue, TakeValue, EndList,
       vars

\* Each step of the plugin's life keeps the invariant.
LEMMA NextSavedInv ==
  ASSUME WholeOrForeign, SavedInv, [PluginNext]_pluginVars
  PROVE  SavedInv'
<1>1. CASE ReadFile
  <2>1. UNCHANGED SetDoc
    BY <1>1 DEF ReadFile, loadVars, vars
  <2> QED BY <1>1, <2>1, ReadingSavedInv DEF ReadFile
<1>2. CASE PathUnknown \/ NoObject
  BY <1>2 DEF PathUnknown, NoObject, SavedInv, OnlySaved
<1>3. CASE Parse
  BY <1>3, ParsedIsSaved
<1>4. CASE LoadStep \/ Start \/ CheckStep \/ Gone \/ UNCHANGED pluginVars
  <2>1. UNCHANGED <<disk, seen, step, TheFileSize, TheWord, text>>
    BY <1>4 DEF LoadStep, Start, CheckStep, Gone, pluginVars, fileVars
  <2>2. UNCHANGED SetDoc
    <3>1. CASE LoadStep
      BY <3>1, TextStays DEF LoadStep
    <3>2. CASE Start \/ CheckStep \/ Gone \/ UNCHANGED pluginVars
      BY <3>2 DEF Start, CheckStep, Gone, pluginVars, loadVars, vars
    <3> QED BY <1>4, <3>1, <3>2
  <2>3. OnlySaved'
    BY <2>1, <2>2 DEF SavedInv, OnlySaved
  <2> QED BY <2>1, <2>3 DEF SavedInv
<1> QED BY <1>1, <1>2, <1>3, <1>4 DEF PluginNext

\* If no part of a version is a document that says something else, what is loaded is what one
\* version says, however often and with whatever the file is saved between the steps of the
\* reading, and in whatever state it is found.
THEOREM OnlySavedSettingsLoad == ASSUME WholeOrForeign PROVE PluginSpec => []OnlySaved
<1>1. PluginInit => SavedInv
  BY DEF PluginInit, InitFile, SavedInv, OnlySaved
<1>2. SavedInv => OnlySaved
  BY DEF SavedInv
<1>3. SavedInv /\ [PluginNext]_pluginVars => SavedInv'
  BY NextSavedInv
<1> QED BY <1>1, <1>2, <1>3, PTL DEF PluginSpec, pluginVars
-----------------------------------------------------------------------------
(* No call is allowed without settings.                                    *)

\* Servers are only looked for where the text has them; without them a call ends at once.
Blocks ==
  /\ SetDoc.is # "right" => HasLoaded = FALSE
  /\ callPc # <<>> /\ HasLoaded = FALSE =>
       /\ callPc \in [Calls -> {"idle", "returned"}]
       /\ verdict \in [Calls -> {"none", "block"}]

\* A step of the IP check without settings.
LEMMA CallIsRefused ==
  ASSUME Check!Next, HasLoaded = FALSE, UNCHANGED <<SetDoc, HasLoaded>>,
         callPc \in [Calls -> {"idle", "returned"}], verdict \in [Calls -> {"none", "block"}]
  PROVE  /\ callPc' \in [Calls -> {"idle", "returned"}]
         /\ verdict' \in [Calls -> {"none", "block"}]
<1>1. InForce.HasLoaded = FALSE
  BY DEF InForce
<1>2. CASE \E c \in Calls : Check!Enter(c) \/ Check!Proceed(c)
  <2> PICK c \in Calls : Check!Enter(c) \/ Check!Proceed(c)
    BY <1>2
  <2>1. callPc[c] \in {"idle", "returned"}
    OBVIOUS
  <2>2. ~Check!Proceed(c)
    BY <2>1 DEF Check!Proceed, Check!SendThrows, Check!SendWithoutClient, Check!SendRequest,
      Check!Sending, Check!AllSent, Check!SleepOnce, Check!StopWaiting, Check!Decide,
      Check!Return
  <2>3. Check!RefuseUnloaded(c)
    BY <1>1, <2>2 DEF Check!Enter, Check!ThrowOutOfMemory, Check!Begin
  <2> QED BY <2>3 DEF Check!RefuseUnloaded
<1>3. CASE \E c \in Calls : \E s \in Check!Idx : Check!TaskStep(c, s)
  <2> PICK c \in Calls, s \in Check!Idx : Check!TaskStep(c, s)
    BY <1>3
  <2>1. UNCHANGED Check!callVars
    BY DEF Check!TaskStep, Check!Respond, Check!ReceiveBody, Check!Fail,
      Check!TerminateUnobserved, Check!NextFilter, Check!LoadFailCount,
      Check!StoreFailCount, Check!CountPass, Check!AppendReason,
      Check!LoadChecksRemaining, Check!StoreChecksRemaining
  <2> QED BY <2>1 DEF Check!callVars
<1>4. CASE Check!Rest
  BY <1>4 DEF Check!Rest, Check!vars, Check!callVars
<1> QED BY <1>2, <1>3, <1>4 DEF Check!Next

LEMMA NextBlocks == Loads /\ Blocks /\ [PluginNext]_pluginVars => Blocks'
<1> SUFFICES ASSUME Loads, Blocks, [PluginNext]_pluginVars PROVE Blocks'
  OBVIOUS
<1>1. CASE ReadFile \/ PathUnknown \/ NoObject \/ Gone \/ UNCHANGED pluginVars
  BY <1>1 DEF ReadFile, PathUnknown, NoObject, Gone, pluginVars, loadVars, vars, checkVars, Blocks
<1>2. CASE Parse
  <2>1. HasLoaded' = FALSE /\ UNCHANGED <<HasLoaded, callPc, verdict>>
    BY <1>2 DEF Parse, Loads, NotBegun, checkVars
  <2> QED BY <2>1 DEF Blocks
<1>3. CASE LoadStep
  <2>1. callPc' = <<>> /\ Next
    BY <1>3 DEF LoadStep, checkVars
  <2>2. UNCHANGED <<SetDoc, HasLoaded>> \/ FindServers
    BY <2>1 DEF Next, vars, LoadNothing, ThrowEarly, SkipServer, TakeServer, BuildClient, Throw,
      EndServers, SkipFilter, TakeFilter, EndFilters, WrongList, SkipValue, TakeValue, EndList
  <2> QED BY <2>1, <2>2 DEF FindServers, Blocks
<1>4. CASE Start
  <2>1. /\ UNCHANGED <<SetDoc, HasLoaded>>
        /\ callPc' \in [Calls -> {"idle", "returned"}]
        /\ verdict' \in [Calls -> {"none", "block"}]
    BY <1>4 DEF Start, loadVars, vars
  <2> QED BY <2>1 DEF Blocks
<1>5. CASE CheckStep
  <2>1. UNCHANGED <<SetDoc, HasLoaded>> /\ callPc # <<>> /\ Check!Next
    BY <1>5 DEF CheckStep, loadVars, vars
  <2> QED BY <2>1, CallIsRefused DEF Blocks
<1> QED BY <1>1, <1>2, <1>3, <1>4, <1>5 DEF PluginNext

\* A settings file that is missing, empty, garbled by a save or without servers, or whose
\* path is unknown, never makes any call return true.
THEOREM UnreadSettingsBlock == PluginSpec => []UnreadBlocks
<1>1. PluginInit => Blocks
  BY DEF PluginInit, Blocks
<1>2. PluginSpec => []Blocks
  BY <1>1, NextBlocks, LoadingInvariance, PTL DEF PluginSpec, pluginVars
<1>3. Blocks => UnreadBlocks
  BY DEF Blocks, UnreadBlocks
<1> QED BY <1>2, <1>3, PTL
-----------------------------------------------------------------------------
(* From the file to the verdict: IPCheckPrompt_proof is about the calls    *)
(* that the plugin answers from the settings that were loaded.             *)

Calling == INSTANCE IPCheckPrompt_proof WITH Settings <- InForce, pc <- callPc

LEMMA CallingIsChecking == Check!Next <=> Calling!Next
BY DEF Check!Next, Calling!Next, Check!Enter, Calling!Enter, Check!RefuseUnloaded,
  Calling!RefuseUnloaded, Check!ThrowOutOfMemory, Calling!ThrowOutOfMemory, Check!Begin,
  Calling!Begin, Check!FreeFrame, Calling!FreeFrame, Check!Live, Calling!Live,
  Check!InitialCounters, Calling!InitialCounters, Check!taskVars, Calling!taskVars,
  Check!Proceed, Calling!Proceed, Check!SendThrows, Calling!SendThrows,
  Check!SendWithoutClient, Calling!SendWithoutClient, Check!SendRequest,
  Calling!SendRequest, Check!Sending, Calling!Sending, Check!AllSent, Calling!AllSent,
  Check!SleepOnce, Calling!SleepOnce, Check!StopWaiting, Calling!StopWaiting, Check!Decide,
  Calling!Decide, Check!Return, Calling!Return, Check!TaskStep, Calling!TaskStep,
  Check!Respond, Calling!Respond, Check!ReceiveBody, Calling!ReceiveBody, Check!Fail,
  Calling!Fail, Check!TerminateUnobserved, Calling!TerminateUnobserved, Check!NextFilter,
  Calling!NextFilter, Check!LoadFailCount, Calling!LoadFailCount, Check!StoreFailCount,
  Calling!StoreFailCount, Check!CountPass, Calling!CountPass, Check!AppendReason,
  Calling!AppendReason, Check!LoadChecksRemaining, Calling!LoadChecksRemaining,
  Check!StoreChecksRemaining, Calling!StoreChecksRemaining, Check!Idx, Calling!Idx,
  Check!Finished, Calling!Finished, Check!Counted, Calling!Counted, Check!WaitIsOver,
  Calling!WaitIsOver, Check!Judge, Calling!Judge, Check!OuterX, Calling!OuterX,
  Check!FiltersOf, Calling!FiltersOf, Check!Tally, Calling!Tally, Check!Survival,
  Calling!Survival, Check!Incremented, Calling!Incremented, Check!Decremented,
  Calling!Decremented, Check!AppendIsAlone, Calling!AppendIsAlone, Check!AllFiltered,
  Calling!AllFiltered, Check!FailCauses, Calling!FailCauses, Check!Rest, Calling!Rest,
  Check!AtRest, Calling!AtRest, Check!Ended, Calling!Ended, Check!vars, Calling!vars,
  Check!callVars, Calling!callVars

Kind == [WebClient: BOOLEAN, rejects: {Rejects[url] : url \in Urls}, Filters: Seq(Filter)]

LEMMA CallingAssumption ==
  /\ SettingsSpace \subseteq Calling!SettingsBase
  /\ Docs \subseteq Calling!Doc
<1>1. Calling!Filter = Filter
  BY DEF Filter, Calling!Filter
<1>2. \A kind \in Kind : kind \in Calling!Server
  <2> SUFFICES ASSUME NEW kind \in Kind PROVE kind \in Calling!Server
    OBVIOUS
  <2>1. kind.rejects \in SUBSET Ips
    BY CallsAssumption DEF Kind
  <2> QED BY <1>1, <2>1 DEF Kind, Calling!Server
<1>3. Seq(Kind) \subseteq Seq(Calling!Server)
  BY <1>2
<1>4. SettingsSpace \subseteq Calling!SettingsBase
  BY <1>3 DEF SettingsSpace, Kind, Calling!SettingsBase
<1> QED BY <1>4, CallsAssumption DEF Doc, Calling!Doc

\* Every answer is in time, and a request can be made of every address.
Gentle == Prompt /\ \A url \in Urls : Rejects[url] = {}

LEMMA CallsAreGentle == Gentle => Calling!Gentle
<1> SUFFICES ASSUME Gentle, NEW S \in SettingsSpace, NEW s \in DOMAIN S.Servers
             PROVE  S.Servers[s].rejects = {}
  BY DEF Gentle, Calling!Gentle
<1>1. S.Servers \in Seq(Kind)
  BY DEF SettingsSpace, Kind
<1>2. S.Servers[s] \in Kind
  BY <1>1
<1> QED BY <1>2 DEF Gentle, Kind

LEMMA InitCalling == (Calling!Init => Calling!Judged)'
<1>1. Calling!Init => Calling!Judged
  BY Calling!InitJudged, CallingAssumption, CallsAssumption, TextAssumption
<1> QED BY <1>1, PTL

LEMMA NextCalling ==
  ASSUME Gentle, Calling!Judged, [Calling!Next]_(Calling!vars)
  PROVE  Calling!Judged'
BY Calling!NextJudged, CallsAreGentle, CallingAssumption, CallsAssumption, TextAssumption

LEMMA InForceType ==
  ASSUME TypeOK
  PROVE  InForce \in SettingsSpace /\ DOMAIN InForce.Servers = DOMAIN Servers
<1>1. Servers \in Seq(Server) /\ HasLoaded \in BOOLEAN
  BY DEF TypeOK
<1> DEFINE Seen(i) == [WebClient |-> Servers[i].WebClient, rejects |-> Rejects[Servers[i].URL],
                       Filters |-> Servers[i].Filters]
<1>2. \A i \in DOMAIN Servers : Seen(i) \in Kind
  <2> SUFFICES ASSUME NEW i \in DOMAIN Servers PROVE Seen(i) \in Kind
    OBVIOUS
  <2>1. Servers[i] \in Server
    BY <1>1
  <2> QED BY <2>1 DEF Server, Kind
<1>3. [i \in DOMAIN Servers |-> Seen(i)] \in Seq(Kind)
  <2>1. DOMAIN Servers = 1 .. Len(Servers) /\ Len(Servers) \in Nat
    BY <1>1
  <2>2. [i \in 1 .. Len(Servers) |-> Seen(i)] \in [1 .. Len(Servers) -> Kind]
    BY <1>2, <2>1
  <2> QED BY <2>1, <2>2
<1> QED BY <1>1, <1>3 DEF InForce, SettingsSpace, Kind

InForceTyped == InForce \in SettingsSpace /\ DOMAIN InForce.Servers = DOMAIN Servers

LEMMA LoadsTypeInForce == (Loads => InForceTyped)'
<1>1. Loads => InForceTyped
  BY LoadsSuffices, InForceType DEF InForceTyped
<1> QED BY <1>1, PTL

\* Until the host calls, nothing has ended the process; from then on the calls are as
\* IPCheckPrompt_proof has them.
Answers ==
  /\ callPc = <<>> => running = TRUE
  /\ callPc # <<>> => Calling!Judged

LEMMA NextAnswers ==
  ASSUME Gentle, Loads, Loads', Answers, [PluginNext]_pluginVars
  PROVE  Answers'
<1>1. CASE ReadFile \/ PathUnknown \/ Parse \/ NoObject \/ Gone \/ UNCHANGED pluginVars
  <2>1. UNCHANGED <<HasLoaded, Servers, checkVars>>
    BY <1>1 DEF ReadFile, PathUnknown, Parse, NoObject, Gone, pluginVars, loadVars, vars
  <2>2. UNCHANGED InForce
    BY <2>1 DEF InForce
  <2>3. UNCHANGED <<callPc, running, Calling!vars>>
    BY <2>1, <2>2 DEF checkVars, Calling!vars, Calling!callVars, Calling!taskVars
  <2> QED BY <2>3, NextCalling DEF Answers
<1>2. CASE LoadStep
  BY <1>2 DEF LoadStep, checkVars, Answers
<1>3. CASE Start
  <2>1. InForce' \in SettingsSpace /\ DOMAIN InForce'.Servers = DOMAIN Servers'
    BY LoadsTypeInForce DEF InForceTyped
  <2>2. UNCHANGED Servers /\ running' = TRUE
    BY <1>3 DEF Start, loadVars, vars, Answers
  <2>3. Calling!Init'
    BY <1>3, <2>1, <2>2 DEF Start, Calling!Init, Calling!Idx
  <2> QED BY <2>2, <2>3, InitCalling DEF Answers
<1>4. CASE CheckStep
  <2>1. callPc # <<>> /\ Calling!Judged /\ UNCHANGED <<HasLoaded, Servers>> /\ Calling!Next
    BY <1>4, CallingIsChecking DEF CheckStep, loadVars, vars, Answers
  <2>2. Calling!Judged'
    BY <2>1, NextCalling
  <2>3. callPc \in [Calls -> Calling!PcStates] /\ callPc' \in [Calls -> Calling!PcStates]
    BY <2>1, <2>2 DEF Calling!Judged, Calling!Awaited, Calling!Recording, Calling!Typed,
      Calling!TypeOK, Calling!CallTypes
  <2>4. callPc' # <<>>
    BY <2>1, <2>3
  <2> QED BY <2>2, <2>4 DEF Answers
<1> QED BY <1>1, <1>2, <1>3, <1>4 DEF PluginNext

LEMMA AnswersInvariance == ASSUME Gentle PROVE PluginSpec => [](Loads /\ Answers)
<1>1. PluginInit => Answers
  BY DEF PluginInit, Answers
<1>2. Loads /\ Loads' /\ Answers /\ [PluginNext]_pluginVars => Answers'
  BY NextAnswers
<1> QED BY <1>1, <1>2, LoadingInvariance, PTL DEF PluginSpec, pluginVars

\* A filter that is as the file states it, and has no empty text, is the one of the file.
LEMMA KeptOrLost ==
  ASSUME NEW filter \in Filter, NEW entry, AsStated(filter, FilterOf(entry)), ~Lost(filter)
  PROVE  filter = FilterOf(entry)
<1> DEFINE stated == FilterOf(entry)
<1>1. stated.Path = entry.path.of
  BY DEF FilterOf
<1>2. /\ stated.AllowOnly = TextsOf(entry.allow_only) /\ stated.AllowNone = TextsOf(entry.allow_none)
  BY DEF FilterOf
<1>3. filter.Path = stated.Path
  BY DEF AsStated, Converted, Lost
<1>4. filter.AllowOnly = stated.AllowOnly /\ filter.AllowNone = stated.AllowNone
  BY DEF AsStated, KeptAll, Lost
<1>5. filter = [Path |-> filter.Path, AllowOnly |-> filter.AllowOnly, AllowNone |-> filter.AllowNone]
  BY DEF Filter
<1> QED BY <1>1, <1>2, <1>3, <1>4, <1>5 DEF FilterOf

\* However many servers and filters a settings file without defects lists, however many calls
\* are made of the plugin at once, and whatever memory lacked when it was loaded, a call returns
\* true only if every one of the servers has answered it and every one of their filters permits
\* the answer, but for filters in which a text has become empty.
THEOREM AllowedAsTheFileStates == ASSUME Gentle PROVE PluginSpec => []AllowedAsStated
<1>1. Loads /\ Answers => AllowedAsStated
  <2> SUFFICES ASSUME Loads, Answers, callPc # <<>>, loaded = "true", Clean,
                      NEW c \in Calls, verdict[c] = "allow",
                      NEW s \in DOMAIN SetDoc.of
               PROVE  /\ task[c][s] = "done"
                      /\ \A f \in DOMAIN SetDoc.of[s].of.filters.of :
                           LET filter == FilterOf(SetDoc.of[s].of.filters.of[f].of)
                           IN  \/ Permits(filter, InDoc[c][s][filter.Path])
                               \/ Lost(Servers[s].Filters[f])
    BY DEF AllowedAsStated
  <2>1. s \in DOMAIN Servers /\ ServerAsStated(Servers[s], ServerOf(SetDoc.of[s].of))
    BY LoadsSuffices DEF CleanIsComplete
  <2>2. /\ DOMAIN Servers[s].Filters = DOMAIN SetDoc.of[s].of.filters.of
        /\ \A f \in DOMAIN SetDoc.of[s].of.filters.of :
             AsStated(Servers[s].Filters[f], FilterOf(SetDoc.of[s].of.filters.of[f].of))
    BY <2>1 DEF ServerAsStated, ServerOf
  <2>3. s \in Calling!Idx /\ Calling!FiltersOf(s) = Servers[s].Filters
    BY <2>1 DEF InForce, Calling!Idx, Calling!FiltersOf
  <2>4. Calling!Passed(c, s)
    BY <2>3 DEF Answers, Calling!Judged, Calling!VerdictOK
  <2>5. \A f \in DOMAIN Servers[s].Filters :
          Permits(Servers[s].Filters[f], InDoc[c][s][Servers[s].Filters[f].Path])
    BY <2>3, <2>4 DEF Calling!Passed, Calling!Denied, Calling!Permits, Permits
  <2>6. \A f \in DOMAIN Servers[s].Filters : Servers[s].Filters[f] \in Filter
    <3>1. Servers[s] \in Server
      BY <2>1, LoadsSuffices DEF TypeOK
    <3>2. Servers[s].Filters \in Seq(Filter)
      BY <3>1 DEF Server
    <3> QED BY <3>2
  <2>7. \A f \in DOMAIN Servers[s].Filters :
          \/ Servers[s].Filters[f] = FilterOf(SetDoc.of[s].of.filters.of[f].of)
          \/ Lost(Servers[s].Filters[f])
    BY <2>2, <2>6, KeptOrLost
  <2> QED BY <2>2, <2>4, <2>5, <2>7 DEF Calling!Passed
<1> QED BY <1>1, AnswersInvariance, PTL
=============================================================================
