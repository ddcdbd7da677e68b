--------------------------- MODULE Response_proof ---------------------------
(***************************************************************************)
(* Proofs about Response: nothing of a body is lost or taken for the whole *)
(* of it, for a body, chunks, blocks and reads of any sizes, and a request *)
(* is for the plugin what IPCheck takes for granted.                       *)
(***************************************************************************)
EXTENDS Response, TLAPS, WellFoundedInduction, SequenceTheorems

-----------------------------------------------------------------------------
(* Induction over natural numbers, and functions that are defined by it.   *)

Below == {ss \in Nat \X Nat : ss[1] < ss[2]}

LEMMA BelowIsWellFounded == IsWellFoundedOn(Below, Nat)
<1>1. Below = OpToRel(<, Nat)
  BY Zenon DEF Below, OpToRel
<1> QED
  BY <1>1, NatLessThanWellFounded, Zenon

LEMMA EveryNumber ==
  ASSUME NEW S, 0 \in S, \A n \in Nat : n \in S => n + 1 \in S
  PROVE  Nat \subseteq S
<1> DEFINE T == Nat \ S
<1> SUFFICES ASSUME T # {} PROVE FALSE
  OBVIOUS
<1>1. PICK x \in T : \A y \in T : ~(<<y, x>> \in Below)
  <2>1. T \subseteq Nat
    OBVIOUS
  <2> HIDE DEF T
  <2> QED
    BY <2>1, BelowIsWellFounded, WFMin
<1>2. x \in Nat /\ x # 0
  OBVIOUS
<1>3. x - 1 \in Nat /\ x - 1 < x /\ (x - 1) + 1 = x
  BY <1>2
<1>4. <<x - 1, x>> \in Below
  BY <1>2, <1>3 DEF Below
<1>5. x - 1 \in S
  BY <1>1, <1>3, <1>4
<1> QED
  BY <1>1, <1>3, <1>5

\* g is the table of the values that F makes of s, one after the other.
Table(g, m, S, s, F) ==
  g \in [0 .. m -> S] /\ g[0] = s /\ \A i \in 1 .. m : g[i] = F[<<i, g[i - 1]>>]

LEMMA TablesExist ==
  ASSUME NEW N \in Nat, NEW S, NEW s \in S, NEW F \in [(1 .. N) \X S -> S]
  PROVE  \E g : Table(g, N, S, s, F)
<1> DEFINE M == {m \in Nat : m <= N => \E g : Table(g, m, S, s, F)}
<1>1. 0 \in M
  <2>1. Table([i \in 0 .. 0 |-> s], 0, S, s, F)
    BY DEF Table
  <2> QED
    BY <2>1
<1>2. ASSUME NEW m \in Nat, m \in M PROVE m + 1 \in M
  <2> SUFFICES ASSUME m + 1 <= N PROVE \E h : Table(h, m + 1, S, s, F)
    OBVIOUS
  <2>1. PICK g : Table(g, m, S, s, F)
    BY <1>2
  <2> DEFINE h == [i \in 0 .. m + 1 |-> IF i <= m THEN g[i] ELSE F[<<m + 1, g[m]>>]]
  <2>2. h \in [0 .. m + 1 -> S]
    BY <2>1 DEF Table
  <2>3. h[0] = s /\ \A i \in 0 .. m : h[i] = g[i]
    BY <2>1 DEF Table
  <2>4. h[m + 1] = F[<<m + 1, h[m]>>]
    OBVIOUS
  <2>5. ASSUME NEW i \in 1 .. m PROVE h[i] = F[<<i, h[i - 1]>>]
    BY <2>1, <2>3 DEF Table
  <2>6. \A i \in 1 .. m + 1 : i \in 1 .. m \/ (i = m + 1 /\ i - 1 = m)
    OBVIOUS
  <2> HIDE DEF h
  <2>7. Table(h, m + 1, S, s, F)
    BY <2>2, <2>3, <2>4, <2>5, <2>6 DEF Table
  <2> QED
    BY <2>7
<1>3. N \in M
  <2> HIDE DEF M
  <2> QED
    BY <1>1, <1>2, EveryNumber
<1> QED
  BY <1>3

-----------------------------------------------------------------------------
(* What blocks hold that has not been read.                                *)

WellRead(blocks) ==
  blocks \in Seq(Block) /\ \A i \in DOMAIN blocks : blocks[i].read <= Len(blocks[i].data)

LEMMA UnreadOfBlock ==
  ASSUME NEW block \in Block
  PROVE  /\ UnreadOf(block) \in Seq(Char)
         /\ block.read <= Len(block.data) =>
              rd_chars_left(block) \in Nat /\ Len(UnreadOf(block)) = rd_chars_left(block)
<1>1. block.data \in Seq(Char) /\ block.read \in Nat /\ Len(block.data) \in Nat
  BY DEF Block
<1> QED
  BY <1>1, SubSeqProperties DEF UnreadOf, rd_chars_left

\* u is a table of what is unread in the first so many blocks.
IsUnread(u, blocks) ==
  u = [i \in 0 .. Len(blocks) |-> IF i = 0 THEN <<>> ELSE u[i - 1] \o UnreadOf(blocks[i])]

LEMMA UnreadSteps ==
  ASSUME NEW blocks \in Seq(Block), NEW u, IsUnread(u, blocks)
  PROVE  /\ u \in [0 .. Len(blocks) -> Seq(Char)]
         /\ u[0] = <<>>
         /\ \A i \in 1 .. Len(blocks) : u[i] = u[i - 1] \o UnreadOf(blocks[i])
<1> DEFINE N == Len(blocks)
<1>1. N \in Nat /\ \A i \in 1 .. N : blocks[i] \in Block
  OBVIOUS
<1>2. 0 \in 0 .. N /\ \A i \in 1 .. N : i \in 0 .. N /\ i # 0
  BY <1>1
<1>3. \A i \in 0 .. N : u[i] = IF i = 0 THEN <<>> ELSE u[i - 1] \o UnreadOf(blocks[i])
  BY Zenon DEF IsUnread
<1>4. u[0] = <<>> /\ \A i \in 1 .. N : u[i] = u[i - 1] \o UnreadOf(blocks[i])
  BY <1>2, <1>3, Zenon
<1> HIDE DEF N
<1> DEFINE M == {m \in Nat : m <= N => u[m] \in Seq(Char)}
<1>5. 0 \in M
  <2>1. u[0] \in Seq(Char)
    BY <1>4
  <2> QED
    BY <2>1
<1>6. ASSUME NEW m \in Nat, m \in M PROVE m + 1 \in M
  <2> SUFFICES ASSUME m + 1 <= N PROVE u[m + 1] \in Seq(Char)
    OBVIOUS
  <2>1. m + 1 \in 1 .. N /\ (m + 1) - 1 = m /\ u[m] \in Seq(Char)
    BY <1>1, <1>6
  <2>2. UnreadOf(blocks[m + 1]) \in Seq(Char)
    BY <1>1, <2>1, UnreadOfBlock
  <2>3. u[m + 1] = u[m] \o UnreadOf(blocks[m + 1])
    BY <1>4, <2>1
  <2> QED
    BY <2>1, <2>2, <2>3
<1>7. Nat \subseteq M
  <2> HIDE DEF M
  <2> QED
    BY <1>5, <1>6, EveryNumber
<1>8. \A m \in 0 .. N : u[m] \in Seq(Char)
  BY <1>1, <1>7
<1>9. u \in [0 .. N -> Seq(Char)]
  <2>1. u = [i \in 0 .. N |-> u[i]]
    BY DEF IsUnread, N
  <2> QED
    BY <1>8, <2>1
<1> QED
  BY <1>4, <1>9 DEF N

LEMMA UnreadTable ==
  ASSUME NEW blocks \in Seq(Block)
  PROVE  \E u \in [0 .. Len(blocks) -> Seq(Char)] :
           /\ u[0] = <<>>
           /\ \A i \in 1 .. Len(blocks) : u[i] = u[i - 1] \o UnreadOf(blocks[i])
           /\ UnreadIn(blocks) = u[Len(blocks)]
<1> DEFINE N == Len(blocks)
           F == [p \in (1 .. N) \X Seq(Char) |-> p[2] \o UnreadOf(blocks[p[1]])]
<1>1. N \in Nat /\ \A i \in 1 .. N : blocks[i] \in Block
  OBVIOUS
<1>2. F \in [(1 .. N) \X Seq(Char) -> Seq(Char)]
  <2> SUFFICES ASSUME NEW p \in (1 .. N) \X Seq(Char)
               PROVE  p[2] \o UnreadOf(blocks[p[1]]) \in Seq(Char)
    OBVIOUS
  <2>1. p[1] \in 1 .. N /\ p[2] \in Seq(Char)
    OBVIOUS
  <2>2. UnreadOf(blocks[p[1]]) \in Seq(Char)
    BY <1>1, <2>1, UnreadOfBlock
  <2> QED
    BY <2>1, <2>2
<1>3. \A i \in 1 .. N, c \in Seq(Char) : F[<<i, c>>] = c \o UnreadOf(blocks[i])
  OBVIOUS
<1>4. <<>> \in Seq(Char)
  OBVIOUS
<1> HIDE DEF F, N
<1>5. PICK g : Table(g, N, Seq(Char), <<>>, F)
  BY <1>1, <1>2, <1>4, TablesExist
<1>6. \A i \in 1 .. N : g[i] = g[i - 1] \o UnreadOf(blocks[i])
  <2>1. \A i \in 1 .. N : g[i - 1] \in Seq(Char)
    BY <1>1, <1>5 DEF Table
  <2> QED
    BY <1>3, <1>5, <2>1 DEF Table
<1>7. IsUnread(g, blocks)
  <2>1. \A i \in 0 .. N : i = 0 \/ i \in 1 .. N
    BY <1>1
  <2>2. \A i \in 0 .. N : g[i] = IF i = 0 THEN <<>> ELSE g[i - 1] \o UnreadOf(blocks[i])
    BY <1>5, <1>6, <2>1 DEF Table
  <2>3. g = [i \in 0 .. N |-> g[i]]
    BY <1>5 DEF Table
  <2> QED
    BY <2>2, <2>3 DEF IsUnread, N
<1>8. PICK u : IsUnread(u, blocks) /\ UnreadIn(blocks) = u[N]
  <2>1. UnreadIn(blocks) = (CHOOSE u : IsUnread(u, blocks))[N]
    BY DEF UnreadIn, IsUnread, N
  <2>2. IsUnread(CHOOSE u : IsUnread(u, blocks), blocks)
    BY <1>7
  <2> QED
    BY <2>1, <2>2
<1> QED
  BY <1>8, UnreadSteps DEF N

LEMMA UnreadIsText ==
  ASSUME NEW blocks \in Seq(Block)
  PROVE  UnreadIn(blocks) \in Seq(Char)
<1>1. Len(blocks) \in 0 .. Len(blocks)
  OBVIOUS
<1> QED
  BY <1>1, UnreadTable

LEMMA NothingUnread == UnreadIn(<<>>) = <<>>
<1>1. <<>> \in Seq(Block) /\ Len(<<>>) = 0
  OBVIOUS
<1> QED
  BY <1>1, UnreadTable

LEMMA UnreadAppended ==
  ASSUME NEW blocks \in Seq(Block), NEW block \in Block
  PROVE  UnreadIn(Append(blocks, block)) = UnreadIn(blocks) \o UnreadOf(block)
<1> DEFINE N == Len(blocks)
           more == Append(blocks, block)
<1>1. N \in Nat /\ more \in Seq(Block) /\ Len(more) = N + 1 /\ more[N + 1] = block
      /\ \A i \in 1 .. N : more[i] = blocks[i]
  OBVIOUS
<1> HIDE DEF more
<1>2. PICK u \in [0 .. N -> Seq(Char)] :
        /\ u[0] = <<>> /\ \A i \in 1 .. N : u[i] = u[i - 1] \o UnreadOf(blocks[i])
        /\ UnreadIn(blocks) = u[N]
  BY UnreadTable
<1>3. PICK v \in [0 .. N + 1 -> Seq(Char)] :
        /\ v[0] = <<>> /\ \A i \in 1 .. N + 1 : v[i] = v[i - 1] \o UnreadOf(more[i])
        /\ UnreadIn(more) = v[N + 1]
  BY <1>1, UnreadTable
<1> DEFINE M == {m \in Nat : m <= N => v[m] = u[m]}
<1>4. 0 \in M
  BY <1>2, <1>3
<1>5. ASSUME NEW m \in Nat, m \in M PROVE m + 1 \in M
  <2> SUFFICES ASSUME m + 1 <= N PROVE v[m + 1] = u[m + 1]
    OBVIOUS
  <2>1. m + 1 \in 1 .. N /\ m + 1 \in 1 .. N + 1 /\ (m + 1) - 1 = m /\ v[m] = u[m]
    BY <1>1, <1>5
  <2> QED
    BY <1>1, <1>2, <1>3, <2>1
<1>6. v[N] = u[N]
  <2> HIDE DEF M
  <2>1. N \in M
    BY <1>1, <1>4, <1>5, EveryNumber
  <2> QED
    BY <1>1, <2>1 DEF M
<1>7. v[N + 1] = v[N] \o UnreadOf(more[N + 1])
  <2>1. N + 1 \in 1 .. N + 1 /\ (N + 1) - 1 = N
    BY <1>1
  <2> QED
    BY <1>3, <2>1
<1> QED
  BY <1>1, <1>2, <1>3, <1>6, <1>7 DEF more

LEMMA SuffixGrows ==
  ASSUME NEW S, NEW d \in Seq(S), NEW c \in Seq(S), NEW r \in Nat, r <= Len(d)
  PROVE  SubSeq(d \o c, r + 1, Len(d) + Len(c)) = SubSeq(d, r + 1, Len(d)) \o c
<1> DEFINE m == Len(d)
           n == Len(c)
           dc == d \o c
           rest == SubSeq(d, r + 1, m)
           all == SubSeq(dc, r + 1, m + n)
<1>1. /\ m \in Nat /\ n \in Nat /\ r <= m
      /\ \A i \in 1 .. m : d[i] \in S
      /\ \A i \in 1 .. n : c[i] \in S
  OBVIOUS
<1>2. /\ dc \in Seq(S) /\ Len(dc) = m + n
      /\ \A i \in 1 .. m + n : dc[i] = IF i <= m THEN d[i] ELSE c[i - m]
  BY ConcatProperties
<1>3. /\ rest \in Seq(S) /\ Len(rest) = m - r /\ \A i \in 1 .. m - r : rest[i] = d[r + i]
  BY <1>1, SubSeqProperties
<1> HIDE DEF dc, rest, m, n
<1>4. \A i \in 1 .. m + n : dc[i] \in S
  BY <1>1, <1>2
<1>5. /\ all \in Seq(S) /\ Len(all) = m + n - r /\ \A i \in 1 .. m + n - r : all[i] = dc[r + i]
  BY <1>1, <1>4, SubSeqProperties
<1> HIDE DEF all
<1>6. /\ rest \o c \in Seq(S) /\ Len(rest \o c) = m - r + n
      /\ \A i \in 1 .. m - r + n : (rest \o c)[i] = IF i <= m - r THEN rest[i] ELSE c[i - (m - r)]
  <2>1. /\ rest \o c \in Seq(S) /\ Len(rest \o c) = Len(rest) + Len(c)
        /\ \A i \in 1 .. Len(rest) + Len(c) :
             (rest \o c)[i] = IF i <= Len(rest) THEN rest[i] ELSE c[i - Len(rest)]
    BY <1>3, ConcatProperties
  <2> QED
    BY <1>3, <2>1 DEF n
<1>7. ASSUME NEW i \in 1 .. m + n - r PROVE all[i] = (rest \o c)[i]
  <2>1. CASE i <= m - r
    <3>1. r + i <= m /\ r + i \in 1 .. m + n /\ i \in 1 .. m - r /\ i \in 1 .. m - r + n
      BY <1>1, <2>1
    <3>2. all[i] = d[r + i]
      BY <1>2, <1>5, <3>1, Zenon
    <3>3. (rest \o c)[i] = d[r + i]
      BY <1>3, <1>6, <2>1, <3>1, Zenon
    <3> QED
      BY <3>2, <3>3
  <2>2. CASE i > m - r
    <3>1. (r + i) - m = i - (m - r) /\ r + i \in 1 .. m + n /\ ~(r + i <= m) /\ i \in 1 .. m - r + n
      BY <1>1, <2>2
    <3>2. all[i] = c[(r + i) - m]
      <4>1. all[i] = dc[r + i]
        BY <1>5
      <4>2. \A j \in 1 .. m + n : ~(j <= m) => dc[j] = c[j - m]
        BY <1>2
      <4> QED
        BY <3>1, <4>1, <4>2, Zenon
    <3>3. (rest \o c)[i] = c[i - (m - r)]
      <4>1. ~(i <= m - r)
        BY <1>1, <2>2
      <4> QED
        BY <1>6, <3>1, <4>1, Zenon
    <3> QED
      BY <3>1, <3>2, <3>3
  <2>3. i <= m - r \/ i > m - r
    BY <1>1
  <2> QED
    BY <2>1, <2>2, <2>3
<1>8. all = rest \o c
  <2>1. m - r + n = m + n - r
    BY <1>1
  <2>2. Len(all) = Len(rest \o c) /\ \A i \in 1 .. Len(all) : all[i] = (rest \o c)[i]
    BY <1>5, <1>6, <1>7, <2>1
  <2> QED
    BY <1>5, <1>6, <2>2, SeqEqual
<1> QED
  BY <1>8 DEF all, rest, dc, m, n

\* A block takes more characters.
LEMMA BlockGrows ==
  ASSUME NEW block \in Block, block.read <= Len(block.data), NEW chars \in Seq(Char)
  PROVE  LET grown == [block EXCEPT !.data = @ \o chars]
         IN  /\ grown \in Block /\ grown.read <= Len(grown.data)
             /\ UnreadOf(grown) = UnreadOf(block) \o chars
             /\ rd_chars_left(grown) >= rd_chars_left(block)
<1> DEFINE grown == [block EXCEPT !.data = @ \o chars]
<1>1. /\ block.data \in Seq(Char) /\ block.read \in Nat /\ block.size \in Nat
      /\ block = [size |-> block.size, data |-> block.data, read |-> block.read]
  BY DEF Block
<1>2. block.data \o chars \in Seq(Char) /\ Len(block.data \o chars) = Len(block.data) + Len(chars)
  BY <1>1, ConcatProperties
<1>3. grown = [size |-> block.size, data |-> block.data \o chars, read |-> block.read]
  <2> DEFINE longer == block.data \o chars
  <2>1. grown = [block EXCEPT !.data = longer]
    OBVIOUS
  <2> HIDE DEF longer, grown
  <2>2. grown = [size |-> block.size, data |-> longer, read |-> block.read]
    BY <1>1, <2>1
  <2> QED
    BY <2>2 DEF longer
<1>4. grown.data = block.data \o chars /\ grown.read = block.read
  BY <1>3
<1>5. grown \in Block
  BY <1>1, <1>2, <1>3 DEF Block
<1> HIDE DEF grown
<1>6. Len(block.data) \in Nat /\ Len(chars) \in Nat
  BY <1>1
<1>7. UnreadOf(grown) = UnreadOf(block) \o chars
  BY <1>1, <1>2, <1>4, SuffixGrows DEF UnreadOf
<1>8. grown.read <= Len(grown.data)
  BY <1>1, <1>2, <1>4, <1>6
<1>9. rd_chars_left(grown) >= rd_chars_left(block)
  BY <1>1, <1>2, <1>4, <1>6 DEF rd_chars_left
<1> QED
  BY <1>5, <1>7, <1>8, <1>9 DEF grown

\* The last block takes more characters.
LEMMA UnreadGrows ==
  ASSUME NEW blocks \in Seq(Block), WellRead(blocks), blocks # <<>>, NEW chars \in Seq(Char)
  PROVE  LET more == [blocks EXCEPT ![Len(blocks)].data = @ \o chars]
         IN  /\ WellRead(more) /\ UnreadIn(more) = UnreadIn(blocks) \o chars
             /\ rd_chars_left(blocks[1]) > 0 => rd_chars_left(more[1]) > 0
<1> DEFINE N == Len(blocks)
           last == blocks[N]
           grown == [last EXCEPT !.data = @ \o chars]
           more == [blocks EXCEPT ![N].data = @ \o chars]
           front == SubSeq(blocks, 1, N - 1)
<1>1. N \in Nat /\ N >= 1 /\ \A i \in 1 .. N : blocks[i] \in Block
  OBVIOUS
<1>2. last \in Block /\ last.read <= Len(last.data)
  BY <1>1 DEF WellRead
<1> HIDE DEF last
<1>3. /\ grown \in Block /\ grown.read <= Len(grown.data)
      /\ UnreadOf(grown) = UnreadOf(last) \o chars
      /\ rd_chars_left(grown) >= rd_chars_left(last)
  BY <1>2, BlockGrows
<1>4. /\ more \in Seq(Block) /\ Len(more) = N
      /\ \A i \in 1 .. N : more[i] = IF i = N THEN grown ELSE blocks[i]
  <2>1. more = [i \in 1 .. N |-> IF i = N THEN grown ELSE blocks[i]]
    <3>1. N \in DOMAIN blocks /\ DOMAIN blocks = 1 .. N
      BY <1>1
    <3>2. more = [blocks EXCEPT ![N] = grown]
      BY <3>1 DEF last
    <3> HIDE DEF more, grown
    <3> QED
      BY <3>1, <3>2
  <2> HIDE DEF more, grown
  <2>2. \A i \in 1 .. N : more[i] \in Block
    BY <1>1, <1>3, <2>1
  <2> QED
    BY <1>1, <2>1, <2>2
<1> HIDE DEF grown, last, more, N
<1>5. WellRead(more)
  <2>1. DOMAIN more = 1 .. N /\ \A i \in 1 .. N : blocks[i].read <= Len(blocks[i].data)
    BY <1>1, <1>4 DEF WellRead, N
  <2> QED
    BY <1>3, <1>4, <2>1 DEF WellRead
<1>6. front \in Seq(Block) /\ Len(front) = N - 1 /\ \A i \in 1 .. N - 1 : front[i] = blocks[i]
  BY <1>1, SubSeqProperties
<1> HIDE DEF front
<1>7. blocks = Append(front, last)
  <2>1. Append(front, last) \in Seq(Block) /\ Len(Append(front, last)) = N
        /\ \A i \in 1 .. N : Append(front, last)[i] = blocks[i]
    BY <1>1, <1>2, <1>6 DEF last
  <2> QED
    BY <1>1, <2>1, SeqEqual DEF N
<1>8. more = Append(front, grown)
  <2>1. Append(front, grown) \in Seq(Block) /\ Len(Append(front, grown)) = N
        /\ Append(front, grown)[N] = grown
        /\ \A i \in 1 .. N - 1 : Append(front, grown)[i] = blocks[i]
    BY <1>1, <1>3, <1>6
  <2>2. ASSUME NEW i \in 1 .. N PROVE Append(front, grown)[i] = more[i]
    <3>1. CASE i = N
      BY <1>4, <2>1, <3>1
    <3>2. CASE i # N
      <4>1. i \in 1 .. N - 1
        BY <1>1, <3>2
      <4> QED
        BY <1>4, <2>1, <3>2, <4>1
    <3> QED
      BY <3>1, <3>2
  <2> QED
    BY <1>1, <1>4, <2>1, <2>2, SeqEqual
<1>9. UnreadIn(front) \in Seq(Char) /\ UnreadOf(last) \in Seq(Char)
  BY <1>2, <1>6, UnreadIsText, UnreadOfBlock
<1>10. UnreadIn(more) = (UnreadIn(front) \o UnreadOf(last)) \o chars
  <2>1. UnreadIn(more) = UnreadIn(front) \o (UnreadOf(last) \o chars)
    BY <1>3, <1>6, <1>8, UnreadAppended
  <2> QED
    BY <1>9, <2>1, ConcatAssociative
<1>11. rd_chars_left(blocks[1]) > 0 => rd_chars_left(more[1]) > 0
  <2>1. CASE N = 1
    <3>1. more[1] = grown /\ blocks[1] = last
      BY <1>4, <2>1 DEF last
    <3>2. rd_chars_left(grown) \in Int /\ rd_chars_left(last) \in Int
      BY <1>2, <1>3, UnreadOfBlock
    <3> QED
      BY <1>3, <3>1, <3>2
  <2>2. CASE N # 1
    BY <1>1, <1>4, <2>2
  <2> QED
    BY <2>1, <2>2
<1> QED
  BY <1>2, <1>5, <1>6, <1>7, <1>10, <1>11, UnreadAppended DEF more, N

\* What is dropped has been read, and what stays begins with a block that has not.
LEMMA Purged ==
  ASSUME NEW blocks, WellRead(blocks)
  PROVE  /\ WellRead(Purge(blocks))
         /\ UnreadIn(Purge(blocks)) = UnreadIn(blocks)
         /\ Purge(blocks) # <<>> => rd_chars_left(Purge(blocks)[1]) > 0
<1> DEFINE N == Len(blocks)
           unread == {i \in DOMAIN blocks : rd_chars_left(blocks[i]) > 0}
<1>1. blocks \in Seq(Block) /\ N \in Nat /\ DOMAIN blocks = 1 .. N
      /\ \A i \in 1 .. N : blocks[i] \in Block /\ blocks[i].read <= Len(blocks[i].data)
  BY DEF WellRead
<1>2. PICK u \in [0 .. N -> Seq(Char)] :
        /\ u[0] = <<>> /\ \A i \in 1 .. N : u[i] = u[i - 1] \o UnreadOf(blocks[i])
        /\ UnreadIn(blocks) = u[N]
  BY <1>1, UnreadTable
<1>3. ASSUME NEW k \in 0 .. N, \A i \in 1 .. k : i \notin unread
      PROVE  u[k] = <<>>
  <2> DEFINE M == {m \in Nat : m <= k => u[m] = <<>>}
  <2>1. 0 \in M
    BY <1>2
  <2>2. ASSUME NEW m \in Nat, m \in M PROVE m + 1 \in M
    <3> SUFFICES ASSUME m + 1 <= k PROVE u[m + 1] = <<>>
      OBVIOUS
    <3>1. m + 1 \in 1 .. N /\ m + 1 \in 1 .. k /\ (m + 1) - 1 = m /\ u[m] = <<>>
      BY <1>1, <2>2
    <3>2. UnreadOf(blocks[m + 1]) \in Seq(Char) /\ Len(UnreadOf(blocks[m + 1])) = 0
      <4>1. ~(rd_chars_left(blocks[m + 1]) > 0)
        BY <1>1, <1>3, <3>1
      <4> QED
        BY <1>1, <3>1, <4>1, UnreadOfBlock
    <3>3. UnreadOf(blocks[m + 1]) = <<>>
      BY <3>2, EmptySeq
    <3>4. u[m + 1] = <<>> \o <<>>
      BY <1>2, <3>1, <3>3
    <3> QED
      BY <3>4
  <2>3. k \in M
    <3> HIDE DEF M
    <3> QED
      BY <2>1, <2>2, EveryNumber
  <2> QED
    BY <2>3
<1>4. CASE unread = {}
  <2>1. Purge(blocks) = <<>>
    BY <1>4 DEF Purge
  <2>2. UnreadIn(blocks) = <<>>
    <3>1. N \in 0 .. N /\ \A i \in 1 .. N : i \notin unread
      BY <1>1, <1>4
    <3> QED
      BY <1>2, <1>3, <3>1
  <2>3. WellRead(<<>>)
    BY DEF WellRead
  <2> QED
    BY <2>1, <2>2, <2>3, NothingUnread
<1>5. CASE unread # {}
  <2> DEFINE k == CHOOSE i \in unread : \A j \in unread : i <= j
             rest == SubSeq(blocks, k, N)
  <2>1. k \in unread /\ \A j \in unread : k <= j
    <3>1. unread \subseteq Nat /\ unread # {}
      BY <1>1, <1>5
    <3> HIDE DEF unread
    <3>2. PICK i \in unread : \A j \in unread : ~(<<j, i>> \in Below)
      BY <3>1, BelowIsWellFounded, WFMin
    <3>3. \A j \in unread : i <= j
      BY <3>1, <3>2 DEF Below
    <3> QED
      BY <3>2, <3>3
  <2>2. Purge(blocks) = rest
    BY <1>5 DEF Purge
  <2> HIDE DEF k
  <2>3. k \in 1 .. N /\ \A i \in 1 .. k - 1 : i \notin unread
    BY <1>1, <2>1
  <2>4. /\ rest \in Seq(Block) /\ Len(rest) = N - k + 1
        /\ \A i \in 1 .. N - k + 1 : rest[i] = blocks[k - 1 + i]
    BY <1>1, <2>3, SubSeqProperties
  <2> HIDE DEF rest
  <2>5. WellRead(rest)
    <3>1. \A i \in 1 .. N - k + 1 : k - 1 + i \in 1 .. N
      BY <1>1, <2>3
    <3>2. DOMAIN rest = 1 .. N - k + 1
      BY <2>4
    <3> QED
      BY <1>1, <2>4, <3>1, <3>2 DEF WellRead
  <2>6. PICK v \in [0 .. N - k + 1 -> Seq(Char)] :
          /\ v[0] = <<>> /\ \A i \in 1 .. N - k + 1 : v[i] = v[i - 1] \o UnreadOf(rest[i])
          /\ UnreadIn(rest) = v[N - k + 1]
    BY <2>4, UnreadTable
  <2> DEFINE M == {m \in Nat : m <= N - k + 1 => v[m] = u[k - 1 + m]}
  <2>7. 0 \in M
    <3>1. u[k - 1] = <<>>
      BY <1>1, <1>3, <2>3
    <3>2. k - 1 + 0 = k - 1
      BY <1>1, <2>3
    <3> QED
      BY <2>6, <3>1, <3>2
  <2>8. ASSUME NEW m \in Nat, m \in M PROVE m + 1 \in M
    <3> SUFFICES ASSUME m + 1 <= N - k + 1 PROVE v[m + 1] = u[k - 1 + (m + 1)]
      OBVIOUS
    <3>1. /\ m + 1 \in 1 .. N - k + 1 /\ (m + 1) - 1 = m
          /\ k - 1 + (m + 1) \in 1 .. N /\ (k - 1 + (m + 1)) - 1 = k - 1 + m
          /\ v[m] = u[k - 1 + m]
      BY <1>1, <2>3, <2>8
    <3>2. v[m + 1] = v[m] \o UnreadOf(rest[m + 1])
      BY <2>6, <3>1
    <3>3. u[k - 1 + (m + 1)] = u[k - 1 + m] \o UnreadOf(blocks[k - 1 + (m + 1)])
      BY <1>2, <3>1
    <3> QED
      BY <2>4, <3>1, <3>2, <3>3
  <2>9. UnreadIn(rest) = UnreadIn(blocks)
    <3>1. N - k + 1 \in Nat /\ k - 1 + (N - k + 1) = N
      BY <1>1, <2>3
    <3>2. N - k + 1 \in M
      <4> HIDE DEF M
      <4> QED
        BY <2>7, <2>8, <3>1, EveryNumber
    <3> QED
      BY <1>2, <2>6, <3>1, <3>2
  <2>10. rd_chars_left(rest[1]) > 0
    <3>1. 1 \in 1 .. N - k + 1 /\ k - 1 + 1 = k
      BY <1>1, <2>3
    <3> QED
      BY <2>1, <2>4, <3>1
  <2> QED
    BY <2>2, <2>5, <2>9, <2>10
<1> QED
  BY <1>4, <1>5

-----------------------------------------------------------------------------
(* Reading.                                                                *)

\* What a reader has after some of the blocks: as much as it wants of them, or all.
Reading(count) ==
  {r \in [wanted: Nat, chars: Seq(Char), blocks: Seq(Block)] :
     /\ WellRead(r.blocks)
     /\ r.wanted > 0 => UnreadIn(r.blocks) = <<>>
     /\ Len(r.chars) + r.wanted = count}

LEMMA BlockIsRead ==
  ASSUME NEW count \in Nat, NEW sofar \in Reading(count),
         NEW block \in Block, block.read <= Len(block.data)
  PROVE  LET r == ReadBlock(sofar, block)
         IN  /\ r \in Reading(count)
             /\ r.chars \o UnreadIn(r.blocks)
                  = (sofar.chars \o UnreadIn(sofar.blocks)) \o UnreadOf(block)
<1> DEFINE w == sofar.wanted
           c == sofar.chars
           bs == sofar.blocks
           left == rd_chars_left(block)
           n == Least(left, w)
           d == block.data
           h == block.read
           taken == SubSeq(d, h + 1, h + n)
           after == [block EXCEPT !.read = @ + n]
           U == UnreadIn(bs)
           rest == UnreadOf(after)
           r == ReadBlock(sofar, block)
<1>1. /\ w \in Nat /\ c \in Seq(Char) /\ WellRead(bs) /\ bs \in Seq(Block)
      /\ w > 0 => U = <<>>
      /\ Len(c) + w = count
  BY DEF Reading, WellRead
<1>2. d \in Seq(Char) /\ Len(d) \in Nat /\ h \in Nat /\ h <= Len(d) /\ left = Len(d) - h
      /\ block = [size |-> block.size, data |-> d, read |-> h] /\ block.size \in Nat
  BY DEF Block, rd_chars_left
<1>3. r = [wanted |-> w - n, chars |-> c \o taken, blocks |-> Append(bs, after)]
  BY DEF ReadBlock
<1>4. n \in Nat /\ n <= left /\ n <= w /\ (n = left \/ n = w) /\ w - n \in Nat
  <2> HIDE DEF w, left
  <2> QED
    BY <1>1, <1>2 DEF Least
<1> HIDE DEF n, left
<1>5. after = [size |-> block.size, data |-> d, read |-> h + n]
  <2>1. after = [block EXCEPT !.read = h + n]
    OBVIOUS
  <2> HIDE DEF after, d, h
  <2> QED
    BY <1>2, <2>1
<1>6. after \in Block /\ after.read <= Len(after.data)
  BY <1>2, <1>4, <1>5 DEF Block
<1>7. rest = SubSeq(d, (h + n) + 1, Len(d))
  BY <1>5 DEF UnreadOf
<1>8. U \in Seq(Char) /\ rest \in Seq(Char) /\ UnreadOf(block) \in Seq(Char)
  BY <1>1, <1>6, UnreadIsText, UnreadOfBlock
<1> HIDE DEF after, w, c, bs, d, h
<1>9. taken \in Seq(Char) /\ Len(taken) = n
  BY <1>2, <1>4, SubSeqProperties
<1>10. taken \o rest = UnreadOf(block)
  <2>1. h + 1 \in 1 .. Len(d) + 1 /\ h + n \in (h + 1) - 1 .. Len(d) /\ Len(d) \in h + n .. Len(d)
    BY <1>2, <1>4
  <2>2. SubSeq(d, h + 1, h + n) \o SubSeq(d, (h + n) + 1, Len(d)) = SubSeq(d, h + 1, Len(d))
    BY <1>2, <2>1, ConcatAdjacentSubSeq
  <2> QED
    BY <1>7, <2>2 DEF UnreadOf, d, h
<1>11. w - n > 0 => rest = <<>>
  <2> SUFFICES ASSUME w - n > 0 PROVE rest = <<>>
    OBVIOUS
  <2>1. Len(d) < (h + n) + 1
    BY <1>1, <1>2, <1>4
  <2> QED
    BY <1>2, <1>4, <1>7, <2>1, SubSeqEmpty
<1> HIDE DEF taken, rest, U
<1>12. UnreadIn(Append(bs, after)) = U \o rest
  BY <1>1, <1>6, UnreadAppended DEF U, rest
<1>13. WellRead(Append(bs, after))
  <2>1. /\ Append(bs, after) \in Seq(Block) /\ Len(Append(bs, after)) = Len(bs) + 1
        /\ Len(bs) \in Nat /\ DOMAIN bs = 1 .. Len(bs)
        /\ DOMAIN Append(bs, after) = 1 .. Len(bs) + 1
        /\ \A i \in 1 .. Len(bs) : Append(bs, after)[i] = bs[i]
        /\ Append(bs, after)[Len(bs) + 1] = after
    BY <1>1, <1>6
  <2>2. ASSUME NEW i \in 1 .. Len(bs) + 1
        PROVE  Append(bs, after)[i].read <= Len(Append(bs, after)[i].data)
    <3>1. i = Len(bs) + 1 \/ i \in 1 .. Len(bs)
      BY <2>1
    <3> QED
      BY <1>1, <1>6, <2>1, <3>1 DEF WellRead
  <2> QED
    BY <2>1, <2>2 DEF WellRead
<1>14. w - n > 0 => U \o rest = <<>>
  <2> SUFFICES ASSUME w - n > 0 PROVE U \o rest = <<>>
    OBVIOUS
  <2>1. U = <<>> /\ rest = <<>>
    BY <1>1, <1>4, <1>11
  <2>2. <<>> \o <<>> = <<>>
    OBVIOUS
  <2> QED
    BY <2>1, <2>2, Zenon
<1>15. c \o taken \in Seq(Char) /\ Len(c \o taken) = Len(c) + n
  BY <1>1, <1>9, ConcatProperties
<1>16. r \in Reading(count)
  <2>1. Len(c \o taken) + (w - n) = count
    <3>1. Len(c) \in Nat
      BY <1>1
    <3> QED
      BY <1>1, <1>4, <1>15, <3>1
  <2>2. Append(bs, after) \in Seq(Block)
    BY <1>13 DEF WellRead
  <2> HIDE DEF r
  <2>3. r \in [wanted: Nat, chars: Seq(Char), blocks: Seq(Block)]
    BY <1>3, <1>4, <1>15, <2>2
  <2>4. r.wanted = w - n /\ r.chars = c \o taken /\ r.blocks = Append(bs, after)
    BY <1>3
  <2> QED
    BY <1>12, <1>13, <1>14, <2>1, <2>3, <2>4 DEF Reading
<1>17. (c \o taken) \o (U \o rest) = (c \o U) \o UnreadOf(block)
  <2>1. CASE w = 0
    <3>1. n = 0
      BY <1>4, <2>1
    <3>2. taken = <<>>
      BY <1>9, <3>1, EmptySeq
    <3>3. rest = UnreadOf(block)
      BY <1>8, <1>10, <3>2, ConcatEmptySeq
    <3>4. c \o taken = c
      BY <1>1, <3>2, ConcatEmptySeq
    <3>5. (c \o U) \o rest = c \o (U \o rest)
      <4>1. c \in Seq(Char) /\ U \in Seq(Char) /\ rest \in Seq(Char)
        BY <1>1, <1>8
      <4> QED
        BY <4>1, ConcatAssociative
    <3> QED
      BY <3>3, <3>4, <3>5
  <2>2. CASE w > 0
    <3>1. U = <<>>
      BY <1>1, <2>2
    <3>2. U \o rest = rest /\ c \o U = c
      BY <1>1, <1>8, <3>1, ConcatEmptySeq
    <3>3. (c \o taken) \o rest = c \o (taken \o rest)
      <4>1. c \in Seq(Char) /\ taken \in Seq(Char) /\ rest \in Seq(Char)
        BY <1>1, <1>8, <1>9
      <4> QED
        BY <4>1, ConcatAssociative
    <3> QED
      BY <1>10, <3>2, <3>3
  <2>3. w = 0 \/ w > 0
    BY <1>1
  <2> QED
    BY <2>1, <2>2, <2>3
<1>18. r.chars = c \o taken /\ r.blocks = Append(bs, after)
  <2> HIDE DEF r
  <2> QED
    BY <1>3
<1> HIDE DEF r
<1>19. r.chars \o UnreadIn(r.blocks) = (c \o U) \o UnreadOf(block)
  BY <1>12, <1>17, <1>18
<1> QED
  BY <1>16, <1>19 DEF r, c, U, bs

\* r is a table of what a reader has after the first so many blocks.
IsRead(r, blocks, count) ==
  r = [i \in 0 .. Len(blocks) |->
         IF i = 0 THEN [wanted |-> count, chars |-> <<>>, blocks |-> <<>>]
         ELSE ReadBlock(r[i - 1], blocks[i])]

LEMMA BlocksAreRead ==
  ASSUME NEW count \in Nat, NEW blocks, WellRead(blocks)
  PROVE  LET r == ReadBlocks(blocks, count)
         IN  r \in Reading(count) /\ r.chars \o UnreadIn(r.blocks) = UnreadIn(blocks)
<1> DEFINE N == Len(blocks)
           S == Reading(count)
           start == [wanted |-> count, chars |-> <<>>, blocks |-> <<>>]
           F == [p \in (1 .. N) \X S |-> ReadBlock(p[2], blocks[p[1]])]
<1>1. /\ blocks \in Seq(Block) /\ N \in Nat
      /\ \A i \in 1 .. N : blocks[i] \in Block /\ blocks[i].read <= Len(blocks[i].data)
  BY DEF WellRead
<1>2. start \in S /\ start.chars = <<>> /\ start.blocks = <<>>
  <2>1. WellRead(<<>>)
    BY DEF WellRead
  <2>2. start \in [wanted: Nat, chars: Seq(Char), blocks: Seq(Block)]
    OBVIOUS
  <2> QED
    BY <2>1, <2>2, NothingUnread DEF Reading
<1> HIDE DEF S, start
<1>3. \A i \in 1 .. N, c \in S : ReadBlock(c, blocks[i]) \in S
  BY <1>1, BlockIsRead DEF S
<1>4. F \in [(1 .. N) \X S -> S] /\ \A i \in 1 .. N, c \in S : F[<<i, c>>] = ReadBlock(c, blocks[i])
  <2> HIDE DEF N
  <2> QED
    BY <1>3
<1> HIDE DEF N, F
<1>5. PICK g : Table(g, N, S, start, F)
  BY <1>1, <1>2, <1>4, TablesExist
<1>6. IsRead(g, blocks, count)
  <2>1. \A i \in 0 .. N : i = 0 \/ i \in 1 .. N
    BY <1>1
  <2>2. \A i \in 1 .. N : g[i - 1] \in S
    BY <1>1, <1>5 DEF Table
  <2>3. \A i \in 0 .. N : g[i] = IF i = 0 THEN start ELSE ReadBlock(g[i - 1], blocks[i])
    BY <1>4, <1>5, <2>1, <2>2 DEF Table
  <2>4. g = [i \in 0 .. N |-> g[i]]
    BY <1>5 DEF Table
  <2> QED
    BY <2>3, <2>4 DEF IsRead, N, start
<1>7. PICK r : IsRead(r, blocks, count) /\ ReadBlocks(blocks, count) = r[N]
  <2>1. ReadBlocks(blocks, count) = (CHOOSE r : IsRead(r, blocks, count))[N]
    BY DEF ReadBlocks, IsRead, N
  <2>2. IsRead(CHOOSE r : IsRead(r, blocks, count), blocks, count)
    BY <1>6
  <2> QED
    BY <2>1, <2>2
<1>8. r[0] = start /\ \A i \in 1 .. N : r[i] = ReadBlock(r[i - 1], blocks[i])
  <2>1. 0 \in 0 .. N /\ \A i \in 1 .. N : i \in 0 .. N /\ i # 0
    BY <1>1
  <2>2. \A i \in 0 .. N : r[i] = IF i = 0 THEN start ELSE ReadBlock(r[i - 1], blocks[i])
    BY <1>7, Zenon DEF IsRead, N, start
  <2> QED
    BY <2>1, <2>2, Zenon
<1>9. PICK u \in [0 .. N -> Seq(Char)] :
        /\ u[0] = <<>> /\ \A i \in 1 .. N : u[i] = u[i - 1] \o UnreadOf(blocks[i])
        /\ UnreadIn(blocks) = u[N]
  BY <1>1, UnreadTable DEF N
<1> DEFINE Right(m) == r[m] \in S /\ r[m].chars \o UnreadIn(r[m].blocks) = u[m]
           M == {m \in Nat : m <= N => Right(m)}
<1>10. 0 \in M
  <2>1. <<>> \o <<>> = <<>>
    OBVIOUS
  <2> QED
    BY <1>2, <1>8, <1>9, <2>1, NothingUnread
<1>11. ASSUME NEW m \in Nat, m \in M PROVE m + 1 \in M
  <2> SUFFICES ASSUME m + 1 <= N
               PROVE  Right(m + 1)
    <3> HIDE DEF Right
    <3> QED
      OBVIOUS
  <2>1. m + 1 \in 1 .. N /\ (m + 1) - 1 = m /\ Right(m)
    <3> HIDE DEF Right
    <3> QED
      BY <1>1, <1>11
  <2>2. r[m + 1] = ReadBlock(r[m], blocks[m + 1]) /\ u[m + 1] = u[m] \o UnreadOf(blocks[m + 1])
    BY <1>8, <1>9, <2>1
  <2> QED
    <3>1. /\ ReadBlock(r[m], blocks[m + 1]) \in Reading(count)
          /\ ReadBlock(r[m], blocks[m + 1]).chars \o UnreadIn(ReadBlock(r[m], blocks[m + 1]).blocks)
               = (r[m].chars \o UnreadIn(r[m].blocks)) \o UnreadOf(blocks[m + 1])
      BY <1>1, <2>1, BlockIsRead DEF S
    <3> QED
      BY <2>1, <2>2, <3>1 DEF S
<1>12. N \in M
  <2> HIDE DEF M
  <2> QED
    BY <1>1, <1>10, <1>11, EveryNumber
<1>13. Right(N)
  <2> HIDE DEF Right
  <2> QED
    BY <1>1, <1>12
<1> QED
  BY <1>7, <1>9, <1>13 DEF S

-----------------------------------------------------------------------------
(* The buffer.                                                             *)

Good(b) ==
  /\ b \in Buffer
  /\ WellRead(b.m_blocks)
  /\ b.m_total = Len(Unread(b))
  /\ b.m_synced <= b.m_total
  /\ b.m_blocks # <<>> => rd_chars_left(b.m_blocks[1]) > 0

\* A record of a buffer is what its fields are.
LEMMA Fields ==
  ASSUME NEW b \in Buffer
  PROVE  /\ b = [m_blocks |-> b.m_blocks, m_total |-> b.m_total, m_total_read |-> b.m_total_read,
                 m_total_written |-> b.m_total_written, m_synced |-> b.m_synced,
                 m_requests |-> b.m_requests, m_stream_can_write |-> b.m_stream_can_write,
                 m_currentException |-> b.m_currentException]
         /\ b.m_blocks \in Seq(Block) /\ b.m_total \in Nat /\ b.m_total_read \in Nat
         /\ b.m_total_written \in Nat /\ b.m_synced \in Nat /\ b.m_requests \in Seq(Nat)
         /\ b.m_stream_can_write \in BOOLEAN /\ b.m_currentException \in BOOLEAN
BY DEF Buffer

WithRead(b, blocks, total, total_read, synced) ==
  [b EXCEPT !.m_blocks = blocks, !.m_total = total, !.m_total_read = total_read,
            !.m_synced = synced]

LEMMA FieldsOfRead ==
  ASSUME NEW b \in Buffer, NEW blocks, NEW total, NEW total_read, NEW synced
  PROVE  WithRead(b, blocks, total, total_read, synced)
           = [m_blocks |-> blocks, m_total |-> total,
              m_total_read |-> total_read,
              m_total_written |-> b.m_total_written, m_synced |-> synced,
              m_requests |-> b.m_requests,
              m_stream_can_write |-> b.m_stream_can_write,
              m_currentException |-> b.m_currentException]
<1> DEFINE b1 == [b EXCEPT !.m_blocks = blocks]
           b2 == [b1 EXCEPT !.m_total = total]
           b3 == [b2 EXCEPT !.m_total_read = total_read]
           b4 == [b3 EXCEPT !.m_synced = synced]
<1>1. WithRead(b, blocks, total, total_read, synced) = b4
  BY DEF WithRead
<1>2. b1 = [m_blocks |-> blocks, m_total |-> b.m_total,
               m_total_read |-> b.m_total_read,
               m_total_written |-> b.m_total_written,
               m_synced |-> b.m_synced, m_requests |-> b.m_requests,
               m_stream_can_write |-> b.m_stream_can_write,
               m_currentException |-> b.m_currentException]
  BY Fields
<1> HIDE DEF b1
<1>3. b2 = [m_blocks |-> blocks, m_total |-> total,
               m_total_read |-> b.m_total_read,
               m_total_written |-> b.m_total_written,
               m_synced |-> b.m_synced, m_requests |-> b.m_requests,
               m_stream_can_write |-> b.m_stream_can_write,
               m_currentException |-> b.m_currentException]
  BY <1>2
<1> HIDE DEF b2
<1>4. b3 = [m_blocks |-> blocks, m_total |-> total,
               m_total_read |-> total_read,
               m_total_written |-> b.m_total_written,
               m_synced |-> b.m_synced, m_requests |-> b.m_requests,
               m_stream_can_write |-> b.m_stream_can_write,
               m_currentException |-> b.m_currentException]
  BY <1>3
<1> HIDE DEF b3
<1>5. b4 = [m_blocks |-> blocks, m_total |-> total,
               m_total_read |-> total_read,
               m_total_written |-> b.m_total_written, m_synced |-> synced,
               m_requests |-> b.m_requests,
               m_stream_can_write |-> b.m_stream_can_write,
               m_currentException |-> b.m_currentException]
  BY <1>4
<1> HIDE DEF b4
<1> QED
  BY <1>1, <1>5 DEF b1, b2, b3, b4

LEMMA FieldsOfGrown ==
  ASSUME NEW b \in Buffer, NEW blocks, NEW total, NEW total_written
  PROVE  [b EXCEPT !.m_blocks = blocks, !.m_total = total,
                    !.m_total_written = total_written]
           = [m_blocks |-> blocks, m_total |-> total,
              m_total_read |-> b.m_total_read,
              m_total_written |-> total_written, m_synced |-> b.m_synced,
              m_requests |-> b.m_requests,
              m_stream_can_write |-> b.m_stream_can_write,
              m_currentException |-> b.m_currentException]
<1> DEFINE b1 == [b EXCEPT !.m_blocks = blocks]
           b2 == [b1 EXCEPT !.m_total = total]
           b3 == [b2 EXCEPT !.m_total_written = total_written]
<1>1. [b EXCEPT !.m_blocks = blocks, !.m_total = total,
                 !.m_total_written = total_written] = b3
  OBVIOUS
<1>2. b1 = [m_blocks |-> blocks, m_total |-> b.m_total,
               m_total_read |-> b.m_total_read,
               m_total_written |-> b.m_total_written,
               m_synced |-> b.m_synced, m_requests |-> b.m_requests,
               m_stream_can_write |-> b.m_stream_can_write,
               m_currentException |-> b.m_currentException]
  BY Fields
<1> HIDE DEF b1
<1>3. b2 = [m_blocks |-> blocks, m_total |-> total,
               m_total_read |-> b.m_total_read,
               m_total_written |-> b.m_total_written,
               m_synced |-> b.m_synced, m_requests |-> b.m_requests,
               m_stream_can_write |-> b.m_stream_can_write,
               m_currentException |-> b.m_currentException]
  BY <1>2
<1> HIDE DEF b2
<1>4. b3 = [m_blocks |-> blocks, m_total |-> total,
               m_total_read |-> b.m_total_read,
               m_total_written |-> total_written, m_synced |-> b.m_synced,
               m_requests |-> b.m_requests,
               m_stream_can_write |-> b.m_stream_can_write,
               m_currentException |-> b.m_currentException]
  BY <1>3
<1> HIDE DEF b3
<1> QED
  BY <1>1, <1>4 DEF b1, b2, b3

\* A buffer of which count characters, or all, have been read.
Reads(b, count, after, chars) ==
  /\ Good(after)
  /\ chars \in Seq(Char)
  /\ chars \o Unread(after) = Unread(b)
  /\ Len(chars) = Least(count, b.m_total)
  /\ after.m_total = b.m_total - Len(chars)
  /\ after.m_total_read = b.m_total_read + Len(chars)
  /\ after.m_total_written = b.m_total_written
  /\ after.m_requests = b.m_requests
  /\ after.m_stream_can_write = b.m_stream_can_write
  /\ after.m_currentException = b.m_currentException

LEMMA ReadReads ==
  ASSUME NEW b, Good(b), NEW count \in Nat
  PROVE  Reads(b, count, read(b, count).buffer, read(b, count).chars)
<1> DEFINE r == ReadBlocks(b.m_blocks, count)
           n == Len(r.chars)
           blocks == Purge(r.blocks)
           synced == IF b.m_synced > n THEN b.m_synced - n ELSE 0
           after == [b EXCEPT !.m_blocks = blocks, !.m_total = b.m_total - n,
                              !.m_total_read = b.m_total_read + n, !.m_synced = synced]
<1>1. /\ r \in Reading(count) /\ r.chars \o UnreadIn(r.blocks) = Unread(b)
      /\ WellRead(b.m_blocks) /\ b \in Buffer
  BY BlocksAreRead DEF Good, Unread
<1>2. read(b, count) = [buffer |-> after, chars |-> r.chars]
  BY DEF read
<1> HIDE DEF r
<1>3. /\ r.chars \in Seq(Char) /\ n \in Nat /\ r.wanted \in Nat /\ WellRead(r.blocks)
      /\ r.wanted > 0 => UnreadIn(r.blocks) = <<>>
      /\ n + r.wanted = count
  BY <1>1 DEF Reading
<1>4. /\ WellRead(blocks) /\ UnreadIn(blocks) = UnreadIn(r.blocks)
      /\ blocks # <<>> => rd_chars_left(blocks[1]) > 0
      /\ blocks \in Seq(Block) /\ UnreadIn(blocks) \in Seq(Char)
  <2>1. /\ WellRead(blocks) /\ UnreadIn(blocks) = UnreadIn(r.blocks)
        /\ blocks # <<>> => rd_chars_left(blocks[1]) > 0
    BY <1>3, Purged
  <2>2. blocks \in Seq(Block)
    BY <2>1 DEF WellRead
  <2> QED
    BY <2>1, <2>2, UnreadIsText
<1> HIDE DEF blocks
<1>5. Len(UnreadIn(blocks)) \in Nat /\ b.m_total = n + Len(UnreadIn(blocks))
  <2>1. b.m_total = Len(r.chars \o UnreadIn(blocks))
    BY <1>1, <1>4 DEF Good
  <2>2. Len(r.chars \o UnreadIn(blocks)) = n + Len(UnreadIn(blocks))
    BY <1>3, <1>4, ConcatProperties
  <2> QED
    BY <1>4, <2>1, <2>2
<1> HIDE DEF n
<1>6. n = Least(count, b.m_total)
  <2>1. CASE r.wanted > 0
    <3>1. Len(UnreadIn(blocks)) = 0
      BY <1>3, <1>4, <2>1, EmptySeq
    <3> QED
      BY <1>3, <1>5, <2>1, <3>1 DEF Least
  <2>2. CASE r.wanted = 0
    BY <1>3, <1>5, <2>2 DEF Least
  <2> QED
    BY <1>3, <2>1, <2>2
<1>7. synced \in Nat /\ synced <= b.m_total - n /\ b.m_total - n \in Nat
  <2>1. b.m_synced \in Nat /\ b.m_total \in Nat /\ b.m_synced <= b.m_total
    BY <1>1, Fields DEF Good
  <2>2. n \in Nat /\ n <= b.m_total
    BY <1>3, <1>5
  <2> HIDE DEF n
  <2> QED
    BY <2>1, <2>2
<1> HIDE DEF synced
<1>8. after = [m_blocks |-> blocks, m_total |-> b.m_total - n, m_total_read |-> b.m_total_read + n,
               m_total_written |-> b.m_total_written, m_synced |-> synced,
               m_requests |-> b.m_requests, m_stream_can_write |-> b.m_stream_can_write,
               m_currentException |-> b.m_currentException]
  <2> DEFINE total == b.m_total - n
             total_read == b.m_total_read + n
  <2>1. after = WithRead(b, blocks, total, total_read, synced)
    BY DEF WithRead
  <2> HIDE DEF after, total, total_read
  <2>2. after = [m_blocks |-> blocks, m_total |-> total, m_total_read |-> total_read,
                 m_total_written |-> b.m_total_written, m_synced |-> synced,
                 m_requests |-> b.m_requests, m_stream_can_write |-> b.m_stream_can_write,
                 m_currentException |-> b.m_currentException]
    BY <1>1, <2>1, FieldsOfRead
  <2> QED
    BY <2>2 DEF total, total_read
<1> HIDE DEF after
<1>9. after \in Buffer
  BY <1>1, <1>3, <1>4, <1>7, <1>8, Fields DEF Buffer
<1>10. after.m_blocks = blocks /\ after.m_total = b.m_total - n /\ after.m_synced = synced
  BY <1>8
<1>11. Good(after)
  <2>1. after.m_total = Len(Unread(after))
    BY <1>3, <1>5, <1>10 DEF Unread
  <2> QED
    BY <1>4, <1>7, <1>9, <1>10, <2>1 DEF Good
<1>12. r.chars \o Unread(after) = Unread(b)
  BY <1>1, <1>4, <1>10 DEF Unread
<1>13. /\ after.m_total_read = b.m_total_read + n /\ after.m_total_written = b.m_total_written
       /\ after.m_requests = b.m_requests /\ after.m_stream_can_write = b.m_stream_can_write
       /\ after.m_currentException = b.m_currentException
  BY <1>8
<1> QED
  BY <1>2, <1>3, <1>6, <1>10, <1>11, <1>12, <1>13 DEF Reads, n

\* A buffer to which characters have been added, or which has been flushed.
Grows(b, more, chars) ==
  /\ Good(more)
  /\ Unread(more) = Unread(b) \o chars
  /\ more.m_total = b.m_total + Len(chars)
  /\ more.m_total_written = b.m_total_written + Len(chars)
  /\ more.m_total_read = b.m_total_read
  /\ more.m_requests = b.m_requests
  /\ more.m_stream_can_write = b.m_stream_can_write
  /\ more.m_currentException = b.m_currentException

LEMMA BlocksGrow ==
  ASSUME NEW b, Good(b), NEW chars \in Seq(Char), NEW blocks, WellRead(blocks),
         UnreadIn(blocks) = Unread(b) \o chars, blocks # <<>> => rd_chars_left(blocks[1]) > 0
  PROVE  Grows(b, [b EXCEPT !.m_blocks = blocks, !.m_total = @ + Len(chars),
                            !.m_total_written = @ + Len(chars)], chars)
<1> DEFINE n == Len(chars)
           more == [b EXCEPT !.m_blocks = blocks, !.m_total = @ + n, !.m_total_written = @ + n]
<1>1. b \in Buffer /\ n \in Nat /\ blocks \in Seq(Block) /\ Unread(b) \in Seq(Char)
  BY UnreadIsText DEF Good, WellRead, Unread
<1> HIDE DEF n
<1>2. more = [m_blocks |-> blocks, m_total |-> b.m_total + n, m_total_read |-> b.m_total_read,
              m_total_written |-> b.m_total_written + n, m_synced |-> b.m_synced,
              m_requests |-> b.m_requests, m_stream_can_write |-> b.m_stream_can_write,
              m_currentException |-> b.m_currentException]
  <2>1. more = [b EXCEPT !.m_blocks = blocks, !.m_total = b.m_total + n,
                         !.m_total_written = b.m_total_written + n]
    BY <1>1, Fields
  <2> HIDE DEF more
  <2> QED
    BY <1>1, <2>1, FieldsOfGrown
<1> HIDE DEF more
<1>3. more \in Buffer
  BY <1>1, <1>2, Fields DEF Buffer
<1>4. more.m_blocks = blocks /\ more.m_total = b.m_total + n /\ more.m_synced = b.m_synced
  BY <1>2
<1>5. Unread(more) = Unread(b) \o chars /\ Len(Unread(more)) = b.m_total + n
  <2>1. Unread(more) = Unread(b) \o chars
    BY <1>4 DEF Unread
  <2> QED
    BY <1>1, <2>1, ConcatProperties DEF Good, n
<1>6. Good(more)
  BY <1>1, <1>3, <1>4, <1>5, Fields DEF Good
<1>7. /\ more.m_total_written = b.m_total_written + n /\ more.m_total_read = b.m_total_read
      /\ more.m_requests = b.m_requests /\ more.m_stream_can_write = b.m_stream_can_write
      /\ more.m_currentException = b.m_currentException
  BY <1>2
<1>8. Grows(b, more, chars)
  BY <1>4, <1>5, <1>6, <1>7 DEF Grows, n
<1> QED
  BY <1>8 DEF more, n

\* A block is added that holds something.
LEMMA BlockIsAdded ==
  ASSUME NEW blocks, WellRead(blocks), blocks # <<>> => rd_chars_left(blocks[1]) > 0,
         NEW size \in Nat, NEW chars \in Seq(Char), chars # <<>>
  PROVE  LET more == Append(blocks, [size |-> size, data |-> chars, read |-> 0])
         IN  /\ WellRead(more) /\ UnreadIn(more) = UnreadIn(blocks) \o chars
             /\ rd_chars_left(more[1]) > 0
<1> DEFINE N == Len(blocks)
           block == [size |-> size, data |-> chars, read |-> 0]
           more == Append(blocks, block)
<1>1. block \in Block /\ block.data = chars /\ block.read = 0
  BY DEF Block
<1>2. Len(chars) \in Nat /\ Len(chars) > 0
  BY EmptySeq
<1>3. UnreadOf(block) = chars /\ rd_chars_left(block) > 0
  BY <1>1, <1>2, SubSeqFull DEF UnreadOf, rd_chars_left
<1> HIDE DEF block
<1>4. /\ blocks \in Seq(Block) /\ N \in Nat /\ more \in Seq(Block) /\ DOMAIN more = 1 .. N + 1
      /\ \A i \in 1 .. N : more[i] = blocks[i] /\ more[i].read <= Len(more[i].data)
      /\ more[N + 1] = block
      /\ N = 0 \/ (blocks # <<>> /\ 1 \in 1 .. N)
  <2>1. blocks \in Seq(Block)
    BY DEF WellRead
  <2> QED
    BY <1>1, <2>1 DEF WellRead
<1> HIDE DEF more, N
<1>5. WellRead(more)
  <2>1. \A i \in 1 .. N + 1 : i \in 1 .. N \/ i = N + 1
    BY <1>4
  <2>2. block.read <= Len(block.data)
    BY <1>1, <1>2
  <2> QED
    BY <1>4, <2>1, <2>2 DEF WellRead
<1>6. rd_chars_left(more[1]) > 0
  BY <1>3, <1>4
<1>7. UnreadIn(more) = UnreadIn(blocks) \o chars
  BY <1>1, <1>3, <1>4, UnreadAppended DEF more
<1> QED
  BY <1>5, <1>6, <1>7 DEF more, block

LEMMA CommitGrows ==
  ASSUME NEW b, Good(b), NEW size \in Nat, NEW chars \in Seq(Char), chars # <<>>
  PROVE  \E more : Grows(b, more, chars) /\ commit(b, size, chars) = fulfill_outstanding(more)
<1> DEFINE blocks == Append(b.m_blocks, [size |-> size, data |-> chars, read |-> 0])
           more == [b EXCEPT !.m_blocks = blocks, !.m_total = @ + Len(chars),
                             !.m_total_written = @ + Len(chars)]
<1>1. WellRead(blocks) /\ UnreadIn(blocks) = Unread(b) \o chars /\ rd_chars_left(blocks[1]) > 0
  BY BlockIsAdded DEF Good, Unread
<1>2. commit(b, size, chars) = fulfill_outstanding(more)
  <2>1. [[b EXCEPT !.m_blocks = blocks] EXCEPT !.m_total = @ + Len(chars),
                                               !.m_total_written = @ + Len(chars)] = more
    <3>1. b \in Buffer
      BY DEF Good
    <3> HIDE DEF blocks
    <3> QED
      BY <3>1, Fields
  <2>2. [b EXCEPT !.m_blocks = Append(@, [size |-> size, data |-> chars, read |-> 0])]
          = [b EXCEPT !.m_blocks = blocks]
    OBVIOUS
  <2> HIDE DEF more, blocks
  <2> QED
    BY <2>1, <2>2 DEF commit, update_write_head
<1>3. Grows(b, more, chars)
  <2> HIDE DEF blocks
  <2> QED
    BY <1>1, BlocksGrow
<1> QED
  BY <1>2, <1>3

LEMMA SyncGrows ==
  ASSUME NEW b, Good(b)
  PROVE  \E more : Grows(b, more, <<>>) /\ sync(b) = fulfill_outstanding(more)
<1> DEFINE more == [b EXCEPT !.m_synced = b.m_total]
<1>1. b \in Buffer /\ Unread(b) \in Seq(Char)
  BY UnreadIsText, Fields DEF Good, Unread
<1>2. more = [m_blocks |-> b.m_blocks, m_total |-> b.m_total, m_total_read |-> b.m_total_read,
              m_total_written |-> b.m_total_written, m_synced |-> b.m_total,
              m_requests |-> b.m_requests, m_stream_can_write |-> b.m_stream_can_write,
              m_currentException |-> b.m_currentException]
  BY <1>1, Fields
<1>3. sync(b) = fulfill_outstanding(more)
  BY DEF sync
<1> HIDE DEF more
<1>4. more \in Buffer
  BY <1>1, <1>2, Fields DEF Buffer
<1>5. /\ more.m_blocks = b.m_blocks /\ more.m_total = b.m_total /\ more.m_synced = b.m_total
      /\ more.m_total_written = b.m_total_written /\ more.m_total_read = b.m_total_read
      /\ more.m_requests = b.m_requests /\ more.m_stream_can_write = b.m_stream_can_write
      /\ more.m_currentException = b.m_currentException
  BY <1>2
<1>6. Unread(more) = Unread(b) /\ Unread(b) \o <<>> = Unread(b) /\ Len(<<>>) = 0
  BY <1>1, <1>5, ConcatEmptySeq DEF Unread
<1>7. Good(more)
  BY <1>1, <1>4, <1>5, <1>6, Fields DEF Good
<1>8. Grows(b, more, <<>>)
  BY <1>1, <1>5, <1>6, <1>7, Fields DEF Grows
<1> QED
  BY <1>3, <1>8

OtherLast(s, x, y) == [Append(s, x) EXCEPT ![Len(s) + 1] = y]

LEMMA LastReplaced ==
  ASSUME NEW S, NEW s \in Seq(S), NEW x \in S, NEW y \in S
  PROVE  OtherLast(s, x, y) = Append(s, y)
<1> DEFINE n == Len(s)
           sx == Append(s, x)
           sy == Append(s, y)
<1>1. /\ n \in Nat /\ sx \in Seq(S) /\ Len(sx) = n + 1 /\ \A i \in 1 .. n : sx[i] = s[i]
      /\ sy \in Seq(S) /\ Len(sy) = n + 1 /\ sy[n + 1] = y /\ \A i \in 1 .. n : sy[i] = s[i]
  BY AppendProperties
<1> HIDE DEF n, sx, sy
<1>2. [sx EXCEPT ![n + 1] = y] \in Seq(S) /\ Len([sx EXCEPT ![n + 1] = y]) = n + 1
      /\ \A i \in 1 .. n + 1 : [sx EXCEPT ![n + 1] = y][i] = IF i = n + 1 THEN y ELSE sx[i]
  BY <1>1, ExceptSeq
<1>3. \A i \in 1 .. n + 1 : [sx EXCEPT ![n + 1] = y][i] = sy[i]
  <2>1. \A i \in 1 .. n + 1 : i = n + 1 \/ i \in 1 .. n
    BY <1>1
  <2> QED
    BY <1>1, <1>2, <2>1
<1> QED
  BY <1>1, <1>2, <1>3, SeqEqual DEF OtherLast, n, sx, sy

LEMMA WriteGrows ==
  ASSUME NEW b, Good(b), NEW chars \in Seq(Char), chars # <<>>
  PROVE  \E more : Grows(b, more, chars) /\ write(b, chars) = fulfill_outstanding(more)
<1> DEFINE N == Len(b.m_blocks)
           k == Len(chars)
           size == IF m_alloc_size > k THEN m_alloc_size ELSE k
           empty == [size |-> size, data |-> <<>>, read |-> 0]
           blocks == IF HasRoom(b, k) THEN b.m_blocks ELSE Append(b.m_blocks, empty)
           last == Len(blocks)
           n == Least(wr_chars_left(blocks[last]), k)
           new == [blocks EXCEPT ![last].data = @ \o SubSeq(chars, 1, n)]
           more == [b EXCEPT !.m_blocks = new, !.m_total = @ + k, !.m_total_written = @ + k]
<1>1. /\ b \in Buffer /\ WellRead(b.m_blocks) /\ b.m_blocks \in Seq(Block) /\ N \in Nat
      /\ k \in Nat /\ size \in Nat /\ size >= k
  BY BufferAssumption, Fields DEF Good
<1> HIDE DEF size
<1>2. n = k /\ WellRead(new) /\ UnreadIn(new) = Unread(b) \o chars
      /\ rd_chars_left(new[1]) > 0
  <2>1. CASE HasRoom(b, k)
    <3>1. blocks = b.m_blocks /\ b.m_blocks # <<>> /\ wr_chars_left(blocks[last]) >= k
      BY <2>1 DEF HasRoom
    <3> HIDE DEF blocks
    <3>2. wr_chars_left(blocks[last]) \in Int
      <4>1. blocks[last] \in Block
        <5>1. N >= 1
          BY <1>1, <3>1, EmptySeq
        <5> QED
          BY <1>1, <3>1, <5>1
      <4>2. blocks[last].size \in Nat /\ Len(blocks[last].data) \in Nat
        BY <4>1 DEF Block
      <4> QED
        BY <4>2 DEF wr_chars_left
    <3>3. n = k
      BY <1>1, <3>1, <3>2 DEF Least
    <3> HIDE DEF n
    <3>4. SubSeq(chars, 1, n) = chars
      BY <3>3, SubSeqFull
    <3>5. new = [b.m_blocks EXCEPT ![Len(b.m_blocks)].data = @ \o chars]
      BY <3>1, <3>4
    <3> HIDE DEF new
    <3>6. /\ WellRead(new) /\ UnreadIn(new) = UnreadIn(b.m_blocks) \o chars
          /\ rd_chars_left(b.m_blocks[1]) > 0 => rd_chars_left(new[1]) > 0
      BY <1>1, <3>1, <3>5, UnreadGrows
    <3> QED
      BY <3>1, <3>3, <3>6 DEF Good, Unread
  <2>2. CASE ~HasRoom(b, k)
    <3>1. blocks = Append(b.m_blocks, empty)
      BY <2>2
    <3> HIDE DEF blocks
    <3>2. empty \in Block /\ empty.size = size /\ empty.data = <<>> /\ empty.read = 0
      BY <1>1 DEF Block
    <3>3. last = N + 1 /\ blocks[last] = empty
      BY <1>1, <3>1, <3>2, AppendProperties
    <3>4. n = k
      BY <1>1, <3>2, <3>3 DEF Least, wr_chars_left
    <3> HIDE DEF n
    <3>5. SubSeq(chars, 1, n) = chars /\ <<>> \o chars = chars
      BY <3>4, SubSeqFull, ConcatEmptySeq
    <3> DEFINE block == [size |-> size, data |-> chars, read |-> 0]
    <3>6. [empty EXCEPT !.data = @ \o chars] = block
      BY <3>5
    <3>7. new = Append(b.m_blocks, block)
      <4>1. new = [blocks EXCEPT ![N + 1] = [empty EXCEPT !.data = @ \o chars]]
        BY <3>3, <3>5
      <4>2. new = [blocks EXCEPT ![N + 1] = block]
        BY <3>6, <4>1
      <4> HIDE DEF empty, block, new
      <4>3. new = Append(b.m_blocks, block)
        <5>1. block \in Block /\ empty \in Block
          BY <1>1, <3>2 DEF block, Block
        <5>2. b.m_blocks \in Seq(Block)
          BY <1>1
        <5>3. new = OtherLast(b.m_blocks, empty, block)
          BY <3>1, <4>2 DEF OtherLast
        <5>4. OtherLast(b.m_blocks, empty, block) = Append(b.m_blocks, block)
          BY <5>1, <5>2, LastReplaced
        <5> QED
          BY <5>3, <5>4
      <4> QED
        BY <4>3
    <3> HIDE DEF new
    <3>8. /\ WellRead(new) /\ UnreadIn(new) = UnreadIn(b.m_blocks) \o chars
          /\ rd_chars_left(new[1]) > 0
      BY <1>1, <3>7, BlockIsAdded DEF Good
    <3> QED
      BY <3>4, <3>8 DEF Unread
  <2> QED
    BY <2>1, <2>2
<1>3. write(b, chars) = fulfill_outstanding(more)
  <2>1. write(b, chars) = update_write_head([b EXCEPT !.m_blocks = new], n)
    BY DEF write, size
  <2> HIDE DEF new, n
  <2>2. [[b EXCEPT !.m_blocks = new] EXCEPT !.m_total = @ + k, !.m_total_written = @ + k] = more
    BY <1>1, Fields
  <2> HIDE DEF more
  <2> QED
    BY <1>2, <2>1, <2>2 DEF update_write_head
<1>4. Grows(b, more, chars)
  <2> HIDE DEF new
  <2> QED
    BY <1>2, BlocksGrow
<1> HIDE DEF more
<1> QED
  BY <1>3, <1>4

-----------------------------------------------------------------------------
(* The read that waits.                                                    *)

\* result is what becomes of b and of the only read that may wait, for count characters.
Fulfilled(b, count, result) ==
  \/ /\ b.m_requests = <<>> \/ ~can_satisfy(b, count)
     /\ result.buffer = b /\ result.replies = <<>>
  \/ /\ b.m_requests = <<count>> /\ can_satisfy(b, count)
     /\ result.buffer = [read(b, count).buffer EXCEPT !.m_requests = <<>>]
     /\ result.replies = <<read(b, count).chars>>

LEMMA FulfillFulfills ==
  ASSUME NEW b, Good(b), NEW count \in Nat, b.m_requests \in {<<>>, <<count>>}
  PROVE  Fulfilled(b, count, fulfill_outstanding(b))
<1> DEFINE start == [buffer |-> b, replies |-> <<>>, waiting |-> <<>>]
           N == Len(b.m_requests)
           Is(s) == s = [i \in 0 .. N |-> IF i = 0 THEN start ELSE Serve(s[i - 1], b.m_requests[i])]
           result == fulfill_outstanding(b)
<1>1. result = [buffer |-> [Served(b).buffer EXCEPT !.m_requests = Served(b).waiting],
                replies |-> Served(b).replies]
  BY DEF fulfill_outstanding
<1>2. Served(b) = (CHOOSE s : Is(s))[N]
  BY DEF Served
<1>3. b \in Buffer /\ [b EXCEPT !.m_requests = b.m_requests] = b
  <2>1. b \in Buffer
    BY DEF Good
  <2> QED
    BY <2>1, Fields
<1>4. start.buffer = b /\ start.replies = <<>> /\ start.waiting = <<>>
  OBVIOUS
<1> HIDE DEF start, result
<1>5. CASE b.m_requests = <<>>
  <2>1. N = 0
    BY <1>5
  <2>2. Is([i \in 0 .. 0 |-> start])
    BY <2>1
  <2>3. Is(CHOOSE s : Is(s))
    BY <2>2
  <2>4. Served(b) = start
    BY <1>2, <2>1, <2>3
  <2> QED
    BY <1>1, <1>3, <1>4, <1>5, <2>4 DEF Fulfilled, result
<1>6. CASE b.m_requests = <<count>>
  <2>1. N = 1 /\ b.m_requests[1] = count
    BY <1>6
  <2> DEFINE served == Serve(start, count)
  <2> HIDE DEF N
  <2>2. Is([i \in 0 .. 1 |-> IF i = 0 THEN start ELSE served])
    BY <2>1
  <2>3. Is(CHOOSE s : Is(s))
    BY <2>2
  <2>4. Served(b) = served
    <3> DEFINE s == CHOOSE s : Is(s)
    <3>1. Served(b) = s[1]
      BY <1>2, <2>1
    <3> HIDE DEF s
    <3>2. Is(s)
      BY <2>3 DEF s
    <3>3. s[0] = start
      BY <2>1, <3>2
    <3>4. s[1] = Serve(s[0], count)
      BY <2>1, <3>2
    <3> QED
      BY <3>1, <3>3, <3>4
  <2>5. CASE can_satisfy(b, count)
    <3>1. served = [start EXCEPT !.buffer = read(b, count).buffer,
                                 !.replies = Append(@, read(b, count).chars)]
      BY <1>4, <2>5 DEF Serve
    <3>2. /\ served.buffer = read(b, count).buffer /\ served.waiting = <<>>
          /\ served.replies = Append(<<>>, read(b, count).chars)
      BY <3>1 DEF start
    <3> QED
      BY <1>1, <1>6, <2>4, <2>5, <3>2 DEF Fulfilled, result
  <2>6. CASE ~can_satisfy(b, count)
    <3>1. served = [start EXCEPT !.waiting = Append(@, count)]
      BY <1>4, <2>6 DEF Serve
    <3>2. served.buffer = b /\ served.waiting = <<count>> /\ served.replies = <<>>
      BY <3>1 DEF start
    <3> QED
      BY <1>1, <1>3, <1>6, <2>4, <2>6, <3>2 DEF Fulfilled, result
  <2> QED
    BY <2>5, <2>6
<1> QED
  BY <1>5, <1>6 DEF result

-----------------------------------------------------------------------------
(* Tasks.                                                                  *)

\* What becomes of the tasks, task by task, when only t's state, only t's continuations,
\* which have ended and which are scheduled may change.
Become(N, T, t, state, next, ended, scheduled) ==
  /\ N \in Tasks
  /\ \A x \in Task : /\ N.state[x] = IF x = t THEN state ELSE T.state[x]
                     /\ N.continuations[x] = IF x = t THEN next ELSE T.continuations[x]
  /\ N.ended = ended
  /\ N.scheduled = scheduled

LEMMA FieldsOfTasks ==
  ASSUME NEW T \in Tasks
  PROVE  /\ T.state \in [Task -> TaskState] /\ T.continuations \in [Task -> Seq(Task)]
         /\ T.ended \in SUBSET Task /\ T.scheduled \in SUBSET Task
BY DEF Tasks

LEMMA Created ==
  ASSUME NEW T \in Tasks, NEW t \in Task
  PROVE  Become(Create(T, t), T, t, "Created", T.continuations[t], T.ended \ {t}, T.scheduled)
BY FieldsOfTasks DEF Become, Create, Tasks, TaskState

LEMMA Starting ==
  ASSUME NEW T \in Tasks, NEW t \in Task
  PROVE  Become(TransitionedToStarted(T, t), T, t, "Started", T.continuations[t], T.ended,
                T.scheduled \ {t})
BY FieldsOfTasks DEF Become, TransitionedToStarted, Tasks, TaskState

LEMMA Scheduled ==
  ASSUME NEW T \in Tasks, NEW t \in Task
  PROVE  Become(ScheduleContinuationTask(T, t), T, t, T.state[t], T.continuations[t], T.ended,
                T.scheduled \cup {t})
BY FieldsOfTasks DEF Become, ScheduleContinuationTask, Tasks, TaskState

LEMMA Ending ==
  ASSUME NEW T \in Tasks, NEW t \in Task, T.state[t] # "Canceled",
         NEW state \in {"Completed", "Canceled"}
  PROVE  Become(End(T, t, state), T, t, state, T.continuations[t],
                IF T.continuations[t] = <<>> THEN T.ended ELSE T.ended \cup {t}, T.scheduled)
<1> DEFINE ended == IF T.continuations[t] = <<>> THEN T.ended ELSE T.ended \cup {t}
<1>1. End(T, t, state) = [T EXCEPT !.state[t] = state, !.ended = ended]
  BY DEF End
<1>2. ended \in SUBSET Task
  BY FieldsOfTasks
<1> HIDE DEF ended
<1>3. Become([T EXCEPT !.state[t] = state, !.ended = ended], T, t, state, T.continuations[t],
             ended, T.scheduled)
  BY <1>2, FieldsOfTasks DEF Become, Tasks, TaskState
<1> QED
  BY <1>1, <1>3 DEF ended

LEMMA Chained ==
  ASSUME NEW T \in Tasks, NEW t \in Task, NEW next \in Task, T.continuations[t] = <<>>
  PROVE  Become([T EXCEPT !.continuations[t] = <<next>> \o @], T, t, T.state[t], <<next>>,
                T.ended, T.scheduled)
<1>1. <<next>> \o T.continuations[t] = <<next>> /\ <<next>> \in Seq(Task)
  BY ConcatEmptySeq
<1> QED BY <1>1, FieldsOfTasks DEF Become, Tasks, TaskState

LEMMA ContinuationsRun ==
  ASSUME NEW T \in Tasks, NEW t \in Task, NEW next \in Task, T.continuations[t] = <<next>>
  PROVE  LET N == [T EXCEPT !.continuations[t] = <<>>, !.ended = @ \ {t}]
         IN  /\ Become(N, T, t, T.state[t], <<>>, T.ended \ {t}, T.scheduled)
             /\ RunTaskContinuations(T, t) = RunContinuation(N, t, next)
<1> DEFINE N == [T EXCEPT !.continuations[t] = <<>>, !.ended = @ \ {t}]
           F(u, i) == IF i = 0 THEN N ELSE RunContinuation(u[i - 1], t, <<next>>[i])
           Is(u) == u = [i \in 0 .. 1 |-> F(u, i)]
<1>1. Become(N, T, t, T.state[t], <<>>, T.ended \ {t}, T.scheduled)
  BY FieldsOfTasks, EmptySeq DEF Become, Tasks, TaskState
<1>2. Len(<<next>>) = 1 /\ <<next>>[1] = next
  OBVIOUS
<1>3. PICK u : Is(u) /\ RunTaskContinuations(T, t) = u[1]
  <2>1. RunTaskContinuations(T, t) = (CHOOSE u : Is(u))[1]
    BY <1>2 DEF RunTaskContinuations
  <2>2. \E u : Is(u)
    <3> DEFINE v == [i \in 0 .. 1 |-> IF i = 0 THEN N ELSE RunContinuation(N, t, next)]
    <3>1. v[0] = N
      OBVIOUS
    <3>2. \A i \in 0 .. 1 : v[i] = F(v, i)
      BY <3>1, <1>2
    <3> QED BY <3>2
  <2> HIDE DEF Is
  <2> QED BY <2>1, <2>2
<1>4. u[0] = N /\ u[1] = RunContinuation(u[0], t, <<next>>[1])
  <2>1. \A i \in 0 .. 1 : u[i] = F(u, i)
    <3> HIDE DEF F
    <3> QED BY <1>3, Zenon
  <2> QED BY <2>1
<1> QED BY <1>1, <1>2, <1>3, <1>4

-----------------------------------------------------------------------------
(* The inductive invariant.                                                *)

S == tasks.state
K == tasks.continuations
D == tasks.scheduled

\* Those that have ended and have continuations, and no others, are to run them.
Ends(T) == T.ended = {t \in Task : T.continuations[t] # <<>> /\ HasEnded(T, t)}

EndsKept == Ends(tasks)

\* The caller's task and the first lambda: the lambda starts when the response is there, and
\* once only, or it is passed the exception.
RequestPart ==
  /\ caller = "send" <=> network = "idle"
  /\ caller = "send" => S["request"] = "none"
  /\ network = "waiting" => S["request"] = "Created"
  /\ network \notin {"idle", "waiting"} => HasEnded(tasks, "request")
  /\ S["request"] = "Canceled" => network \in {"close", "fulfill", "done"}
  /\ K["respond"] = <<>>
  /\ caller # "done" => /\ first = "idle" /\ K["request"] = <<>>
                        /\ S["respond"] = "none" /\ "respond" \notin D
  /\ caller = "done" /\ first = "idle" =>
       \/ K["request"] = <<"respond">> /\ S["respond"] = "Created" /\ "respond" \notin D
       \/ /\ K["request"] = <<>> /\ S["respond"] = "Created" /\ "respond" \in D
          /\ S["request"] = "Completed"
       \/ K["request"] = <<>> /\ S["respond"] = "Canceled" /\ "respond" \notin D
  /\ first # "idle" => K["request"] = <<>> /\ "respond" \notin D /\ S["request"] = "Completed"
  /\ first \in {"new", "loop", "return"} => S["respond"] = "Started"
  /\ first = "done" => S["respond"] \in {"Completed", "Canceled"}

HasLoop == first \in {"loop", "return"} \/ (first = "done" /\ S["respond"] = "Completed")

\* The loop and the second lambda, in the same way.
LoopPart ==
  /\ K["receive"] = <<>>
  /\ ~HasLoop => /\ S["loop"] = "none" /\ S["receive"] = "none" /\ K["loop"] = <<>>
                 /\ "receive" \notin D /\ target = <<>>
  /\ HasLoop => S["loop"] \in {"Created", "Completed", "Canceled"}
  /\ first = "loop" => K["loop"] = <<>> /\ S["receive"] = "none" /\ "receive" \notin D
  /\ HasLoop /\ first # "loop" =>
       \/ K["loop"] = <<"receive">> /\ S["receive"] = "Created" /\ "receive" \notin D
       \/ /\ K["loop"] = <<>> /\ S["loop"] = "Completed"
          /\ \/ S["receive"] = "Created" /\ "receive" \in D
             \/ S["receive"] = "Completed" /\ "receive" \notin D
       \/ /\ K["loop"] = <<>> /\ S["loop"] = "Canceled"
          /\ S["receive"] = "Canceled" /\ "receive" \notin D

GetnState == S["getn"] = IF event.set THEN "Completed" ELSE "Created"

\* A turn of the loop: the task of getn follows the event once it is registered, and the copy
\* is either chained to it or scheduled.
TurnPart ==
  /\ K["copy"] = <<>>
  /\ "loop" \notin D /\ "getn" \notin D /\ "request" \notin D
  /\ S["loop"] # "Created" => /\ turn = "idle" /\ K["getn"] = <<>> /\ "copy" \notin D
                              /\ buffer.m_requests = <<>>
  /\ S["loop"] = "none" => outbuf = <<>>
  /\ turn # "idle" => K["getn"] = <<>> /\ "copy" \notin D
  /\ turn = "enqueue" => outbuf = <<>> /\ buffer.m_requests = <<>>
  /\ turn \in {"register", "check"} => checked = "no"
  /\ turn = "register" => ~event.registered
  /\ turn \in {"check", "then"} => event.registered /\ GetnState
  /\ S["loop"] = "Created" /\ turn = "idle" =>
       /\ event.registered
       /\ \/ K["getn"] = <<"copy">> /\ S["copy"] = "Created" /\ "copy" \notin D /\ GetnState
          \/ K["getn"] = <<>> /\ "copy" \in D /\ S["copy"] = "Created" /\ event.set

InTurn == S["loop"] = "Created" /\ turn # "enqueue"

\* In a turn a read waits in the buffer until the event is set, and no longer.
WaitPart ==
  /\ InTurn => buffer.m_requests = IF event.set THEN <<>> ELSE <<buf_size>>
  /\ InTurn /\ ~event.set => outbuf = <<>> /\ checked = "no"
  /\ buffer.m_requests # <<>> => buffer.m_total < buf_size /\ buffer.m_synced = 0

BufferPart ==
  /\ Good(buffer)
  /\ buffer.m_total_written <= Len(Body)
  /\ network = "idle" => buffer.m_total_written = 0
  /\ ~buffer.m_stream_can_write <=> network \in {"fulfill", "done"}
  /\ network \in {"close", "fulfill", "done"} /\ S["request"] = "Completed" =>
       buffer.m_total_written = Len(Body) \/ buffer.m_currentException

\* An empty answer is given only at the end of the body, and of an exception the loop knows.
EndPart ==
  /\ InTurn /\ event.set /\ outbuf = <<>> =>
       /\ ~buffer.m_stream_can_write /\ buffer.m_total = 0
       /\ checked = "passed" => ~buffer.m_currentException
  /\ checked = "exception" => outbuf = <<>>
  /\ S["loop"] = "Completed" => target = Body

IInv ==
  /\ TypeOK /\ NothingLost /\ EndsKept /\ RequestPart /\ LoopPart /\ TurnPart /\ WaitPart
  /\ BufferPart /\ EndPart

-----------------------------------------------------------------------------
(* Each step keeps the invariant.                                          *)

\* Task x in N is as it was in T.
Alike(N, T, x) ==
  /\ N.state[x] = T.state[x] /\ N.continuations[x] = T.continuations[x]
  /\ x \in N.scheduled <=> x \in T.scheduled

Same(x) == S'[x] = S[x] /\ K'[x] = K[x] /\ (x \in D' <=> x \in D)

LEMMA Others ==
  ASSUME NEW T \in Tasks, NEW N, NEW t \in Task, NEW state, NEW next, NEW ended, NEW scheduled,
         Become(N, T, t, state, next, ended, scheduled),
         scheduled \subseteq T.scheduled \cup {t}, T.scheduled \subseteq scheduled \cup {t}
  PROVE  \A x \in Task : x # t => Alike(N, T, x)
BY DEF Become, Alike

LEMMA AlikeIsSame ==
  ASSUME NEW x, Alike(tasks', tasks, x)
  PROVE  Same(x)
BY DEF Alike, Same, S, K, D

\* The request and the first lambda do not look at what the loop does.
LEMMA RequestStays ==
  ASSUME RequestPart, Same("request"), Same("respond"), UNCHANGED <<network, caller, first>>
  PROVE  RequestPart'
BY DEF RequestPart, Same, HasEnded, S, K, D

LEMMA LoopStays ==
  ASSUME LoopPart, Same("loop"), Same("receive"), S'["respond"] = S["respond"],
         UNCHANGED <<first, target>>
  PROVE  LoopPart'
BY DEF LoopPart, HasLoop, Same, S, K, D

LEMMA TurnStays ==
  ASSUME TurnPart, Same("loop"), Same("getn"), Same("copy"), "request" \notin D',
         UNCHANGED <<turn, checked, event, outbuf>>, buffer'.m_requests = buffer.m_requests
  PROVE  TurnPart'
BY DEF TurnPart, GetnState, Same, S, K, D

\* The answer to the read of a turn: what there is, up to buf_size characters.
Answers(b, after, chars) ==
  /\ Good(after)
  /\ chars \in Seq(Char) /\ Len(chars) <= buf_size
  /\ chars \o Unread(after) = Unread(b)
  /\ chars = <<>> => b.m_total = 0 /\ after.m_total = 0 /\ ~b.m_stream_can_write
  /\ after.m_total_read = b.m_total_read + Len(chars)
  /\ after.m_total_written = b.m_total_written
  /\ after.m_stream_can_write = b.m_stream_can_write
  /\ after.m_currentException = b.m_currentException

LEMMA ReadAnswers ==
  ASSUME NEW b, Good(b), can_satisfy(b, buf_size)
  PROVE  /\ Answers(b, read(b, buf_size).buffer, read(b, buf_size).chars)
         /\ read(b, buf_size).buffer.m_requests = b.m_requests
<1> DEFINE after == read(b, buf_size).buffer
           chars == read(b, buf_size).chars
<1>1. buf_size \in Nat /\ buf_size > 0
  BY ResponseAssumption
<1>2. Reads(b, buf_size, after, chars)
  BY <1>1, ReadReads
<1> HIDE DEF after, chars
<1>3. b.m_total \in Nat /\ b.m_synced \in Nat /\ b.m_synced <= b.m_total
  BY Fields DEF Good
<1>4. /\ Good(after) /\ chars \in Seq(Char) /\ Len(chars) = Least(buf_size, b.m_total)
      /\ after.m_total = b.m_total - Len(chars)
  BY <1>2 DEF Reads
<1>5. Len(chars) <= buf_size
  BY <1>1, <1>3, <1>4 DEF Least
<1>6. ASSUME chars = <<>>
      PROVE  b.m_total = 0 /\ after.m_total = 0 /\ ~b.m_stream_can_write
  <2>1. Len(chars) = 0
    BY <1>6
  <2>2. b.m_total = 0
    BY <2>1, <1>1, <1>3, <1>4 DEF Least
  <2> QED
    BY <2>1, <2>2, <1>1, <1>3, <1>4 DEF can_satisfy
<1>7. Answers(b, after, chars) /\ after.m_requests = b.m_requests
  BY <1>2, <1>4, <1>5, <1>6 DEF Reads, Answers
<1> QED
  BY <1>7 DEF after, chars

\* What the buffer looks like without its requests does not depend on them.
LEMMA RequestsGone ==
  ASSUME NEW b, Good(b), NEW requests \in Seq(Nat)
  PROVE  LET c == [b EXCEPT !.m_requests = requests]
         IN  /\ Good(c) /\ c.m_requests = requests /\ Unread(c) = Unread(b)
             /\ c.m_total = b.m_total /\ c.m_total_read = b.m_total_read
             /\ c.m_total_written = b.m_total_written /\ c.m_synced = b.m_synced
             /\ c.m_stream_can_write = b.m_stream_can_write
             /\ c.m_currentException = b.m_currentException
<1> DEFINE c == [b EXCEPT !.m_requests = requests]
<1>1. b \in Buffer
  BY DEF Good
<1>2. c = [m_blocks |-> b.m_blocks, m_total |-> b.m_total, m_total_read |-> b.m_total_read,
           m_total_written |-> b.m_total_written, m_synced |-> b.m_synced,
           m_requests |-> requests, m_stream_can_write |-> b.m_stream_can_write,
           m_currentException |-> b.m_currentException]
  BY <1>1, Fields
<1> HIDE DEF c
<1>3. c \in Buffer
  BY <1>1, <1>2, Fields DEF Buffer
<1>4. /\ c.m_blocks = b.m_blocks /\ c.m_requests = requests
      /\ c.m_total = b.m_total /\ c.m_total_read = b.m_total_read
      /\ c.m_total_written = b.m_total_written /\ c.m_synced = b.m_synced
      /\ c.m_stream_can_write = b.m_stream_can_write
      /\ c.m_currentException = b.m_currentException
  BY <1>2
<1>5. Unread(c) = Unread(b) /\ Good(c)
  BY <1>3, <1>4 DEF Good, Unread
<1> QED
  BY <1>4, <1>5 DEF c

LEMMA Replied ==
  ASSUME NEW more, Good(more), more.m_requests \in {<<>>, <<buf_size>>},
         Reply(fulfill_outstanding(more))
  PROVE  \/ /\ buffer' = more /\ UNCHANGED <<tasks, event, outbuf>>
            /\ more.m_requests = <<>> \/ ~can_satisfy(more, buf_size)
         \/ /\ more.m_requests = <<buf_size>> /\ buffer'.m_requests = <<>>
            /\ Answers(more, buffer', outbuf')
            /\ event' = [event EXCEPT !.set = TRUE]
            /\ tasks' = IF event.registered THEN End(tasks, "getn", "Completed") ELSE tasks
<1> DEFINE result == fulfill_outstanding(more)
<1>1. buf_size \in Nat
  BY ResponseAssumption
<1>2. Fulfilled(more, buf_size, result)
  BY <1>1, FulfillFulfills
<1>3. Reply(result)
  OBVIOUS
<1> HIDE DEF result
<1>4. CASE more.m_requests = <<>> \/ ~can_satisfy(more, buf_size)
  <2>1. result.buffer = more /\ result.replies = <<>>
    BY <1>2, <1>4 DEF Fulfilled
  <2> QED
    BY <1>3, <1>4, <2>1 DEF Reply
<1>5. CASE more.m_requests = <<buf_size>> /\ can_satisfy(more, buf_size)
  <2> DEFINE after == read(more, buf_size).buffer
             chars == read(more, buf_size).chars
  <2>1. Answers(more, after, chars)
    BY <1>5, ReadAnswers
  <2>2. result.buffer = [after EXCEPT !.m_requests = <<>>] /\ result.replies = <<chars>>
    BY <1>2, <1>5 DEF Fulfilled
  <2> HIDE DEF after, chars
  <2>3. <<chars>> # <<>> /\ <<chars>>[1] = chars
    OBVIOUS
  <2>4. buffer' = [after EXCEPT !.m_requests = <<>>] /\ outbuf' = chars
    BY <1>3, <2>2, <2>3 DEF Reply
  <2>5. /\ event' = [event EXCEPT !.set = TRUE]
        /\ tasks' = IF event.registered THEN End(tasks, "getn", "Completed") ELSE tasks
    BY <1>3, <2>2, <2>3 DEF Reply, FinalizeAndRunContinuations
  <2>6. Good(after) /\ <<>> \in Seq(Nat)
    BY <2>1 DEF Answers
  <2>7. /\ Good(buffer') /\ buffer'.m_requests = <<>> /\ Unread(buffer') = Unread(after)
        /\ buffer'.m_total = after.m_total /\ buffer'.m_total_read = after.m_total_read
        /\ buffer'.m_total_written = after.m_total_written
        /\ buffer'.m_stream_can_write = after.m_stream_can_write
        /\ buffer'.m_currentException = after.m_currentException
    BY <2>4, <2>6, RequestsGone
  <2>8. Answers(more, buffer', outbuf')
    BY <2>1, <2>4, <2>7 DEF Answers
  <2> QED
    BY <1>5, <2>5, <2>7, <2>8
<1> QED
  BY <1>2, <1>4, <1>5 DEF Fulfilled
LEMMA PrefixGrows ==
  ASSUME NEW A, NEW s \in Seq(A), NEW m \in Nat, NEW n \in Nat, m + n <= Len(s)
  PROVE  SubSeq(s, 1, m) \o SubSeq(s, m + 1, m + n) = SubSeq(s, 1, m + n)
<1>1. m + n \in 0 .. Len(s) /\ m \in 0 .. m + n
  OBVIOUS
<1> QED
  BY <1>1, ConcatAdjacentSubSeq

\* Whatever the network's thread writes, and if it completes the read that waits: with more the
\* buffer as it has been written to, and chars what has been.
LEMMA NetworkKeeps ==
  ASSUME IInv, NEW more, NEW chars, Grows(buffer, more, chars),
         Reply(fulfill_outstanding(more)),
         chars = SubSeq(Body, buffer.m_total_written + 1,
                        buffer.m_total_written + Len(chars)),
         chars \in Seq(Char), buffer.m_total_written + Len(chars) <= Len(Body),
         \/ network = "body" /\ network' = "body"
         \/ network = "fulfill" /\ network' = "done" /\ chars = <<>>,
         syncs' \in 0 .. MaxSyncs, UNCHANGED <<running, caller, first, turn, checked, target>>
  PROVE  IInv'
<1> DEFINE tw == buffer.m_total_written
           n == Len(chars)
<1>1. /\ TypeOK /\ NothingLost /\ EndsKept /\ RequestPart /\ LoopPart /\ TurnPart /\ WaitPart
      /\ BufferPart /\ EndPart
  BY DEF IInv
<1>2. buf_size \in Nat /\ buf_size > 0 /\ Body \in Seq(Char) /\ Len(Body) \in Nat
  BY ResponseAssumption
<1>3. Task = {"request", "respond", "loop", "receive", "getn", "copy"}
  BY ResponseAssumption
<1>4. /\ tasks \in Tasks /\ event \in [registered: BOOLEAN, set: BOOLEAN]
      /\ outbuf \in Seq(Char) /\ target \in Seq(Char) /\ checked \in {"no", "passed", "exception"}
      /\ Len(buffer.m_requests) <= 1
      /\ buffer.m_requests # <<>> => ~event.set /\ buffer.m_total < buf_size
  BY <1>1 DEF TypeOK
<1>5. Good(buffer) /\ Good(more)
  BY <1>1 DEF BufferPart, Grows
<1>6. /\ tw \in Nat /\ n \in Nat /\ buffer.m_total \in Nat /\ buffer.m_total_read \in Nat
      /\ buffer.m_requests \in Seq(Nat) /\ buffer.m_synced \in Nat /\ buffer \in Buffer
      /\ more.m_total \in Nat /\ more.m_synced \in Nat /\ more.m_requests \in Seq(Nat)
      /\ more.m_stream_can_write \in BOOLEAN
  BY <1>5, Fields DEF Good
<1>7. Unread(buffer) \in Seq(Char) /\ Unread(more) \in Seq(Char)
  BY <1>5, UnreadIsText DEF Good, Unread, WellRead
<1>8. /\ Unread(more) = Unread(buffer) \o chars /\ more.m_total = buffer.m_total + n
      /\ more.m_total_written = tw + n /\ more.m_total_read = buffer.m_total_read
      /\ more.m_requests = buffer.m_requests
      /\ more.m_stream_can_write = buffer.m_stream_can_write
      /\ more.m_currentException = buffer.m_currentException
  BY DEF Grows
<1>9. buffer.m_requests # <<>> => InTurn /\ ~event.set /\ buffer.m_requests = <<buf_size>>
  BY <1>1 DEF TurnPart, WaitPart, InTurn
<1>10. (target \o outbuf) \o Unread(more) = SubSeq(Body, 1, tw + n)
  <2>1. (target \o outbuf) \o Unread(buffer) = SubSeq(Body, 1, tw)
    BY <1>1 DEF NothingLost
  <2>2. target \o outbuf \in Seq(Char)
    BY <1>4
  <2>3. (target \o outbuf) \o (Unread(buffer) \o chars)
          = ((target \o outbuf) \o Unread(buffer)) \o chars
    <3> DEFINE a == target \o outbuf
               b == Unread(buffer)
    <3>1. a \in Seq(Char) /\ b \in Seq(Char) /\ chars \in Seq(Char)
      BY <1>7, <2>2
    <3> HIDE DEF a, b
    <3>2. (a \o b) \o chars = a \o (b \o chars)
      BY <3>1
    <3> QED
      BY <3>2 DEF a, b
  <2>4. SubSeq(Body, 1, tw) \o SubSeq(Body, tw + 1, tw + n) = SubSeq(Body, 1, tw + n)
    BY Zenon, <1>2, <1>6, PrefixGrows
  <2> QED
    BY <1>8, <2>1, <2>3, <2>4
<1>11. buffer.m_total_read = Len(target \o outbuf)
  BY <1>1 DEF NothingLost
<1>12. ~more.m_stream_can_write => network = "fulfill" /\ chars = <<>>
  BY <1>1, <1>8 DEF BufferPart
<1>13. tw + n <= Len(Body) /\ (network' = "done" => n = 0)
  <2>1. chars = <<>> => n = 0
    OBVIOUS
  <2> QED
    BY <2>1
<1> HIDE DEF tw, n
<1>14. CASE /\ buffer' = more /\ UNCHANGED <<tasks, event, outbuf>>
            /\ more.m_requests = <<>> \/ ~can_satisfy(more, buf_size)
  <2>1. more.m_requests # <<>> =>
          more.m_total < buf_size /\ more.m_synced = 0 /\ more.m_stream_can_write
    BY <1>14, <1>6, <1>2 DEF can_satisfy
  <2>2. TypeOK'
    BY <1>1, <1>5, <1>8, <1>14, <2>1 DEF TypeOK, Good
  <2>3. NothingLost'
    BY <1>5, <1>8, <1>10, <1>11, <1>14 DEF NothingLost, Good
  <2>4. EndsKept'
    BY <1>1, <1>14 DEF EndsKept, Ends, K, HasEnded
  <2>5. RequestPart'
    BY <1>1, <1>14 DEF RequestPart, S, K, D, HasEnded
  <2>6. LoopPart'
    BY <1>1, <1>14 DEF LoopPart, HasLoop, S, K, D
  <2>7. TurnPart'
    BY <1>1, <1>8, <1>14 DEF TurnPart, GetnState, S, K, D
  <2>8. WaitPart'
    BY <1>1, <1>8, <1>14, <2>1 DEF WaitPart, InTurn, S
  <2>9. BufferPart'
    <3>1. Good(buffer') /\ buffer'.m_total_written <= Len(Body)
      BY <1>5, <1>8, <1>13, <1>14
    <3>2. ~buffer'.m_stream_can_write <=> network' \in {"fulfill", "done"}
      BY <1>1, <1>8, <1>14 DEF BufferPart
    <3>3. /\ network' # "idle" /\ network' \in {"close", "fulfill", "done"} => network = "fulfill"
          /\ network' = "done" => buffer'.m_total_written = buffer.m_total_written
      BY <1>6, <1>8, <1>13, <1>14 DEF tw
    <3>4. network' \in {"close", "fulfill", "done"} /\ S'["request"] = "Completed" =>
            buffer'.m_total_written = Len(Body) \/ buffer'.m_currentException
      BY <1>1, <1>8, <1>14, <3>3 DEF BufferPart, S
    <3> QED
      BY <3>1, <3>2, <3>3, <3>4 DEF BufferPart, S
  <2>10. EndPart'
    <3>1. InTurn' /\ event'.set /\ outbuf' = <<>> =>
            ~buffer.m_stream_can_write /\ buffer.m_total = 0
            /\ (checked = "passed" => ~buffer.m_currentException)
      BY <1>1, <1>14 DEF EndPart, InTurn, S
    <3>2. ~buffer.m_stream_can_write => more.m_total = buffer.m_total
      BY <1>1, <1>6, <1>8, <1>12 DEF BufferPart, n
    <3>3. S'["loop"] = "Completed" => target' = Body
      BY <1>1, <1>14 DEF EndPart, S
    <3>4. checked' = "exception" => outbuf' = <<>>
      BY <1>1, <1>14 DEF EndPart
    <3> QED
      BY <1>8, <1>14, <3>1, <3>2, <3>3, <3>4 DEF EndPart
  <2> QED
    BY <2>2, <2>3, <2>4, <2>5, <2>6, <2>7, <2>8, <2>9, <2>10 DEF IInv
<1>15. CASE /\ more.m_requests = <<buf_size>> /\ buffer'.m_requests = <<>>
            /\ Answers(more, buffer', outbuf')
            /\ event' = [event EXCEPT !.set = TRUE]
            /\ tasks' = IF event.registered THEN End(tasks, "getn", "Completed") ELSE tasks
  <2>1. InTurn /\ ~event.set /\ outbuf = <<>> /\ checked = "no"
    BY <1>1, <1>8, <1>9, <1>15 DEF WaitPart
  <2>2. event'.set /\ event'.registered = event.registered
    BY <1>4, <1>15
  <2>3. /\ Good(buffer') /\ outbuf' \in Seq(Char) /\ Len(outbuf') <= buf_size
        /\ outbuf' \o Unread(buffer') = Unread(more)
        /\ outbuf' = <<>> => buffer'.m_total = 0 /\ ~more.m_stream_can_write
        /\ buffer'.m_total_read = more.m_total_read + Len(outbuf')
        /\ buffer'.m_total_written = more.m_total_written
        /\ buffer'.m_stream_can_write = more.m_stream_can_write
        /\ buffer'.m_currentException = more.m_currentException
    BY <1>15 DEF Answers
  <2>4. /\ event.registered => turn # "register" /\ S["getn"] = "Created"
        /\ turn = "register" \/ event.registered
        /\ S["loop"] = "Created"
    BY <1>1, <2>1, <1>4 DEF TypeOK, TurnPart, GetnState, InTurn
  <2>5. /\ tasks' \in Tasks /\ D' = D
        /\ \A x \in Task : x # "getn" => Same(x)
        /\ K'["getn"] = K["getn"]
        /\ event.registered => S'["getn"] = "Completed"
        /\ EndsKept'
    <3>1. CASE event.registered
      <4>1. Become(tasks', tasks, "getn", "Completed", tasks.continuations["getn"],
                   IF tasks.continuations["getn"] = <<>> THEN tasks.ended
                   ELSE tasks.ended \cup {"getn"}, tasks.scheduled)
        BY <1>3, <1>4, <1>15, <2>4, <3>1, Ending DEF S
      <4>2. \A x \in Task : x # "getn" => Same(x)
        BY <1>3, <1>4, <4>1, Others, AlikeIsSame
      <4>3. EndsKept'
        BY <1>1, <1>3, <2>4, <3>1, <4>1 DEF EndsKept, Ends, Become, HasEnded, K, S
      <4> QED
        BY <1>3, <4>1, <4>2, <4>3 DEF Become, D, K, S
    <3>2. CASE ~event.registered
      BY <1>1, <1>4, <1>15, <3>2 DEF EndsKept, Ends, Same, HasEnded, D, K, S
    <3> QED
      BY <3>1, <3>2
  <2>6. /\ Same("request") /\ Same("respond") /\ Same("loop") /\ Same("receive")
        /\ Same("copy")
    BY <1>3, <2>5
  <2>7. TypeOK'
    <3>1. event' \in [registered: BOOLEAN, set: BOOLEAN] /\ Len(buffer'.m_requests) <= 1
      <4>1. event' \in [registered: BOOLEAN, set: BOOLEAN]
        BY <1>4, <1>15
      <4>2. Len(buffer'.m_requests) = 0
        BY <1>15
      <4> QED
        BY <4>1, <4>2
    <3> QED
      BY <1>1, <1>15, <2>3, <2>5, <3>1 DEF TypeOK, Good
  <2>8. NothingLost'
    <3>1. target \o outbuf = target
      BY <1>4, <2>1, ConcatEmptySeq
    <3>2. (target' \o outbuf') \o Unread(buffer') = target \o (outbuf' \o Unread(buffer'))
      <4>1. Unread(buffer') \in Seq(Char)
        BY <2>3, UnreadIsText DEF Good, Unread, WellRead
      <4> QED
        <5> DEFINE a == outbuf'
                   b == Unread(buffer')
        <5>1. a \in Seq(Char) /\ b \in Seq(Char) /\ target \in Seq(Char)
          BY <1>4, <2>3, <4>1
        <5> HIDE DEF a, b
        <5>2. (target \o a) \o b = target \o (a \o b)
          BY <5>1
        <5> QED
          BY <5>2 DEF a, b
    <3>3. Len(target' \o outbuf') = Len(target) + Len(outbuf')
      BY <1>4, <2>3
    <3> QED
      BY <1>8, <1>10, <1>11, <2>3, <3>1, <3>2, <3>3 DEF NothingLost, Good
  <2>9. RequestPart'
    <3>1. network = network' \/ (network = "fulfill" /\ network' = "done")
      OBVIOUS
    <3> QED
      BY <1>1, <2>6, <3>1 DEF RequestPart, Same, S, K, D, HasEnded
  <2>10. LoopPart'
    BY <1>1, <2>6, LoopStays DEF Same
  <2>11. TurnPart'
    <3>1. "request" \notin D' /\ "getn" \notin D'
      BY <1>1, <2>5 DEF TurnPart
    <3>2. GetnState' \/ turn = "register"
      BY <2>2, <2>4, <2>5 DEF GetnState, S
    <3> QED
      BY <1>1, <1>15, <2>1, <2>2, <2>4, <2>5, <2>6, <3>1, <3>2
      DEF TurnPart, InTurn, Same, S, K, D
  <2>12. WaitPart'
    BY <1>15, <2>2 DEF WaitPart
  <2>13. BufferPart'
    <3>1. Good(buffer') /\ buffer'.m_total_written <= Len(Body)
      BY <1>8, <1>13, <2>3
    <3>2. ~buffer'.m_stream_can_write <=> network' \in {"fulfill", "done"}
      BY <1>1, <1>8, <2>3 DEF BufferPart
    <3>3. /\ network' # "idle" /\ network' \in {"close", "fulfill", "done"} => network = "fulfill"
          /\ network' = "done" => buffer'.m_total_written = buffer.m_total_written
      BY <1>6, <1>8, <1>13, <2>3 DEF tw
    <3>4. network' \in {"close", "fulfill", "done"} /\ S'["request"] = "Completed" =>
            buffer'.m_total_written = Len(Body) \/ buffer'.m_currentException
      BY <1>1, <1>8, <2>3, <2>6, <3>3 DEF BufferPart, Same, S
    <3> QED
      BY <3>1, <3>2, <3>3, <3>4 DEF BufferPart, S
  <2>14. EndPart'
    BY <1>1, <2>1, <2>3, <2>6 DEF EndPart, Same, S
  <2> QED
    BY <2>5, <2>7, <2>8, <2>9, <2>10, <2>11, <2>12, <2>13, <2>14 DEF IInv
<1>16. more.m_requests \in {<<>>, <<buf_size>>}
  BY <1>8, <1>9
<1> QED
  BY <1>5, <1>14, <1>15, <1>16, Replied

LEMMA EndsStay ==
  ASSUME NEW T \in Tasks, Ends(T), NEW N, NEW t \in Task, NEW state, NEW next, NEW ended,
         NEW scheduled, Become(N, T, t, state, next, ended, scheduled),
         ended = IF next # <<>> /\ state \in {"Completed", "Canceled"} THEN T.ended \cup {t}
                 ELSE T.ended \ {t}
  PROVE  Ends(N)
<1>1. \A x \in Task : x \in N.ended <=> N.continuations[x] # <<>> /\ HasEnded(N, x)
  BY DEF Ends, Become, HasEnded
<1>2. N.ended \subseteq Task
  BY DEF Become, Tasks
<1> QED
  BY <1>1, <1>2 DEF Ends

\* then(): the continuation waits with its ancestor, is scheduled, or has the exception.
LEMMA ThenWaits ==
  ASSUME NEW T \in Tasks, Ends(T), NEW t \in Task, NEW next \in Task, t # next,
         T.continuations[t] = <<>>, T.continuations[next] = <<>>, next \notin T.scheduled
  PROVE  LET N == ScheduleContinuation(T, t, next)
         IN  /\ N \in Tasks /\ Ends(N)
             /\ \A x \in Task : x \notin {t, next} => Alike(N, T, x)
             /\ N.state[t] = T.state[t] /\ (t \in N.scheduled <=> t \in T.scheduled)
             /\ N.continuations[next] = <<>>
             /\ N.continuations[t] = IF T.state[t] \in {"Completed", "Canceled"} THEN <<>>
                                     ELSE <<next>>
             /\ next \in N.scheduled <=> T.state[t] = "Completed"
             /\ N.state[next] = IF T.state[t] = "Canceled" THEN "Canceled" ELSE "Created"
<1> DEFINE C == Create(T, next)
           N == ScheduleContinuation(T, t, next)
<1>1. Become(C, T, next, "Created", <<>>, T.ended \ {next}, T.scheduled)
  BY Created
<1>2. C \in Tasks /\ Ends(C) /\ C.scheduled = T.scheduled
  <2>1. Ends(C)
    BY <1>1, EndsStay
  <2> QED
    BY <1>1, <2>1 DEF Become
<1>3. /\ \A x \in Task : x # next => Alike(C, T, x)
      /\ C.state[next] = "Created" /\ C.continuations[next] = <<>>
      /\ C.state[t] = T.state[t] /\ C.continuations[t] = <<>>
  BY <1>1 DEF Become, Alike
<1>4. /\ next \notin C.ended
      /\ C.state[t] \notin {"Completed", "Canceled"} => t \notin C.ended
  BY <1>2, <1>3 DEF Ends, HasEnded
<1>5. N = CASE T.state[t] = "Completed" -> ScheduleContinuationTask(C, next)
            [] T.state[t] = "Canceled"  -> End(C, next, "Canceled")
            [] OTHER -> [C EXCEPT !.continuations[t] = <<next>> \o @]
  BY DEF ScheduleContinuation, CancelWithExceptionHolder
<1> HIDE DEF C, N
<1>6. CASE T.state[t] = "Completed"
  <2>1. N = ScheduleContinuationTask(C, next)
    BY <1>5, <1>6
  <2>2. Become(N, C, next, "Created", <<>>, C.ended, C.scheduled \cup {next})
    BY <1>2, <1>3, <2>1, Scheduled
  <2>3. C.ended = C.ended \ {next}
    BY <1>4
  <2>4. Ends(N)
    BY <1>2, <2>2, <2>3, EndsStay
  <2> QED
    BY <1>2, <1>3, <1>6, <2>2, <2>4 DEF Become, Alike, N
<1>7. CASE T.state[t] = "Canceled"
  <2>1. N = End(C, next, "Canceled")
    BY <1>5, <1>7
  <2>2. Become(N, C, next, "Canceled", <<>>, C.ended, C.scheduled)
    <3>1. "Canceled" \in {"Completed", "Canceled"} /\ C.state[next] # "Canceled"
      BY <1>3
    <3> QED
      BY <1>2, <1>3, <2>1, <3>1, Ending
  <2>3. C.ended = C.ended \ {next}
    BY <1>4
  <2>4. Ends(N)
    BY <1>2, <2>2, <2>3, EndsStay
  <2> QED
    BY <1>2, <1>3, <1>7, <2>2, <2>4 DEF Become, Alike, N
<1>8. CASE T.state[t] \notin {"Completed", "Canceled"}
  <2>1. N = [C EXCEPT !.continuations[t] = <<next>> \o @]
    BY <1>5, <1>8
  <2>2. Become(N, C, t, C.state[t], <<next>>, C.ended, C.scheduled)
    BY <1>2, <1>3, <2>1, Chained
  <2>3. C.ended = C.ended \ {t}
    BY <1>3, <1>4, <1>8
  <2>4. Ends(N)
    BY <1>2, <1>3, <1>8, <2>2, <2>3, EndsStay
  <2> QED
    BY <1>2, <1>3, <1>8, <2>2, <2>4 DEF Become, Alike, N
<1> QED
  BY <1>6, <1>7, <1>8

\* A task that has ended runs its one continuation.
LEMMA NextIsRun ==
  ASSUME NEW T \in Tasks, Ends(T), NEW t \in Task, NEW next \in Task, t # next,
         T.continuations[t] = <<next>>, T.continuations[next] = <<>>,
         T.state[next] = "Created", HasEnded(T, t)
  PROVE  LET N == RunTaskContinuations(T, t)
         IN  /\ N \in Tasks /\ Ends(N)
             /\ \A x \in Task : x \notin {t, next} => Alike(N, T, x)
             /\ N.state[t] = T.state[t] /\ (t \in N.scheduled <=> t \in T.scheduled)
             /\ N.continuations[next] = <<>> /\ N.continuations[t] = <<>>
             /\ next \in N.scheduled <=> T.state[t] = "Completed" \/ next \in T.scheduled
             /\ N.state[next] = IF T.state[t] = "Canceled" THEN "Canceled" ELSE "Created"
<1> DEFINE C == [T EXCEPT !.continuations[t] = <<>>, !.ended = @ \ {t}]
           N == RunTaskContinuations(T, t)
<1>1. /\ Become(C, T, t, T.state[t], <<>>, T.ended \ {t}, T.scheduled)
      /\ N = RunContinuation(C, t, next)
  BY ContinuationsRun
<1> HIDE DEF C, N
<1>2. C \in Tasks /\ Ends(C) /\ C.scheduled = T.scheduled
  <2>1. Ends(C)
    BY <1>1, EndsStay
  <2> QED
    BY <1>1, <2>1 DEF Become
<1>3. /\ \A x \in Task : x # t => Alike(C, T, x)
      /\ C.state[next] = "Created" /\ C.continuations[next] = <<>>
      /\ C.state[t] = T.state[t] /\ C.continuations[t] = <<>>
  BY <1>1 DEF Become, Alike
<1>4. next \notin C.ended
  BY <1>2, <1>3 DEF Ends
<1>5. CASE T.state[t] = "Completed"
  <2>1. N = ScheduleContinuationTask(C, next)
    BY <1>1, <1>3, <1>5 DEF RunContinuation
  <2>2. Become(N, C, next, "Created", <<>>, C.ended, C.scheduled \cup {next})
    BY <1>2, <1>3, <2>1, Scheduled
  <2>3. C.ended = C.ended \ {next}
    BY <1>4
  <2>4. Ends(N)
    BY <1>2, <2>2, <2>3, EndsStay
  <2> QED
    BY <1>2, <1>3, <1>5, <2>2, <2>4 DEF Become, Alike, N
<1>6. CASE T.state[t] = "Canceled"
  <2>1. N = End(C, next, "Canceled")
    BY <1>1, <1>3, <1>6 DEF RunContinuation, CancelWithExceptionHolder
  <2>2. Become(N, C, next, "Canceled", <<>>, C.ended, C.scheduled)
    <3>1. "Canceled" \in {"Completed", "Canceled"} /\ C.state[next] # "Canceled"
      BY <1>3
    <3> QED
      BY <1>2, <1>3, <2>1, <3>1, Ending
  <2>3. C.ended = C.ended \ {next}
    BY <1>4
  <2>4. Ends(N)
    BY <1>2, <2>2, <2>3, EndsStay
  <2> QED
    BY <1>2, <1>3, <1>6, <2>2, <2>4 DEF Become, Alike, N
<1> QED
  BY <1>5, <1>6 DEF HasEnded

LEMMA Parts ==
  ASSUME IInv
  PROVE  /\ TypeOK /\ NothingLost /\ EndsKept /\ RequestPart /\ LoopPart /\ TurnPart /\ WaitPart
         /\ BufferPart /\ EndPart
         /\ tasks \in Tasks /\ Ends(tasks)
         /\ Task = {"request", "respond", "loop", "receive", "getn", "copy"}
BY ResponseAssumption DEF IInv, TypeOK, EndsKept

LEMMA DataStays ==
  ASSUME NothingLost, WaitPart, EndPart, S'["loop"] = S["loop"],
         UNCHANGED <<buffer, turn, event, outbuf, checked, target>>
  PROVE  NothingLost' /\ WaitPart' /\ EndPart'
<1>1. NothingLost'
  BY DEF NothingLost
<1>2. WaitPart'
  BY DEF WaitPart, InTurn
<1>3. EndPart'
  BY DEF EndPart, InTurn
<1> QED
  BY <1>1, <1>2, <1>3

LEMMA BufferStays ==
  ASSUME BufferPart, S'["request"] = S["request"], UNCHANGED <<buffer, network>>
  PROVE  BufferPart'
BY DEF BufferPart

LEMMA InitHolds ==
  ASSUME Init
  PROVE  IInv
<1>1. /\ Task = {"request", "respond", "loop", "receive", "getn", "copy"} /\ Body \in Seq(Char)
      /\ buf_size \in Nat /\ buf_size > 0 /\ MaxSyncs \in Nat
  BY ResponseAssumption
<1>2. tasks \in Tasks
  BY DEF Init, NoTasks, Tasks, TaskState
<1>3. \A x \in Task : S[x] = "none" /\ K[x] = <<>> /\ x \notin D
  BY DEF Init, NoTasks, S, K, D
<1>4. /\ <<>> \in Seq(Char) /\ <<>> \in Seq(Block) /\ <<>> \in Seq(Nat) /\ Len(<<>>) = 0
      /\ <<>> \o <<>> = <<>>
  OBVIOUS
<1>5. Unread(buffer) = <<>>
  BY NothingUnread DEF Init, NewBuffer, Unread
<1>6. Good(buffer)
  BY <1>4, <1>5 DEF Good, WellRead, Init, NewBuffer, Buffer
<1>7. TypeOK
  BY <1>1, <1>2, <1>4, <1>6 DEF TypeOK, Init, NewBuffer, Good
<1>8. NothingLost
  <2>1. SubSeq(Body, 1, 0) = <<>>
    BY <1>1, SubSeqEmpty
  <2> QED
    BY <1>4, <1>5, <2>1 DEF NothingLost, Init, NewBuffer
<1>9. EndsKept
  BY <1>3 DEF EndsKept, Ends, Init, NoTasks, HasEnded, K
<1>10. RequestPart
  BY <1>1, <1>3 DEF RequestPart, Init
<1>11. LoopPart
  BY <1>1, <1>3 DEF LoopPart, HasLoop, Init
<1>12. TurnPart
  BY <1>1, <1>3 DEF TurnPart, Init, NewBuffer
<1>13. WaitPart
  BY <1>1, <1>3 DEF WaitPart, InTurn, Init, NewBuffer
<1>14. BufferPart
  BY <1>1, <1>3, <1>6 DEF BufferPart, Init, NewBuffer
<1>15. EndPart
  BY <1>1, <1>3 DEF EndPart, InTurn, Init
<1> QED
  BY <1>7, <1>8, <1>9, <1>10, <1>11, <1>12, <1>13, <1>14, <1>15 DEF IInv

LEMMA SendKeeps ==
  ASSUME IInv, Send
  PROVE  IInv'
<1>1. Become(tasks', tasks, "request", "Created", K["request"], tasks.ended \ {"request"}, D)
  BY Parts, Created DEF Send, K, D
<1>2. K["request"] = <<>> /\ first = "idle"
  BY Parts DEF Send, RequestPart
<1>3. tasks' \in Tasks /\ EndsKept'
  <2>1. Ends(tasks')
    BY <1>1, <1>2, Parts, EndsStay
  <2> QED
    BY <1>1, <2>1 DEF Become, EndsKept
<1>4. \A x \in Task : x # "request" => Same(x)
  BY <1>1, Parts, Others, AlikeIsSame DEF D
<1>5. S'["request"] = "Created" /\ K'["request"] = <<>> /\ D' = D
  BY <1>1, <1>2, Parts DEF Become, S, K, D
<1>6. Same("respond") /\ Same("loop") /\ Same("receive") /\ Same("getn") /\ Same("copy")
  BY <1>4, Parts
<1>7. TypeOK'
  BY <1>3, Parts DEF TypeOK, Send
<1>8. NothingLost' /\ WaitPart' /\ EndPart'
  BY <1>6, Parts, DataStays DEF Send, Same
<1>9. RequestPart'
  BY <1>2, <1>5, <1>6, Parts DEF RequestPart, Same, Send
<1>10. LoopPart'
  BY <1>6, Parts, LoopStays DEF Send, Same
<1>11. TurnPart'
  <2>1. "request" \notin D'
    BY <1>5, Parts DEF TurnPart
  <2> QED
    BY <1>6, <2>1, Parts, TurnStays DEF Send
<1>12. BufferPart'
  <2>1. network = "idle" /\ network' = "waiting" /\ buffer' = buffer
    BY Parts DEF Send, RequestPart
  <2> QED
    BY <2>1, Parts DEF BufferPart
<1> QED
  BY <1>3, <1>7, <1>8, <1>9, <1>10, <1>11, <1>12 DEF IInv

LEMMA ThenRespondKeeps ==
  ASSUME IInv, ThenRespond
  PROVE  IInv'
<1>1. /\ K["request"] = <<>> /\ K["respond"] = <<>> /\ first = "idle" /\ "respond" \notin D
      /\ network # "idle"
  BY Parts DEF ThenRespond, RequestPart
<1>2. /\ tasks' \in Tasks /\ Ends(tasks')
      /\ \A x \in Task : x \notin {"request", "respond"} => Alike(tasks', tasks, x)
      /\ S'["request"] = S["request"] /\ ("request" \in D' <=> "request" \in D)
      /\ K'["respond"] = <<>>
      /\ K'["request"] = IF S["request"] \in {"Completed", "Canceled"} THEN <<>>
                         ELSE <<"respond">>
      /\ "respond" \in D' <=> S["request"] = "Completed"
      /\ S'["respond"] = IF S["request"] = "Canceled" THEN "Canceled" ELSE "Created"
  BY <1>1, Parts, ThenWaits DEF ThenRespond, S, K, D
<1>3. Same("loop") /\ Same("receive") /\ Same("getn") /\ Same("copy")
  BY <1>2, Parts, AlikeIsSame
<1>4. TypeOK'
  BY <1>2, Parts DEF TypeOK, ThenRespond
<1>5. NothingLost' /\ WaitPart' /\ EndPart'
  BY <1>3, Parts, DataStays DEF ThenRespond, Same
<1>6. RequestPart'
  BY <1>1, <1>2, Parts DEF RequestPart, ThenRespond, HasEnded, S, K, D
<1>7. LoopPart'
  BY <1>1, <1>3, Parts DEF LoopPart, HasLoop, Same, ThenRespond
<1>8. TurnPart'
  <2>1. "request" \notin D'
    BY <1>2, Parts DEF TurnPart
  <2> QED
    BY <1>3, <2>1, Parts, TurnStays DEF ThenRespond
<1>9. BufferPart'
  BY <1>2, Parts, BufferStays DEF ThenRespond
<1> QED
  BY <1>2, <1>4, <1>5, <1>6, <1>7, <1>8, <1>9 DEF IInv, EndsKept

\* The request ends with the response or with an exception.
LEMMA RequestEnds ==
  ASSUME IInv, network = "waiting", NEW state \in {"Completed", "Canceled"},
         tasks' = End(tasks, "request", state),
         network' = IF state = "Completed" THEN "body" ELSE "close",
         UNCHANGED <<running, buffer, syncs, caller, first, turn, event, outbuf, checked, target>>
  PROVE  IInv'
<1> DEFINE ended == IF K["request"] = <<>> THEN tasks.ended ELSE tasks.ended \cup {"request"}
<1>1. S["request"] = "Created" /\ K["respond"] = <<>> /\ first = "idle" /\ caller # "send"
  BY Parts DEF RequestPart
<1>2. Become(tasks', tasks, "request", state, K["request"], ended, D)
  BY <1>1, Parts, Ending DEF S, K, D
<1>3. tasks' \in Tasks /\ EndsKept'
  <2>1. "request" \notin tasks.ended
    BY <1>1, Parts DEF Ends, HasEnded, S
  <2>2. ended = IF K["request"] # <<>> /\ state \in {"Completed", "Canceled"}
                THEN tasks.ended \cup {"request"} ELSE tasks.ended \ {"request"}
    BY <2>1
  <2> HIDE DEF ended
  <2>3. Ends(tasks')
    BY <1>2, <2>2, Parts, EndsStay
  <2> QED
    BY <1>2, <2>3 DEF Become, EndsKept
<1>4. \A x \in Task : x # "request" => Same(x)
  BY <1>2, Parts, Others, AlikeIsSame DEF D
<1>5. S'["request"] = state /\ K'["request"] = K["request"] /\ D' = D
  BY <1>2, Parts DEF Become, S, K, D
<1>6. Same("respond") /\ Same("loop") /\ Same("receive") /\ Same("getn") /\ Same("copy")
  BY <1>4, Parts
<1>7. TypeOK'
  BY <1>3, Parts DEF TypeOK
<1>8. NothingLost' /\ WaitPart' /\ EndPart'
  BY <1>6, Parts, DataStays DEF Same
<1>9. RequestPart'
  BY <1>1, <1>5, <1>6, Parts DEF RequestPart, Same, HasEnded, S
<1>10. LoopPart'
  BY <1>6, Parts, LoopStays DEF Same
<1>11. TurnPart'
  <2>1. "request" \notin D'
    BY <1>5, Parts DEF TurnPart
  <2> QED
    BY <1>6, <2>1, Parts, TurnStays
<1>12. BufferPart'
  BY <1>5, Parts DEF BufferPart
<1> QED
  BY <1>3, <1>7, <1>8, <1>9, <1>10, <1>11, <1>12 DEF IInv

\* Only how far the network is, the exception and the end of the writing change.
LEMMA NetworkGoesOn ==
  ASSUME IInv, UNCHANGED <<running, tasks, syncs, caller, first, turn, event, outbuf, checked,
                           target>>,
         buffer.m_stream_can_write,
         \/ /\ network = "body" /\ UNCHANGED buffer
            /\ \/ network' = "close_with_exception"
               \/ network' = "close" /\ buffer.m_total_written = Len(Body)
         \/ network = "close_with_exception" /\ network' = "close" /\ MarkException
         \/ /\ network = "close" /\ network' = "fulfill"
            /\ buffer' = [buffer EXCEPT !.m_stream_can_write = FALSE]
  PROVE  IInv'
<1>1. Good(buffer) /\ buffer \in Buffer
  BY Parts DEF BufferPart, Good
<1>2. /\ buffer'.m_blocks = buffer.m_blocks /\ buffer'.m_total = buffer.m_total
      /\ buffer'.m_total_read = buffer.m_total_read
      /\ buffer'.m_total_written = buffer.m_total_written
      /\ buffer'.m_synced = buffer.m_synced /\ buffer'.m_requests = buffer.m_requests
      /\ buffer' \in Buffer
      /\ buffer'.m_stream_can_write <=> network' # "fulfill"
      /\ network = "close_with_exception" => buffer'.m_currentException
      /\ network # "close_with_exception" =>
           buffer'.m_currentException = buffer.m_currentException
  BY <1>1 DEF Buffer, MarkException
<1>3. Unread(buffer') = Unread(buffer) /\ Good(buffer')
  BY <1>1, <1>2 DEF Good, Unread
<1>4. TypeOK'
  BY <1>2, Parts DEF TypeOK
<1>5. NothingLost'
  BY <1>2, <1>3, Parts DEF NothingLost
<1>6. EndsKept'
  BY Parts DEF EndsKept
<1>7. RequestPart'
  BY Parts DEF RequestPart, S, K, D
<1>8. LoopPart'
  BY Parts DEF LoopPart, HasLoop, S, K, D
<1>9. TurnPart'
  BY <1>2, Parts DEF TurnPart, GetnState, S, K, D
<1>10. WaitPart'
  BY <1>2, Parts DEF WaitPart, InTurn, S
<1>11. BufferPart'
  BY <1>2, <1>3, Parts DEF BufferPart, S
<1>12. EndPart'
  BY <1>2, Parts DEF EndPart, InTurn, S
<1> QED
  BY <1>4, <1>5, <1>6, <1>7, <1>8, <1>9, <1>10, <1>11, <1>12 DEF IInv

LEMMA ReceiveChunkKeeps ==
  ASSUME IInv, ReceiveChunk
  PROVE  IInv'
<1>1. Good(buffer) /\ buffer.m_total_written \in Nat
  BY Parts, Fields DEF BufferPart, Good
<1>2. PICK n \in Chunks :
        /\ buffer.m_total_written + n <= Len(Body)
        /\ LET chunk == SubSeq(Body, buffer.m_total_written + 1, buffer.m_total_written + n)
           IN  \/ Reply(write(buffer, chunk))
               \/ \E size \in Chunks : size >= n /\ Reply(commit(buffer, size, chunk))
  BY DEF ReceiveChunk
<1> DEFINE chunk == SubSeq(Body, buffer.m_total_written + 1, buffer.m_total_written + n)
<1>3. n \in Nat /\ n > 0 /\ Body \in Seq(Char) /\ Len(Body) \in Nat /\ Chunks \subseteq Nat
  BY ResponseAssumption
<1>4. chunk \in Seq(Char) /\ Len(chunk) = n
  <2> DEFINE m == buffer.m_total_written
  <2>1. m \in Nat /\ m + n <= Len(Body)
    BY <1>1, <1>2
  <2> HIDE DEF m
  <2>2. SubSeq(Body, m + 1, m + n) \in Seq(Char) /\ Len(SubSeq(Body, m + 1, m + n)) = n
    <3>1. \A i \in m + 1 .. m + n : i \in 1 .. Len(Body)
      BY <1>3, <2>1
    <3>2. /\ SubSeq(Body, m + 1, m + n) \in Seq(Char)
          /\ Len(SubSeq(Body, m + 1, m + n)) = IF m + 1 <= m + n THEN m + n - (m + 1) + 1 ELSE 0
      BY <1>3, <2>1, <3>1, SubSeqProperties
    <3> QED
      BY <1>3, <2>1, <3>2
  <2> QED
    BY <2>2 DEF m
<1>5. chunk # <<>>
  <2> HIDE DEF chunk
  <2> QED
    BY <1>3, <1>4
<1>6. chunk = SubSeq(Body, buffer.m_total_written + 1, buffer.m_total_written + Len(chunk))
  BY <1>4
<1>7. \/ Reply(write(buffer, chunk))
      \/ \E size \in Chunks : size >= n /\ Reply(commit(buffer, size, chunk))
  BY <1>2
<1> HIDE DEF chunk
<1>8. PICK more : Grows(buffer, more, chunk) /\ Reply(fulfill_outstanding(more))
  <2>1. CASE Reply(write(buffer, chunk))
    <3>1. PICK more : /\ Grows(buffer, more, chunk)
                      /\ write(buffer, chunk) = fulfill_outstanding(more)
      BY <1>1, <1>4, <1>5, WriteGrows
    <3> QED
      BY <2>1, <3>1
  <2>2. ASSUME NEW size \in Chunks, Reply(commit(buffer, size, chunk))
        PROVE  \E more : Grows(buffer, more, chunk) /\ Reply(fulfill_outstanding(more))
    <3>1. PICK more : /\ Grows(buffer, more, chunk)
                      /\ commit(buffer, size, chunk) = fulfill_outstanding(more)
      BY <1>1, <1>3, <1>4, <1>5, CommitGrows
    <3> QED
      BY <2>2, <3>1
  <2> QED
    BY <1>7, <2>1, <2>2
<1>9. syncs' \in 0 .. MaxSyncs
  BY Parts DEF ReceiveChunk, TypeOK
<1>10. buffer.m_total_written + Len(chunk) <= Len(Body)
  BY <1>2, <1>4
<1> QED
  BY <1>4, <1>6, <1>8, <1>9, <1>10, NetworkKeeps DEF ReceiveChunk

\* Nothing is written.
LEMMA NothingWritten ==
  ASSUME BufferPart
  PROVE  /\ <<>> = SubSeq(Body, buffer.m_total_written + 1, buffer.m_total_written + Len(<<>>))
         /\ <<>> \in Seq(Char) /\ buffer.m_total_written + Len(<<>>) <= Len(Body)
         /\ Grows(buffer, buffer, <<>>)
<1> DEFINE m == buffer.m_total_written
<1>1. m \in Nat /\ Good(buffer) /\ buffer.m_total \in Nat /\ m <= Len(Body)
  BY Fields DEF BufferPart, Good
<1>2. Unread(buffer) \in Seq(Char)
  BY <1>1, UnreadIsText DEF Good, Unread, WellRead
<1>3. Len(<<>>) = 0 /\ <<>> \in Seq(Char) /\ Unread(buffer) \o <<>> = Unread(buffer)
  BY <1>2, ConcatEmptySeq
<1>4. Grows(buffer, buffer, <<>>)
  BY <1>1, <1>3 DEF Grows
<1> HIDE DEF m
<1>5. SubSeq(Body, m + 1, m + 0) = <<>>
  BY <1>1, ResponseAssumption, SubSeqEmpty
<1> QED
  BY <1>1, <1>3, <1>4, <1>5 DEF m

LEMMA FlushKeeps ==
  ASSUME IInv, Flush
  PROVE  IInv'
<1>1. PICK more : Grows(buffer, more, <<>>) /\ Reply(fulfill_outstanding(more))
  BY Parts, SyncGrows DEF Flush, BufferPart
<1>2. syncs' \in 0 .. MaxSyncs
  BY Parts, ResponseAssumption DEF Flush, TypeOK
<1> QED
  BY <1>1, <1>2, Parts, NothingWritten, NetworkKeeps DEF Flush

LEMMA FulfillLastKeeps ==
  ASSUME IInv, FulfillLast
  PROVE  IInv'
<1>1. syncs' \in 0 .. MaxSyncs
  BY Parts DEF FulfillLast, TypeOK
<1> QED
  BY <1>1, Parts, NothingWritten, NetworkKeeps DEF FulfillLast

LEMMA ReportExceptionKeeps ==
  ASSUME IInv, report_exception
  PROVE  IInv'
<1>1. CASE network = "waiting"
  BY <1>1, RequestEnds DEF report_exception, CancelWithExceptionHolder
<1>2. CASE network = "body"
  <2>1. buffer.m_stream_can_write
    BY <1>2, Parts DEF BufferPart
  <2> QED
    BY <1>2, <2>1, NetworkGoesOn DEF report_exception
<1> QED
  BY <1>1, <1>2 DEF report_exception

\* A step of the network's thread.
LEMMA NetworkStepKeeps ==
  ASSUME IInv, \/ complete_headers \/ ReceiveChunk \/ Flush \/ complete_request
               \/ report_exception \/ SetException \/ CloseWrite \/ FulfillLast
  PROVE  IInv'
<1>1. network \notin {"fulfill", "done"} => buffer.m_stream_can_write
  BY Parts DEF BufferPart
<1>2. CASE complete_headers
  BY <1>2, RequestEnds DEF complete_headers, FinalizeAndRunContinuations
<1>3. CASE complete_request
  BY <1>1, <1>3, NetworkGoesOn DEF complete_request
<1>4. CASE SetException
  BY <1>1, <1>4, NetworkGoesOn DEF SetException
<1>5. CASE CloseWrite
  BY <1>1, <1>5, NetworkGoesOn DEF CloseWrite
<1> QED
  BY <1>2, <1>3, <1>4, <1>5, ReceiveChunkKeeps, FlushKeeps, FulfillLastKeeps,
     ReportExceptionKeeps

LEMMA StartRespondKeeps ==
  ASSUME IInv, StartRespond
  PROVE  IInv'
<1>1. /\ caller = "done" /\ first = "idle" /\ K["request"] = <<>> /\ K["respond"] = <<>>
      /\ S["request"] = "Completed" /\ network # "waiting"
  BY Parts DEF StartRespond, RequestPart, TypeOK, D
<1>2. Become(tasks', tasks, "respond", "Started", <<>>, tasks.ended, D \ {"respond"})
  BY <1>1, Parts, Starting DEF StartRespond, S, K, D
<1>3. tasks' \in Tasks /\ EndsKept'
  <2>1. tasks.ended = tasks.ended \ {"respond"}
    BY <1>1, Parts DEF Ends, K
  <2>2. Ends(tasks')
    BY <1>2, <2>1, Parts, EndsStay
  <2> QED
    BY <1>2, <2>2 DEF Become, EndsKept
<1>4. \A x \in Task : x # "respond" => Same(x)
  BY <1>2, Parts, Others, AlikeIsSame DEF D
<1>5. S'["respond"] = "Started" /\ K'["respond"] = <<>> /\ "respond" \notin D'
  BY <1>2, Parts DEF Become, S, K, D
<1>6. Same("request") /\ Same("loop") /\ Same("receive") /\ Same("getn") /\ Same("copy")
  BY <1>4, Parts
<1>7. TypeOK'
  BY <1>3, Parts DEF TypeOK, StartRespond
<1>8. NothingLost' /\ WaitPart' /\ EndPart'
  BY <1>6, Parts, DataStays DEF StartRespond, Same
<1>9. RequestPart'
  BY <1>1, <1>5, <1>6, Parts DEF RequestPart, Same, StartRespond, HasEnded, S
<1>10. LoopPart'
  BY <1>1, <1>6, Parts DEF LoopPart, HasLoop, Same, StartRespond
<1>11. TurnPart'
  <2>1. "request" \notin D'
    BY <1>6, Parts DEF TurnPart, Same
  <2> QED
    BY <1>6, <2>1, Parts, TurnStays DEF StartRespond
<1>12. BufferPart'
  BY <1>6, Parts, BufferStays DEF StartRespond, Same
<1> QED
  BY <1>3, <1>7, <1>8, <1>9, <1>10, <1>11, <1>12 DEF IInv

\* The first lambda ends: its buffer could not be allocated, or the loop has its continuation.
LEMMA RespondEnds ==
  ASSUME IInv, NEW state \in {"Completed", "Canceled"}, tasks' = End(tasks, "respond", state),
         first = IF state = "Completed" THEN "return" ELSE "new", first' = "done",
         UNCHANGED <<running, buffer, network, syncs, caller, turn, event, outbuf, checked,
                     target>>
  PROVE  IInv'
<1>1. /\ caller = "done" /\ K["request"] = <<>> /\ K["respond"] = <<>>
      /\ S["respond"] = "Started"
  BY Parts DEF RequestPart, TypeOK
<1>2. Become(tasks', tasks, "respond", state, <<>>, tasks.ended, D)
  BY <1>1, Parts, Ending DEF S, K, D
<1>3. tasks' \in Tasks /\ EndsKept'
  <2>1. tasks.ended = tasks.ended \ {"respond"}
    BY <1>1, Parts DEF Ends, K
  <2>2. Ends(tasks')
    BY <1>2, <2>1, Parts, EndsStay
  <2> QED
    BY <1>2, <2>2 DEF Become, EndsKept
<1>4. \A x \in Task : x # "respond" => Same(x)
  BY <1>2, Parts, Others, AlikeIsSame DEF D
<1>5. S'["respond"] = state /\ K'["respond"] = <<>> /\ D' = D
  BY <1>2, Parts DEF Become, S, K, D
<1>6. Same("request") /\ Same("loop") /\ Same("receive") /\ Same("getn") /\ Same("copy")
  BY <1>4, Parts
<1>7. TypeOK'
  BY <1>3, Parts DEF TypeOK
<1>8. NothingLost' /\ WaitPart' /\ EndPart'
  BY <1>6, Parts, DataStays DEF Same
<1>9. RequestPart'
  BY <1>1, <1>5, <1>6, Parts DEF RequestPart, Same, HasEnded, S
<1>10. LoopPart'
  BY <1>1, <1>5, <1>6, Parts DEF LoopPart, HasLoop, Same
<1>11. TurnPart'
  <2>1. "request" \notin D'
    BY <1>6, Parts DEF TurnPart, Same
  <2> QED
    BY <1>6, <2>1, Parts, TurnStays
<1>12. BufferPart'
  BY <1>6, Parts, BufferStays DEF Same
<1> QED
  BY <1>3, <1>7, <1>8, <1>9, <1>10, <1>11, <1>12 DEF IInv

LEMMA BeginReadingKeeps ==
  ASSUME IInv, BeginReading
  PROVE  IInv'
<1>1. /\ ~HasLoop /\ S["loop"] = "none" /\ K["loop"] = <<>> /\ K["receive"] = <<>>
      /\ S["receive"] = "none" /\ "receive" \notin D
  BY Parts DEF BeginReading, LoopPart, HasLoop
<1>2. Become(tasks', tasks, "loop", "Created", <<>>, tasks.ended \ {"loop"}, D)
  BY <1>1, Parts, Created DEF BeginReading, K, D
<1>3. tasks' \in Tasks /\ EndsKept'
  <2>1. Ends(tasks')
    BY <1>2, Parts, EndsStay
  <2> QED
    BY <1>2, <2>1 DEF Become, EndsKept
<1>4. \A x \in Task : x # "loop" => Same(x)
  BY <1>2, Parts, Others, AlikeIsSame DEF D
<1>5. S'["loop"] = "Created" /\ K'["loop"] = <<>> /\ D' = D
  BY <1>2, Parts DEF Become, S, K, D
<1>6. Same("request") /\ Same("respond") /\ Same("receive") /\ Same("getn") /\ Same("copy")
  BY <1>4, Parts
<1>7. TypeOK'
  BY <1>3, Parts DEF TypeOK, BeginReading
<1>8. NothingLost' /\ WaitPart' /\ EndPart'
  <2>1. NothingLost'
    BY Parts DEF NothingLost, BeginReading
  <2>2. ~InTurn'
    BY DEF InTurn, BeginReading
  <2>3. WaitPart'
    BY <2>2, Parts DEF WaitPart, BeginReading
  <2>4. EndPart'
    BY <1>5, <2>2, Parts DEF EndPart, BeginReading
  <2> QED
    BY <2>1, <2>3, <2>4
<1>9. RequestPart'
  BY <1>6, Parts DEF RequestPart, Same, BeginReading, HasEnded, S
<1>10. LoopPart'
  BY <1>1, <1>5, <1>6, Parts DEF LoopPart, HasLoop, Same, BeginReading
<1>11. TurnPart'
  BY <1>1, <1>5, <1>6, Parts DEF TurnPart, Same, BeginReading
<1>12. BufferPart'
  BY <1>6, Parts, BufferStays DEF BeginReading, Same
<1> QED
  BY <1>3, <1>7, <1>8, <1>9, <1>10, <1>11, <1>12 DEF IInv

LEMMA ThenReceiveKeeps ==
  ASSUME IInv, ThenReceive
  PROVE  IInv'
<1>1. /\ K["loop"] = <<>> /\ K["receive"] = <<>> /\ "receive" \notin D /\ "loop" \notin D
      /\ S["loop"] \in {"Created", "Completed", "Canceled"}
  BY Parts DEF ThenReceive, LoopPart, HasLoop, TurnPart
<1>2. /\ tasks' \in Tasks /\ Ends(tasks')
      /\ \A x \in Task : x \notin {"loop", "receive"} => Alike(tasks', tasks, x)
      /\ S'["loop"] = S["loop"] /\ "loop" \notin D'
      /\ K'["receive"] = <<>>
      /\ K'["loop"] = IF S["loop"] \in {"Completed", "Canceled"} THEN <<>> ELSE <<"receive">>
      /\ "receive" \in D' <=> S["loop"] = "Completed"
      /\ S'["receive"] = IF S["loop"] = "Canceled" THEN "Canceled" ELSE "Created"
  BY <1>1, Parts, ThenWaits DEF ThenReceive, S, K, D
<1>3. Same("request") /\ Same("respond") /\ Same("getn") /\ Same("copy")
  BY <1>2, Parts, AlikeIsSame
<1>4. TypeOK'
  BY <1>2, Parts DEF TypeOK, ThenReceive
<1>5. NothingLost' /\ WaitPart' /\ EndPart'
  BY <1>2, Parts, DataStays DEF ThenReceive
<1>6. RequestPart'
  BY <1>3, Parts DEF RequestPart, ThenReceive, HasEnded, Same, S, K, D
<1>7. LoopPart'
  BY <1>1, <1>2, <1>3, Parts DEF LoopPart, HasLoop, Same, ThenReceive
<1>8. TurnPart'
  BY <1>2, <1>3, Parts DEF TurnPart, GetnState, Same, ThenReceive
<1>9. BufferPart'
  BY <1>3, Parts, BufferStays DEF ThenReceive, Same
<1> QED
  BY <1>2, <1>4, <1>5, <1>6, <1>7, <1>8, <1>9 DEF IInv, EndsKept

\* The read of a new turn is answered at once, or waits.
LEMMA Enqueued ==
  ASSUME NEW b, Good(b), b.m_requests = <<>>
  PROVE  LET result == enqueue_request(b, buf_size)
         IN  \/ /\ can_satisfy(b, buf_size)
                /\ result.replies # <<>> /\ result.buffer.m_requests = <<>>
                /\ Answers(b, result.buffer, result.replies[1])
             \/ /\ ~can_satisfy(b, buf_size)
                /\ result.replies = <<>> /\ result.buffer = [b EXCEPT !.m_requests = <<buf_size>>]
<1> DEFINE after == read(b, buf_size).buffer
           chars == read(b, buf_size).chars
           result == enqueue_request(b, buf_size)
<1>1. CASE can_satisfy(b, buf_size)
  <2>1. Answers(b, after, chars) /\ after.m_requests = <<>>
    BY <1>1, ReadAnswers
  <2>2. result.buffer = after /\ result.replies = <<chars>>
    BY <1>1 DEF enqueue_request
  <2> HIDE DEF after, chars, result
  <2>3. <<chars>> # <<>> /\ <<chars>>[1] = chars
    OBVIOUS
  <2> QED
    BY <1>1, <2>1, <2>2, <2>3 DEF result
<1>2. CASE ~can_satisfy(b, buf_size)
  <2>1. b \in Buffer /\ Append(<<>>, buf_size) = <<buf_size>>
    BY DEF Good
  <2>2. result = Nothing([b EXCEPT !.m_requests = Append(b.m_requests, buf_size)])
    BY <1>2 DEF enqueue_request
  <2> HIDE DEF result
  <2>3. result.buffer = [b EXCEPT !.m_requests = <<buf_size>>] /\ result.replies = <<>>
    BY <2>1, <2>2 DEF Nothing
  <2> QED
    BY <1>2, <2>3 DEF result
<1> QED
  BY <1>1, <1>2

LEMMA GetnKeeps ==
  ASSUME IInv, Getn
  PROVE  IInv'
<1> DEFINE result == enqueue_request(buffer, buf_size)
<1>1. /\ S["loop"] = "Created" /\ K["getn"] = <<>> /\ "copy" \notin D /\ outbuf = <<>>
      /\ buffer.m_requests = <<>> /\ Good(buffer) /\ target \in Seq(Char)
  BY Parts DEF Getn, TurnPart, BufferPart, TypeOK
<1>2. /\ buffer' = result.buffer
      /\ event' = [registered |-> FALSE, set |-> result.replies # <<>>]
      /\ outbuf' = IF result.replies = <<>> THEN <<>> ELSE result.replies[1]
  BY DEF Getn
<1>3. \/ /\ can_satisfy(buffer, buf_size)
         /\ result.replies # <<>> /\ result.buffer.m_requests = <<>>
         /\ Answers(buffer, result.buffer, result.replies[1])
      \/ /\ ~can_satisfy(buffer, buf_size)
         /\ result.replies = <<>> /\ result.buffer = [buffer EXCEPT !.m_requests = <<buf_size>>]
  BY <1>1, Enqueued
<1> HIDE DEF result
<1>4. buf_size \in Nat /\ buf_size > 0
  BY ResponseAssumption
<1>5. /\ (target \o outbuf) \o Unread(buffer) = SubSeq(Body, 1, buffer.m_total_written)
      /\ target \o outbuf = target /\ buffer.m_total_read = Len(target)
      /\ buffer.m_total_read \in Nat
  <2>1. target \o outbuf = target
    BY <1>1, ConcatEmptySeq
  <2> QED
    BY <1>1, <2>1, Parts, Fields DEF NothingLost, Good
<1>6. /\ Good(buffer') /\ outbuf' \in Seq(Char) /\ Len(outbuf') <= buf_size
      /\ outbuf' \o Unread(buffer') = Unread(buffer)
      /\ buffer'.m_total_read = buffer.m_total_read + Len(outbuf')
      /\ buffer'.m_total_written = buffer.m_total_written
      /\ buffer'.m_stream_can_write = buffer.m_stream_can_write
      /\ buffer'.m_currentException = buffer.m_currentException
      /\ event'.set /\ outbuf' = <<>> => buffer'.m_total = 0 /\ ~buffer'.m_stream_can_write
      /\ buffer'.m_requests = IF event'.set THEN <<>> ELSE <<buf_size>>
      /\ ~event'.set => outbuf' = <<>> /\ buffer'.m_total < buf_size /\ buffer'.m_synced = 0
  <2>1. CASE can_satisfy(buffer, buf_size)
    <3>1. /\ event'.set /\ Answers(buffer, buffer', outbuf') /\ buffer'.m_requests = <<>>
      BY <1>2, <1>3, <2>1
    <3> QED
      BY <3>1 DEF Answers
  <2>2. CASE ~can_satisfy(buffer, buf_size)
    <3>1. /\ ~event'.set /\ outbuf' = <<>>
          /\ buffer' = [buffer EXCEPT !.m_requests = <<buf_size>>]
      BY <1>2, <1>3, <2>2
    <3>2. <<buf_size>> \in Seq(Nat)
      BY <1>4
    <3>3. /\ Good(buffer') /\ buffer'.m_requests = <<buf_size>>
          /\ Unread(buffer') = Unread(buffer)
          /\ buffer'.m_total = buffer.m_total /\ buffer'.m_total_read = buffer.m_total_read
          /\ buffer'.m_total_written = buffer.m_total_written
          /\ buffer'.m_synced = buffer.m_synced
          /\ buffer'.m_stream_can_write = buffer.m_stream_can_write
          /\ buffer'.m_currentException = buffer.m_currentException
      BY <1>1, <3>1, <3>2, RequestsGone
    <3>4. buffer.m_total < buf_size /\ buffer.m_synced = 0
      BY <1>1, <1>4, <2>2, Fields DEF can_satisfy, Good
    <3>5. <<>> \o Unread(buffer) = Unread(buffer) /\ <<>> \in Seq(Char) /\ Len(<<>>) = 0
      BY <1>1, UnreadIsText, ConcatEmptySeq DEF Good, Unread, WellRead
    <3> QED
      BY <1>4, <1>5, <3>1, <3>3, <3>4, <3>5
  <2> QED
    BY <2>1, <2>2
<1>7. TypeOK'
  <2>1. event' \in [registered: BOOLEAN, set: BOOLEAN]
    BY <1>2
  <2>2. /\ Len(buffer'.m_requests) <= 1
        /\ buffer'.m_requests # <<>> => ~event'.set /\ buffer'.m_total < buf_size
    <3>1. Len(<<>>) = 0 /\ Len(<<buf_size>>) = 1
      OBVIOUS
    <3> QED
      BY <1>6, <3>1
  <2> QED
    BY <1>6, <2>1, <2>2, Parts DEF TypeOK, Getn, Good
<1>8. NothingLost'
  <2>1. (target \o outbuf') \o Unread(buffer') = target \o (outbuf' \o Unread(buffer'))
    <3> DEFINE a == outbuf'
               b == Unread(buffer')
    <3>1. a \in Seq(Char) /\ b \in Seq(Char) /\ target \in Seq(Char)
      BY <1>1, <1>6, UnreadIsText DEF Good, Unread, WellRead
    <3> HIDE DEF a, b
    <3>2. (target \o a) \o b = target \o (a \o b)
      BY <3>1
    <3> QED
      BY <3>2 DEF a, b
  <2>2. Len(target \o outbuf') = Len(target) + Len(outbuf')
    BY <1>1, <1>6
  <2>3. target' = target
    BY DEF Getn
  <2> QED
    BY <1>5, <1>6, <2>1, <2>2, <2>3 DEF NothingLost, Good
<1>9. EndsKept'
  BY Parts DEF EndsKept, Getn
<1>10. RequestPart'
  BY Parts DEF RequestPart, S, K, D, Getn
<1>11. LoopPart'
  BY Parts DEF LoopPart, HasLoop, S, K, D, Getn
<1>12. TurnPart'
  BY <1>1, <1>2, Parts DEF TurnPart, S, K, D, Getn
<1>13. WaitPart'
  BY <1>6 DEF WaitPart, Getn
<1>14. BufferPart'
  BY <1>6, Parts DEF BufferPart, S, Getn
<1>15. EndPart'
  BY <1>6, Parts DEF EndPart, S, Getn
<1> QED
  BY <1>7, <1>8, <1>9, <1>10, <1>11, <1>12, <1>13, <1>14, <1>15 DEF IInv

LEMMA RegisterTaskKeeps ==
  ASSUME IInv, RegisterTask
  PROVE  IInv'
<1> DEFINE T == Create(tasks, "getn")
<1>1. /\ K["getn"] = <<>> /\ event \in [registered: BOOLEAN, set: BOOLEAN]
      /\ "copy" \notin D /\ S["loop"] = "Created" /\ checked = "no"
  BY Parts DEF RegisterTask, TurnPart, TypeOK
<1>2. Become(T, tasks, "getn", "Created", <<>>, tasks.ended \ {"getn"}, D)
  <2>1. Become(T, tasks, "getn", "Created", K["getn"], tasks.ended \ {"getn"}, D)
    BY Parts, Created DEF K, D
  <2> QED
    BY <1>1, <2>1
<1>3. T \in Tasks /\ Ends(T) /\ T.scheduled = D /\ T.ended = tasks.ended \ {"getn"}
  <2>1. Ends(T)
    BY <1>2, Parts, EndsStay
  <2> QED
    BY <1>2, <2>1 DEF Become
<1>4. /\ \A x \in Task : x # "getn" => Alike(T, tasks, x)
      /\ T.state["getn"] = "Created" /\ T.continuations["getn"] = <<>>
  BY <1>2, Parts, Others DEF Become, D
<1>5. tasks' = IF event.set THEN End(T, "getn", "Completed") ELSE T
  BY DEF RegisterTask, FinalizeAndRunContinuations
<1> HIDE DEF T
<1>6. /\ tasks' \in Tasks /\ Ends(tasks') /\ D' = D
      /\ \A x \in Task : x # "getn" => Alike(tasks', tasks, x)
      /\ S'["getn"] = IF event.set THEN "Completed" ELSE "Created"
      /\ K'["getn"] = <<>>
  <2>1. CASE event.set
    <3>1. "Completed" \in {"Completed", "Canceled"} /\ tasks' = End(T, "getn", "Completed")
      BY <1>5, <2>1
    <3>2. Become(tasks', T, "getn", "Completed", <<>>, T.ended, T.scheduled)
      BY <1>3, <1>4, <3>1, Parts, Ending
    <3>3. T.ended = T.ended \ {"getn"}
      BY <1>3
    <3>4. Ends(tasks')
      BY <1>3, <3>2, <3>3, Parts, EndsStay
    <3>5. \A x \in Task : x # "getn" => Alike(tasks', T, x)
      BY <1>3, <3>2, Parts, Others
    <3> QED
      BY <1>3, <1>4, <2>1, <3>2, <3>4, <3>5, Parts DEF Become, Alike, S, K, D
  <2>2. CASE ~event.set
    BY <1>3, <1>4, <1>5, <2>2 DEF S, K, D
  <2> QED
    BY <2>1, <2>2
<1>7. /\ Same("request") /\ Same("respond") /\ Same("loop") /\ Same("receive")
      /\ Same("copy")
  BY <1>6, Parts, AlikeIsSame
<1>8. event'.registered /\ event'.set = event.set
      /\ event' \in [registered: BOOLEAN, set: BOOLEAN]
  BY <1>1 DEF RegisterTask
<1>9. TypeOK'
  BY <1>6, <1>8, Parts DEF TypeOK, RegisterTask
<1>10. NothingLost'
  BY Parts DEF NothingLost, RegisterTask
<1>11. RequestPart'
  BY <1>7, Parts, RequestStays DEF RegisterTask
<1>12. LoopPart'
  BY <1>7, Parts, LoopStays DEF RegisterTask, Same
<1>13. TurnPart'
  BY <1>1, <1>6, <1>7, <1>8, Parts DEF TurnPart, GetnState, Same, RegisterTask, S
<1>14. WaitPart'
  BY <1>7, <1>8, Parts DEF WaitPart, InTurn, Same, RegisterTask
<1>15. BufferPart'
  BY <1>7, Parts, BufferStays DEF RegisterTask, Same
<1>16. EndPart'
  BY <1>7, <1>8, Parts DEF EndPart, InTurn, Same, RegisterTask
<1> QED
  BY <1>6, <1>9, <1>10, <1>11, <1>12, <1>13, <1>14, <1>15, <1>16 DEF IInv, EndsKept

LEMMA CheckAtOnceKeeps ==
  ASSUME IInv, CheckAtOnce
  PROVE  IInv'
<1>1. /\ S["loop"] = "Created" /\ K["getn"] = <<>> /\ "copy" \notin D /\ GetnState
      /\ event.registered /\ checked = "no"
  BY Parts DEF CheckAtOnce, TurnPart
<1>2. checked' = IF event.set THEN Check ELSE "no"
  BY <1>1 DEF CheckAtOnce, GetnState, HasEnded, S
<1>3. TypeOK'
  BY <1>2, Parts DEF TypeOK, CheckAtOnce, Check
<1>4. NothingLost'
  BY Parts DEF NothingLost, CheckAtOnce
<1>5. EndsKept'
  BY Parts DEF EndsKept, CheckAtOnce
<1>6. RequestPart'
  BY Parts DEF RequestPart, S, K, D, CheckAtOnce
<1>7. LoopPart'
  BY Parts DEF LoopPart, HasLoop, S, K, D, CheckAtOnce
<1>8. TurnPart'
  BY <1>1, Parts DEF TurnPart, GetnState, S, K, D, CheckAtOnce
<1>9. WaitPart'
  BY <1>2, Parts DEF WaitPart, InTurn, S, CheckAtOnce
<1>10. BufferPart'
  BY Parts DEF BufferPart, S, CheckAtOnce
<1>11. EndPart'
  BY <1>2, Parts DEF EndPart, InTurn, Check, S, CheckAtOnce
<1> QED
  BY <1>3, <1>4, <1>5, <1>6, <1>7, <1>8, <1>9, <1>10, <1>11 DEF IInv

LEMMA ThenCopyKeeps ==
  ASSUME IInv, ThenCopy
  PROVE  IInv'
<1>1. /\ S["loop"] = "Created" /\ K["getn"] = <<>> /\ K["copy"] = <<>> /\ "copy" \notin D
      /\ GetnState /\ event.registered /\ "getn" \notin D
  BY Parts DEF ThenCopy, TurnPart
<1>2. /\ tasks' \in Tasks /\ Ends(tasks')
      /\ \A x \in Task : x \notin {"getn", "copy"} => Alike(tasks', tasks, x)
      /\ S'["getn"] = S["getn"] /\ "getn" \notin D'
      /\ K'["copy"] = <<>>
      /\ K'["getn"] = IF S["getn"] \in {"Completed", "Canceled"} THEN <<>> ELSE <<"copy">>
      /\ "copy" \in D' <=> S["getn"] = "Completed"
      /\ S'["copy"] = IF S["getn"] = "Canceled" THEN "Canceled" ELSE "Created"
  BY <1>1, Parts, ThenWaits DEF ThenCopy, S, K, D
<1>3. Same("request") /\ Same("respond") /\ Same("loop") /\ Same("receive")
  BY <1>2, Parts, AlikeIsSame
<1>4. TypeOK'
  BY <1>2, Parts DEF TypeOK, ThenCopy
<1>5. NothingLost'
  BY Parts DEF NothingLost, ThenCopy
<1>6. RequestPart'
  BY <1>3, Parts, RequestStays DEF ThenCopy
<1>7. LoopPart'
  BY <1>3, Parts, LoopStays DEF ThenCopy, Same
<1>8. TurnPart'
  BY <1>1, <1>2, <1>3, Parts DEF TurnPart, GetnState, Same, ThenCopy, S
<1>9. WaitPart'
  BY <1>1, <1>3, Parts DEF WaitPart, InTurn, Same, ThenCopy
<1>10. BufferPart'
  BY <1>3, Parts, BufferStays DEF ThenCopy, Same
<1>11. EndPart'
  BY <1>1, <1>3, Parts DEF EndPart, InTurn, Same, ThenCopy
<1> QED
  BY <1>2, <1>4, <1>5, <1>6, <1>7, <1>8, <1>9, <1>10, <1>11 DEF IInv, EndsKept

\* A task that is scheduled is invoked, and ends; it has no continuation.
LEMMA Invoked ==
  ASSUME NEW T \in Tasks, Ends(T), NEW t \in Task, T.continuations[t] = <<>>
  PROVE  LET N == FinalizeAndRunContinuations(TransitionedToStarted(T, t), t)
         IN  /\ N \in Tasks /\ Ends(N)
             /\ \A x \in Task : x # t => Alike(N, T, x)
             /\ N.state[t] = "Completed" /\ N.continuations[t] = <<>> /\ t \notin N.scheduled
<1> DEFINE C == TransitionedToStarted(T, t)
           N == FinalizeAndRunContinuations(C, t)
<1>1. Become(C, T, t, "Started", <<>>, T.ended, T.scheduled \ {t})
  BY Starting
<1>2. N = End(C, t, "Completed")
  BY DEF FinalizeAndRunContinuations
<1> HIDE DEF C, N
<1>3. T.ended = T.ended \ {t}
  BY DEF Ends
<1>4. Ends(C)
  BY <1>1, <1>3, EndsStay
<1>5. \A x \in Task : x # t => Alike(C, T, x)
  BY <1>1, Others
<1>6. /\ C \in Tasks /\ C.state[t] = "Started" /\ C.continuations[t] = <<>>
      /\ C.ended = T.ended /\ C.scheduled = T.scheduled \ {t}
  BY <1>1 DEF Become
<1>7. Become(N, C, t, "Completed", <<>>, C.ended, C.scheduled)
  <2>1. "Completed" \in {"Completed", "Canceled"} /\ C.state[t] # "Canceled"
    BY <1>6
  <2> QED
    BY <1>2, <1>6, <2>1, Ending
<1>8. Ends(N)
  <2>1. C.ended = C.ended \ {t}
    BY <1>3, <1>6
  <2> QED
    BY <1>4, <1>6, <1>7, <2>1, EndsStay
<1>9. \A x \in Task : x # t => Alike(N, C, x)
  BY <1>6, <1>7, Others
<1>10. N \in Tasks /\ N.state[t] = "Completed" /\ N.continuations[t] = <<>> /\ t \notin N.scheduled
  BY <1>6, <1>7 DEF Become
<1>11. \A x \in Task : x # t => Alike(N, T, x)
  BY <1>5, <1>9 DEF Alike
<1> QED
  BY <1>8, <1>10, <1>11 DEF N, C

\* The loop ends, after the copying or with it.
LEMMA LoopEnds ==
  ASSUME IInv, NEW T \in Tasks, Ends(T), turn = "idle", S["loop"] = "Created",
         event.set, K["getn"] = <<>>,
         \A x \in Task : x # "copy" => Alike(T, tasks, x),
         T.continuations["copy"] = <<>>, "copy" \notin T.scheduled,
         NEW state \in {"Completed", "Canceled"}, state = "Completed" => target = Body,
         tasks' = End(T, "loop", state),
         UNCHANGED <<running, buffer, network, syncs, caller, first, turn, event, outbuf,
                     checked, target>>
  PROVE  IInv'
<1> DEFINE ended == IF T.continuations["loop"] = <<>> THEN T.ended ELSE T.ended \cup {"loop"}
<1>1. T.state["loop"] = "Created" /\ T.continuations["loop"] = K["loop"]
  BY Parts DEF Alike, S, K
<1>2. Become(tasks', T, "loop", state, T.continuations["loop"], ended, T.scheduled)
  BY <1>1, Parts, Ending
<1>3. Ends(tasks')
  <2>1. "loop" \notin T.ended
    BY <1>1 DEF Ends, HasEnded
  <2>2. ended = IF T.continuations["loop"] # <<>> /\ state \in {"Completed", "Canceled"}
                THEN T.ended \cup {"loop"} ELSE T.ended \ {"loop"}
    BY <2>1
  <2> HIDE DEF ended
  <2> QED
    BY <1>2, <2>2, Parts, EndsStay
<1> HIDE DEF ended
<1>4. \A x \in Task : x # "loop" => Alike(tasks', T, x)
  BY <1>2, Parts, Others
<1>5. /\ tasks' \in Tasks /\ S'["loop"] = state /\ K'["loop"] = K["loop"]
      /\ "loop" \notin D' /\ "copy" \notin D' /\ K'["copy"] = <<>>
  <2>1. "loop" \notin T.scheduled
    BY Parts DEF Alike, TurnPart, D
  <2> QED
    BY <1>1, <1>2, <2>1, Parts DEF Become, S, K, D
<1>6. Same("request") /\ Same("respond") /\ Same("receive") /\ Same("getn")
  <2>1. \A x \in Task : x \notin {"loop", "copy"} => Alike(tasks', tasks, x)
    BY <1>4 DEF Alike
  <2> QED
    BY <2>1, Parts, AlikeIsSame
<1>7. TypeOK'
  <2>1. <<>> \in Seq(Char) /\ Len(<<>>) = 0 /\ buf_size \in Nat
    BY ResponseAssumption
  <2> QED
    BY <1>5, <2>1, Parts DEF TypeOK
<1>8. NothingLost'
  BY Parts DEF NothingLost
<1>9. RequestPart'
  BY <1>6, Parts, RequestStays
<1>10. LoopPart'
  BY <1>5, <1>6, Parts DEF LoopPart, HasLoop, Same
<1>11. buffer.m_requests = <<>>
  BY Parts DEF WaitPart, InTurn
<1>12. TurnPart'
  BY <1>5, <1>6, <1>11, Parts DEF TurnPart, Same
<1>13. WaitPart'
  BY <1>5, <1>11 DEF WaitPart, InTurn
<1>14. BufferPart'
  BY <1>6, Parts, BufferStays DEF Same
<1>15. EndPart'
  BY <1>5, Parts DEF EndPart, InTurn
<1> QED
  BY <1>3, <1>5, <1>7, <1>8, <1>9, <1>10, <1>12, <1>13, <1>14, <1>15 DEF IInv, EndsKept

LEMMA CopyKeeps ==
  ASSUME IInv, Copy
  PROVE  IInv'
<1> DEFINE T == FinalizeAndRunContinuations(TransitionedToStarted(tasks, "copy"), "copy")
           result == IF checked = "no" THEN Check ELSE checked
<1>1. /\ S["loop"] = "Created" /\ K["getn"] = <<>> /\ K["copy"] = <<>> /\ event.set
      /\ event.registered /\ turn = "idle"
  BY Parts DEF Copy, TurnPart, D
<1>2. /\ T \in Tasks /\ Ends(T) /\ \A x \in Task : x # "copy" => Alike(T, tasks, x)
      /\ T.state["copy"] = "Completed" /\ T.continuations["copy"] = <<>>
      /\ "copy" \notin T.scheduled
  BY <1>1, Parts, Invoked DEF K
<1>3. /\ \/ /\ tasks' = CancelWithExceptionHolder(T, "loop")
            /\ UNCHANGED <<turn, outbuf, target>>
         \/ /\ result = "passed" /\ outbuf = <<>>
            /\ tasks' = FinalizeAndRunContinuations(T, "loop")
            /\ UNCHANGED <<turn, outbuf, target>>
         \/ /\ result = "passed" /\ outbuf # <<>>
            /\ tasks' = T
            /\ turn' = "enqueue" /\ outbuf' = <<>> /\ target' = target \o outbuf
      /\ UNCHANGED <<running, buffer, network, syncs, caller, first, event, checked>>
  BY DEF Copy
<1>4. /\ result \in {"passed", "exception"}
      /\ result = "exception" => outbuf = <<>>
      /\ outbuf = <<>> /\ result = "passed" => ~buffer.m_currentException
  BY <1>1, Parts DEF EndPart, InTurn, Check, TypeOK
<1> HIDE DEF T, result
<1>5. buffer.m_requests = <<>>
  BY <1>1, Parts DEF WaitPart, InTurn
<1>6. CASE tasks' = CancelWithExceptionHolder(T, "loop") /\ UNCHANGED <<turn, outbuf, target>>
  <2>1. tasks' = End(T, "loop", "Canceled")
    BY <1>6 DEF CancelWithExceptionHolder
  <2> QED
    BY <1>1, <1>2, <1>3, <1>6, <2>1, LoopEnds
<1>7. CASE /\ result = "passed" /\ outbuf = <<>>
           /\ tasks' = FinalizeAndRunContinuations(T, "loop")
           /\ UNCHANGED <<turn, outbuf, target>>
  <2>1. tasks' = End(T, "loop", "Completed")
    BY <1>7 DEF FinalizeAndRunContinuations
  <2>2. target = Body
    <3>1. ~buffer.m_stream_can_write /\ buffer.m_total = 0 /\ ~buffer.m_currentException
      BY <1>1, <1>4, <1>7, Parts DEF EndPart, InTurn
    <3>2. S["request"] = "Completed"
      BY <1>1, Parts DEF RequestPart, LoopPart, HasLoop
    <3>3. buffer.m_total_written = Len(Body)
      BY <3>1, <3>2, Parts DEF BufferPart
    <3>4. Unread(buffer) = <<>>
      <4>1. Good(buffer)
        BY Parts DEF BufferPart
      <4>2. Unread(buffer) \in Seq(Char) /\ Len(Unread(buffer)) = 0
        BY <3>1, <4>1, UnreadIsText DEF Good, Unread, WellRead
      <4> QED
        BY <4>2, EmptySeq
    <3>5. (target \o <<>>) \o <<>> = target /\ target \in Seq(Char)
      <4>1. target \in Seq(Char)
        BY Parts DEF TypeOK
      <4> QED
        BY <4>1, ConcatEmptySeq
    <3>6. SubSeq(Body, 1, Len(Body)) = Body
      BY ResponseAssumption, SubSeqFull
    <3> QED
      BY <1>7, <3>3, <3>4, <3>5, <3>6, Parts DEF NothingLost
  <2> QED
    BY <1>1, <1>2, <1>3, <1>7, <2>1, <2>2, LoopEnds
<1>8. CASE /\ result = "passed" /\ outbuf # <<>>
           /\ tasks' = T
           /\ turn' = "enqueue" /\ outbuf' = <<>> /\ target' = target \o outbuf
  <2>1. tasks' = T /\ turn' = "enqueue" /\ outbuf' = <<>> /\ target' = target \o outbuf
    BY <1>8
  <2>2. /\ Same("request") /\ Same("respond") /\ Same("loop") /\ Same("receive")
        /\ Same("getn")
    BY <1>2, <2>1, Parts, AlikeIsSame
  <2>3. /\ <<>> \in Seq(Char) /\ Len(<<>>) = 0 /\ buf_size \in Nat
        /\ target \o outbuf \in Seq(Char)
    BY ResponseAssumption, Parts DEF TypeOK
  <2>4. TypeOK'
    BY <1>2, <1>3, <2>1, <2>3, Parts DEF TypeOK
  <2>5. NothingLost'
    <3>1. target' \o outbuf' = target \o outbuf
      BY <1>3, <2>1, <2>3, ConcatEmptySeq
    <3> QED
      BY <1>3, <3>1, Parts DEF NothingLost
  <2>6. EndsKept'
    BY <1>2, <2>1 DEF EndsKept
  <2>7. RequestPart'
    BY <1>3, <2>2, Parts, RequestStays
  <2>8. LoopPart'
    BY <1>1, <1>3, <2>1, <2>2, Parts DEF LoopPart, HasLoop, Same
  <2>9. TurnPart'
    BY <1>1, <1>2, <1>3, <1>5, <2>1, <2>2, Parts DEF TurnPart, Same, K, D
  <2>10. WaitPart'
    BY <1>3, <1>5, <2>1 DEF WaitPart, InTurn
  <2>11. BufferPart'
    BY <1>3, <2>2, Parts, BufferStays DEF Same
  <2>12. EndPart'
    BY <1>1, <1>3, <2>1, <2>2 DEF EndPart, InTurn, Same
  <2> QED
    BY <2>4, <2>5, <2>6, <2>7, <2>8, <2>9, <2>10, <2>11, <2>12 DEF IInv
<1> QED
  BY <1>3, <1>6, <1>7, <1>8

LEMMA ReceiveKeeps ==
  ASSUME IInv, Receive
  PROVE  IInv'
<1>1. /\ K["receive"] = <<>> /\ K["loop"] = <<>> /\ HasLoop /\ first # "loop"
      /\ S["loop"] = "Completed"
  BY Parts DEF Receive, LoopPart, D
<1>2. /\ tasks' \in Tasks /\ Ends(tasks')
      /\ \A x \in Task : x # "receive" => Alike(tasks', tasks, x)
      /\ S'["receive"] = "Completed" /\ K'["receive"] = <<>> /\ "receive" \notin D'
  BY <1>1, Parts, Invoked DEF Receive, S, K, D
<1>3. Same("request") /\ Same("respond") /\ Same("loop") /\ Same("getn") /\ Same("copy")
  BY <1>2, Parts, AlikeIsSame
<1>4. TypeOK'
  BY <1>2, Parts DEF TypeOK, Receive
<1>5. NothingLost' /\ WaitPart' /\ EndPart'
  BY <1>3, Parts, DataStays DEF Receive, Same
<1>6. RequestPart'
  BY <1>3, Parts, RequestStays DEF Receive
<1>7. LoopPart'
  BY <1>1, <1>2, <1>3, Parts DEF LoopPart, HasLoop, Same, Receive
<1>8. TurnPart'
  <2>1. "request" \notin D'
    BY <1>3, Parts DEF TurnPart, Same
  <2> QED
    BY <1>3, <2>1, Parts, TurnStays DEF Receive
<1>9. BufferPart'
  BY <1>3, Parts, BufferStays DEF Receive, Same
<1> QED
  BY <1>2, <1>4, <1>5, <1>6, <1>7, <1>8, <1>9 DEF IInv, EndsKept

\* Of the tasks that have ended, these are the ones that have a continuation to be run.
LEMMA WhoRuns ==
  ASSUME IInv, NEW t \in tasks.ended
  PROVE  \/ /\ t = "request" /\ K["request"] = <<"respond">> /\ S["respond"] = "Created"
            /\ "respond" \notin D /\ K["respond"] = <<>>
            /\ S["request"] \in {"Completed", "Canceled"} /\ caller = "done" /\ first = "idle"
         \/ /\ t = "loop" /\ K["loop"] = <<"receive">> /\ S["receive"] = "Created"
            /\ "receive" \notin D /\ K["receive"] = <<>>
            /\ S["loop"] \in {"Completed", "Canceled"} /\ HasLoop /\ first # "loop"
         \/ /\ t = "getn" /\ K["getn"] = <<"copy">> /\ S["copy"] = "Created"
            /\ "copy" \notin D /\ K["copy"] = <<>> /\ S["getn"] = "Completed"
            /\ event.set /\ event.registered /\ S["loop"] = "Created" /\ turn = "idle"
<1>1. t \in Task /\ K[t] # <<>> /\ S[t] \in {"Completed", "Canceled"}
  BY Parts DEF Ends, HasEnded, K, S
<1>2. t \in {"request", "loop", "getn"}
  BY <1>1, Parts DEF RequestPart, LoopPart, TurnPart
<1>3. CASE t = "request"
  BY <1>1, <1>3, Parts DEF RequestPart, TypeOK
<1>4. CASE t = "loop"
  BY <1>1, <1>4, Parts DEF LoopPart
<1>5. CASE t = "getn"
  BY <1>1, <1>5, Parts DEF TurnPart, GetnState
<1> QED
  BY <1>2, <1>3, <1>4, <1>5

LEMMA RunContinuationsKeeps ==
  ASSUME IInv, RunContinuations
  PROVE  IInv'
<1>1. PICK t \in tasks.ended : tasks' = RunTaskContinuations(tasks, t)
  BY DEF RunContinuations
<1>2. UNCHANGED <<running, buffer, network, syncs, caller, first, turn, event, outbuf, checked,
                  target>>
  BY DEF RunContinuations
<1>3. ASSUME NEW next \in Task, t # next, t \in Task, K[t] = <<next>>, K[next] = <<>>,
             S[next] = "Created", next \notin D, S[t] \in {"Completed", "Canceled"}
      PROVE  /\ tasks' \in Tasks /\ Ends(tasks')
             /\ \A x \in Task : x \notin {t, next} => Same(x)
             /\ S'[t] = S[t] /\ (t \in D' <=> t \in D) /\ K'[next] = <<>> /\ K'[t] = <<>>
             /\ next \in D' <=> S[t] = "Completed"
             /\ S'[next] = IF S[t] = "Canceled" THEN "Canceled" ELSE "Created"
  <2>1. /\ tasks' \in Tasks /\ Ends(tasks')
        /\ \A x \in Task : x \notin {t, next} => Alike(tasks', tasks, x)
        /\ S'[t] = S[t] /\ (t \in D' <=> t \in D) /\ K'[next] = <<>> /\ K'[t] = <<>>
        /\ next \in D' <=> S[t] = "Completed" \/ next \in D
        /\ S'[next] = IF S[t] = "Canceled" THEN "Canceled" ELSE "Created"
    BY <1>1, <1>3, Parts, NextIsRun DEF HasEnded, S, K, D
  <2> QED
    BY <1>3, <2>1, AlikeIsSame
<1>4. ASSUME tasks' \in Tasks, Ends(tasks'), S'["loop"] = S["loop"],
             S'["request"] = S["request"]
      PROVE  TypeOK' /\ NothingLost' /\ EndsKept' /\ WaitPart' /\ BufferPart' /\ EndPart'
  <2>1. TypeOK'
    BY <1>2, <1>4, Parts DEF TypeOK
  <2>2. NothingLost' /\ WaitPart' /\ EndPart'
    BY <1>2, <1>4, Parts, DataStays
  <2>3. BufferPart'
    BY <1>2, <1>4, Parts, BufferStays
  <2> QED
    BY <1>4, <2>1, <2>2, <2>3 DEF EndsKept
<1>5. CASE t = "request"
  <2>1. /\ K["request"] = <<"respond">> /\ S["respond"] = "Created" /\ "respond" \notin D
        /\ K["respond"] = <<>> /\ S["request"] \in {"Completed", "Canceled"}
        /\ caller = "done" /\ first = "idle"
    BY <1>5, WhoRuns
  <2>2. /\ tasks' \in Tasks /\ Ends(tasks')
        /\ \A x \in Task : x \notin {"request", "respond"} => Same(x)
        /\ S'["request"] = S["request"] /\ ("request" \in D' <=> "request" \in D)
        /\ K'["respond"] = <<>> /\ K'["request"] = <<>>
        /\ "respond" \in D' <=> S["request"] = "Completed"
        /\ S'["respond"] = IF S["request"] = "Canceled" THEN "Canceled" ELSE "Created"
    BY <1>3, <1>5, <2>1, Parts
  <2>3. Same("loop") /\ Same("receive") /\ Same("getn") /\ Same("copy")
    BY <2>2, Parts
  <2>4. RequestPart'
    BY <1>2, <2>1, <2>2, Parts DEF RequestPart, HasEnded, S, K
  <2>5. LoopPart'
    BY <1>2, <2>1, <2>3, Parts DEF LoopPart, HasLoop, Same
  <2>6. TurnPart'
    <3>1. "request" \notin D'
      BY <2>2, Parts DEF TurnPart
    <3> QED
      BY <1>2, <2>3, <3>1, Parts, TurnStays
  <2>7. TypeOK' /\ NothingLost' /\ EndsKept' /\ WaitPart' /\ BufferPart' /\ EndPart'
    BY <1>4, <1>5, <2>2, <2>3 DEF Same
  <2> QED
    BY <2>4, <2>5, <2>6, <2>7 DEF IInv
<1>6. CASE t = "loop"
  <2>1. /\ K["loop"] = <<"receive">> /\ S["receive"] = "Created" /\ "receive" \notin D
        /\ K["receive"] = <<>> /\ S["loop"] \in {"Completed", "Canceled"} /\ HasLoop
        /\ first # "loop"
    BY <1>6, WhoRuns
  <2>2. /\ tasks' \in Tasks /\ Ends(tasks')
        /\ \A x \in Task : x \notin {"loop", "receive"} => Same(x)
        /\ S'["loop"] = S["loop"] /\ ("loop" \in D' <=> "loop" \in D)
        /\ K'["receive"] = <<>> /\ K'["loop"] = <<>>
        /\ "receive" \in D' <=> S["loop"] = "Completed"
        /\ S'["receive"] = IF S["loop"] = "Canceled" THEN "Canceled" ELSE "Created"
    BY <1>3, <1>6, <2>1, Parts
  <2>3. Same("request") /\ Same("respond") /\ Same("getn") /\ Same("copy")
    BY <2>2, Parts
  <2>4. RequestPart'
    BY <1>2, <2>3, Parts, RequestStays
  <2>5. LoopPart'
    BY <1>2, <2>1, <2>2, <2>3, Parts DEF LoopPart, HasLoop, Same
  <2>6. TurnPart'
    BY <1>2, <2>1, <2>2, <2>3, Parts DEF TurnPart, Same
  <2>7. TypeOK' /\ NothingLost' /\ EndsKept' /\ WaitPart' /\ BufferPart' /\ EndPart'
    BY <1>4, <2>2, <2>3 DEF Same
  <2> QED
    BY <2>4, <2>5, <2>6, <2>7 DEF IInv
<1>7. CASE t = "getn"
  <2>1. /\ K["getn"] = <<"copy">> /\ S["copy"] = "Created" /\ "copy" \notin D
        /\ K["copy"] = <<>> /\ S["getn"] = "Completed" /\ event.set /\ event.registered
        /\ S["loop"] = "Created" /\ turn = "idle"
    BY <1>7, WhoRuns
  <2>2. /\ tasks' \in Tasks /\ Ends(tasks')
        /\ \A x \in Task : x \notin {"getn", "copy"} => Same(x)
        /\ ("getn" \in D' <=> "getn" \in D)
        /\ K'["copy"] = <<>> /\ K'["getn"] = <<>> /\ "copy" \in D' /\ S'["copy"] = "Created"
    BY <1>3, <1>7, <2>1, Parts
  <2>3. Same("request") /\ Same("respond") /\ Same("loop") /\ Same("receive")
    BY <2>2, Parts
  <2>4. RequestPart'
    BY <1>2, <2>3, Parts, RequestStays
  <2>5. LoopPart'
    BY <1>2, <2>3, Parts, LoopStays DEF Same
  <2>6. TurnPart'
    BY <1>2, <2>1, <2>2, <2>3, Parts DEF TurnPart, Same
  <2>7. TypeOK' /\ NothingLost' /\ EndsKept' /\ WaitPart' /\ BufferPart' /\ EndPart'
    BY <1>4, <2>2, <2>3 DEF Same
  <2> QED
    BY <2>4, <2>5, <2>6, <2>7 DEF IInv
<1> QED
  BY <1>5, <1>6, <1>7, WhoRuns

LEMMA Inductive ==
  ASSUME IInv, [Next]_vars
  PROVE  IInv'
<1>1. CASE StartRespond \/ NewThrows \/ BeginReading \/ ThenReceive \/ EndRespond
  <2>1. CASE NewThrows
    BY <2>1, RespondEnds DEF NewThrows, CancelWithExceptionHolder
  <2>2. CASE EndRespond
    BY <2>2, RespondEnds DEF EndRespond, FinalizeAndRunContinuations
  <2> QED
    BY <1>1, <2>1, <2>2, StartRespondKeeps, BeginReadingKeeps, ThenReceiveKeeps
<1>2. CASE FreeException \/ UNCHANGED vars
  <2>1. UNCHANGED <<tasks, buffer, network, syncs, caller, first, turn, event, outbuf, checked,
                    target>> /\ running' \in BOOLEAN
    BY <1>2, Parts DEF FreeException, vars, TypeOK
  <2>2. TypeOK'
    BY <2>1, Parts DEF TypeOK
  <2>3. NothingLost' /\ WaitPart' /\ EndPart'
    BY <2>1, Parts, DataStays DEF S
  <2>4. EndsKept'
    BY <2>1, Parts DEF EndsKept
  <2>5. RequestPart' /\ LoopPart' /\ TurnPart' /\ BufferPart'
    <3>1. RequestPart'
      BY <2>1, Parts DEF RequestPart, S, K, D
    <3>2. LoopPart'
      BY <2>1, Parts DEF LoopPart, HasLoop, S, K, D
    <3>3. TurnPart'
      BY <2>1, Parts DEF TurnPart, GetnState, S, K, D
    <3>4. BufferPart'
      BY <2>1, Parts, BufferStays DEF S
    <3> QED
      BY <3>1, <3>2, <3>3, <3>4
  <2> QED
    BY <2>2, <2>3, <2>4, <2>5 DEF IInv
<1> QED
  BY <1>1, <1>2, NetworkStepKeeps, SendKeeps, ThenRespondKeeps, GetnKeeps, RegisterTaskKeeps,
     CheckAtOnceKeeps, ThenCopyKeeps, CopyKeeps, ReceiveKeeps, RunContinuationsKeeps
  DEF Next, ThreadStep

\* The inductive invariant holds of every behaviour.
THEOREM Invariance == Spec => []IInv
<1>1. Init => IInv
  BY InitHolds
<1>2. IInv /\ [Next]_vars => IInv'
  BY Inductive
<1> QED
  BY <1>1, <1>2, PTL DEF Spec

\* For every body, size of the blocks, of the chunks and of the reads: one read at most waits,
\* and only while what it asks for is not there.
THEOREM ResponseTypeCorrect == Spec => []TypeOK
<1>1. IInv => TypeOK
  BY DEF IInv
<1> QED
  BY <1>1, Invariance, PTL

\* What the target, the loop's memory and the buffer hold is always together what the server has
\* sent so far, in its order.
THEOREM NothingIsLost == Spec => []NothingLost
<1>1. IInv => NothingLost
  BY DEF IInv
<1> QED
  BY <1>1, Invariance, PTL

-----------------------------------------------------------------------------
(* The request is for the plugin what IPCheck takes for granted.           *)

Got == IF Stage = "filtering" THEN target ELSE <<>>

\* The steps of the abstract exchange, in the terms of the mapping.
LEMMA ExchangeSteps ==
  ASSUME running,
         \/ UNCHANGED <<Stage, Got, running>>
         \/ Stage = "none" /\ Stage' = "requested" /\ UNCHANGED running
         \/ Stage = "requested" /\ Stage' = "reading" /\ UNCHANGED running
         \/ Stage = "reading" /\ Stage' = "filtering" /\ Got' = Body /\ UNCHANGED running
         \/ Stage \in {"requested", "reading"} /\ Stage' = "failed" /\ UNCHANGED running
         \/ Stage = "failed" /\ running' = FALSE /\ UNCHANGED <<Stage, Got>>
  PROVE  [Abstract!Next]_(Abstract!vars)
BY DEF Abstract!Next, Abstract!vars, Abstract!SendRequest, Abstract!Respond,
       Abstract!ReceiveBody, Abstract!Fail, Abstract!TerminateUnobserved, Got

LEMMA UnobservedIs == Unobserved <=> S["respond"] = "Canceled" \/ S["receive"] = "Canceled"
BY DEF Unobserved, S

\* Only the two tasks of the plugin, what the lambda and the caller do, and at the end the
\* target, are seen of a request.
LEMMA StageStays ==
  ASSUME running, S'["respond"] = S["respond"], S'["receive"] = S["receive"],
         target' = target \/ S["receive"] # "Completed",
         UNCHANGED <<running, caller, first>>
  PROVE  [Abstract!Next]_(Abstract!vars)
<1>1. Unobserved' = Unobserved
  BY DEF Unobserved, S
<1>2. Stage' = Stage
  BY <1>1 DEF Stage, S
<1>3. Stage = "filtering" => target' = target
  BY DEF Stage, S
<1> QED
  BY <1>2, <1>3, ExchangeSteps DEF Got

LEMMA EndOfAnother ==
  ASSUME NEW T \in Tasks, NEW t \in Task, NEW state \in TaskState
  PROVE  /\ End(T, t, state) \in Tasks
         /\ \A x \in Task : x # t => End(T, t, state).state[x] = T.state[x]
<1>1. CASE T.state[t] = "Canceled"
  BY <1>1 DEF End
<1>2. CASE T.state[t] # "Canceled"
  <2> DEFINE ended == IF T.continuations[t] = <<>> THEN T.ended ELSE T.ended \cup {t}
             N == [T EXCEPT !.state[t] = state, !.ended = ended]
  <2>1. End(T, t, state) = N
    BY <1>2 DEF End
  <2>2. ended \in SUBSET Task
    BY FieldsOfTasks
  <2> HIDE DEF ended
  <2>3. N \in Tasks /\ \A x \in Task : x # t => N.state[x] = T.state[x]
    BY <2>2, FieldsOfTasks DEF Tasks
  <2> QED
    BY <2>1, <2>3
<1> QED
  BY <1>1, <1>2

LEMMA NetworkIsNotSeen ==
  ASSUME IInv, \/ complete_headers \/ ReceiveChunk \/ Flush \/ complete_request
               \/ report_exception \/ SetException \/ CloseWrite \/ FulfillLast
  PROVE  [Abstract!Next]_(Abstract!vars)
<1>1. ASSUME NEW result, Reply(result)
      PROVE  S'["respond"] = S["respond"] /\ S'["receive"] = S["receive"]
  <2>1. tasks' = tasks \/ tasks' = End(tasks, "getn", "Completed")
    BY <1>1 DEF Reply, FinalizeAndRunContinuations
  <2>2. CASE tasks' = tasks
    BY <2>2 DEF S
  <2>3. CASE tasks' = End(tasks, "getn", "Completed")
    <3>1. "Completed" \in TaskState
      BY DEF TaskState
    <3>2. \A x \in Task : x # "getn" => tasks'.state[x] = tasks.state[x]
      BY <2>3, <3>1, EndOfAnother, Parts
    <3> QED
      BY <3>2, Parts DEF S
  <2> QED
    BY <2>1, <2>2, <2>3
<1>2. CASE ReceiveChunk
  <2>1. \E result : Reply(result)
    BY <1>2 DEF ReceiveChunk
  <2> QED
    BY <1>1, <1>2, <2>1, StageStays DEF ReceiveChunk
<1>3. CASE Flush \/ FulfillLast
  BY <1>1, <1>3, StageStays DEF Flush, FulfillLast
<1>4. CASE complete_headers \/ (report_exception /\ network = "waiting")
  <2>1. \/ tasks' = End(tasks, "request", "Completed")
        \/ tasks' = End(tasks, "request", "Canceled")
    BY <1>4
    DEF complete_headers, report_exception, FinalizeAndRunContinuations,
        CancelWithExceptionHolder
  <2>2. S'["respond"] = S["respond"] /\ S'["receive"] = S["receive"]
    <3>1. "Completed" \in TaskState /\ "Canceled" \in TaskState
      BY DEF TaskState
    <3> QED
      BY <2>1, <3>1, EndOfAnother, Parts DEF S
  <2> QED
    BY <1>4, <2>2, StageStays DEF complete_headers, report_exception
<1>5. CASE complete_request \/ SetException \/ CloseWrite
  BY <1>5, StageStays DEF complete_request, SetException, CloseWrite, S
<1>6. CASE report_exception /\ network # "waiting"
  BY <1>6, StageStays DEF report_exception, S
<1> QED
  BY <1>2, <1>3, <1>4, <1>5, <1>6

\* Before the loop exists the request has no second continuation, and no stage after it.
LEMMA BeforeReading ==
  ASSUME IInv, first \in {"idle", "new"}
  PROVE  /\ S["receive"] = "none"
         /\ S["respond"] # "Canceled" =>
              Stage = IF caller = "send" THEN "none" ELSE "requested"
         /\ S["respond"] = "Canceled" => Stage = "failed"
<1>1. S["receive"] = "none"
  BY Parts DEF LoopPart, HasLoop
<1> QED
  BY <1>1, UnobservedIs DEF Stage, S

LEMMA WhileReading ==
  ASSUME IInv, HasLoop
  PROVE  /\ S["respond"] # "Canceled"
         /\ S["receive"] \notin {"Canceled", "Completed"} => Stage = "reading"
         /\ S["receive"] = "Completed" => Stage = "filtering"
         /\ S["receive"] = "Canceled" => Stage = "failed"
<1>1. S["respond"] # "Canceled"
  BY Parts DEF HasLoop, RequestPart
<1> QED
  BY <1>1, UnobservedIs DEF Stage, HasLoop, S

LEMMA RespondIsSeen ==
  ASSUME IInv, IInv', Send \/ ThenRespond \/ StartRespond \/ NewThrows \/ BeginReading
  PROVE  [Abstract!Next]_(Abstract!vars)
<1>1. CASE Send
  <2>1. first = "idle" /\ S["respond"] = "none" /\ first' = "idle"
    BY <1>1, Parts DEF Send, RequestPart
  <2>2. S'["respond"] = S["respond"]
    <3>1. Become(tasks', tasks, "request", "Created", K["request"], tasks.ended \ {"request"}, D)
      BY <1>1, Parts, Created DEF Send, K, D
    <3> QED
      BY <3>1, Parts DEF Become, S
  <2>3. Stage = "none"
    BY <1>1, <2>1, BeforeReading DEF Send
  <2>4. Stage' = "requested"
    <3>1. S'["receive"] = "none"
      <4>1. LoopPart'
        BY DEF IInv
      <4> QED
        BY <2>1, <4>1 DEF LoopPart, HasLoop
    <3> QED
      BY <1>1, <2>1, <2>2, <3>1 DEF Stage, Unobserved, S, Send
  <2> QED
    BY <1>1, <2>3, <2>4, ExchangeSteps DEF Send
<1>2. CASE ThenRespond \/ StartRespond \/ NewThrows
  <2>1. /\ first \in {"idle", "new"} /\ caller # "send" /\ caller' # "send"
        /\ S["respond"] # "Canceled" /\ running /\ UNCHANGED running
    BY <1>2, Parts DEF ThenRespond, StartRespond, NewThrows, RequestPart, D, TypeOK
  <2>2. Stage = "requested"
    BY <2>1, BeforeReading
  <2>3. Stage' \in {"requested", "failed"}
    <3>1. S'["receive"] = "none"
      <4>1. LoopPart' /\ RequestPart'
        BY DEF IInv
      <4>2. ~HasLoop'
        <5>1. CASE ThenRespond \/ StartRespond
          BY <2>1, <5>1, Parts
          DEF ThenRespond, StartRespond, HasLoop, RequestPart, D
        <5>2. CASE NewThrows
          <6>1. S["respond"] = "Started" /\ tasks' = End(tasks, "respond", "Canceled")
            BY <5>2, Parts DEF NewThrows, RequestPart, CancelWithExceptionHolder
          <6>2. S'["respond"] = "Canceled"
            BY <6>1, Parts, Ending DEF Become, S
          <6> QED
            BY <5>2, <6>2 DEF NewThrows, HasLoop
        <5> QED
          BY <1>2, <5>1, <5>2
      <4> QED
        BY <4>1, <4>2 DEF LoopPart
    <3>2. CASE ThenRespond \/ StartRespond
      <4>1. first' \notin {"loop", "return", "done"}
        BY <3>2, <2>1 DEF ThenRespond, StartRespond
      <4> QED
        BY <2>1, <3>1, <4>1 DEF Stage, S
    <3>3. CASE NewThrows
      <4>1. S["respond"] = "Started" /\ tasks' = End(tasks, "respond", "Canceled")
        BY <3>3, Parts DEF NewThrows, RequestPart, CancelWithExceptionHolder
      <4>2. S'["respond"] = "Canceled"
        BY <4>1, Parts, Ending DEF Become, S
      <4> QED
        BY <4>2 DEF Stage, Unobserved, S
    <3> QED
      BY <1>2, <3>2, <3>3
  <2> QED
    BY <2>1, <2>2, <2>3, ExchangeSteps DEF Got
<1>3. CASE BeginReading
  <2>1. first = "new" /\ S["respond"] = "Started" /\ S["receive"] = "none" /\ caller # "send"
    BY <1>3, BeforeReading, Parts DEF BeginReading, RequestPart
  <2>2. Stage = "requested"
    BY <2>1, BeforeReading
  <2>3. HasLoop' /\ S'["receive"] = "none"
    <3>1. LoopPart' /\ first' = "loop"
      BY <1>3 DEF BeginReading, IInv
    <3> QED
      BY <3>1 DEF LoopPart, HasLoop
  <2>4. S'["respond"] = "Started"
    <3>1. RequestPart' /\ first' = "loop"
      BY <1>3 DEF BeginReading, IInv
    <3> QED
      BY <3>1 DEF RequestPart
  <2>5. Stage' = "reading"
    BY <1>3, <2>3, <2>4 DEF Stage, Unobserved, BeginReading, S
  <2> QED
    BY <1>3, <2>2, <2>5, ExchangeSteps DEF BeginReading
<1> QED
  BY <1>1, <1>2, <1>3

\* The copies of the loop change the target, but only before the second continuation runs.
LEMMA TurnIsNotSeen ==
  ASSUME IInv, Getn \/ RegisterTask \/ CheckAtOnce \/ ThenCopy \/ Copy
  PROVE  [Abstract!Next]_(Abstract!vars)
<1>1. /\ "Completed" \in TaskState /\ "Canceled" \in TaskState
  BY DEF TaskState
<1>2. CASE Getn \/ CheckAtOnce
  BY <1>2, StageStays DEF Getn, CheckAtOnce, S
<1>3. CASE RegisterTask
  <2> DEFINE T == Create(tasks, "getn")
  <2>1. /\ T \in Tasks /\ T.state["respond"] = S["respond"]
        /\ T.state["receive"] = S["receive"]
    <3>1. Become(T, tasks, "getn", "Created", K["getn"], tasks.ended \ {"getn"}, D)
      BY Parts, Created DEF K, D
    <3> QED
      BY <3>1, Parts DEF Become, S
  <2>2. tasks' = T \/ tasks' = End(T, "getn", "Completed")
    BY <1>3 DEF RegisterTask, FinalizeAndRunContinuations
  <2> HIDE DEF T
  <2>3. S'["respond"] = S["respond"] /\ S'["receive"] = S["receive"]
    <3>1. CASE tasks' = T
      BY <2>1, <3>1 DEF S
    <3>2. CASE tasks' = End(T, "getn", "Completed")
      <4>1. \A x \in Task : x # "getn" => End(T, "getn", "Completed").state[x] = T.state[x]
        <5>1. "getn" \in Task /\ T \in Tasks
          BY <2>1, Parts
        <5> QED
          BY <1>1, <5>1, EndOfAnother
      <4> QED
        BY <2>1, <3>2, <4>1, Parts DEF S
    <3> QED
      BY <2>2, <3>1, <3>2
  <2> QED
    BY <1>3, <2>3, StageStays DEF RegisterTask
<1>4. CASE ThenCopy
  <2>1. K["getn"] = <<>> /\ K["copy"] = <<>> /\ "copy" \notin D
    BY <1>4, Parts DEF ThenCopy, TurnPart
  <2>2. \A x \in Task : x \notin {"getn", "copy"} => Alike(tasks', tasks, x)
    BY <1>4, <2>1, Parts, ThenWaits DEF ThenCopy, K, D
  <2>3. S'["respond"] = S["respond"] /\ S'["receive"] = S["receive"]
    BY <2>2, Parts DEF Alike, S
  <2> QED
    BY <1>4, <2>3, StageStays DEF ThenCopy
<1>5. CASE Copy
  <2> DEFINE T == FinalizeAndRunContinuations(TransitionedToStarted(tasks, "copy"), "copy")
  <2>1. K["copy"] = <<>> /\ S["loop"] = "Created"
    BY <1>5, Parts DEF Copy, TurnPart, D
  <2>2. T \in Tasks /\ \A x \in Task : x # "copy" => Alike(T, tasks, x)
    BY <2>1, Parts, Invoked DEF K
  <2>3. \/ tasks' = T \/ tasks' = End(T, "loop", "Completed")
        \/ tasks' = End(T, "loop", "Canceled")
    BY <1>5 DEF Copy, FinalizeAndRunContinuations, CancelWithExceptionHolder
  <2> HIDE DEF T
  <2>4. T.state["respond"] = S["respond"] /\ T.state["receive"] = S["receive"]
    BY <2>2, Parts DEF Alike, S
  <2>5. S'["respond"] = S["respond"] /\ S'["receive"] = S["receive"]
    <3>1. CASE tasks' = T
      BY <2>4, <3>1 DEF S
    <3>2. ASSUME NEW state \in TaskState, tasks' = End(T, "loop", state)
          PROVE  S'["respond"] = S["respond"] /\ S'["receive"] = S["receive"]
      <4>1. \A x \in Task : x # "loop" => End(T, "loop", state).state[x] = T.state[x]
        <5>1. "loop" \in Task /\ T \in Tasks
          BY <2>2, Parts
        <5> QED
          BY <5>1, EndOfAnother
      <4> QED
        BY <2>4, <3>2, <4>1, Parts DEF S
    <3> QED
      BY <1>1, <2>3, <3>1, <3>2
  <2>6. S["receive"] # "Completed"
    BY <2>1, Parts DEF LoopPart
  <2> QED
    BY <1>5, <2>5, <2>6, StageStays DEF Copy
<1> QED
  BY <1>2, <1>3, <1>4, <1>5

LEMMA ReceiveIsSeen ==
  ASSUME IInv, ThenReceive \/ EndRespond \/ Receive
  PROVE  [Abstract!Next]_(Abstract!vars)
<1>1. CASE ThenReceive
  <2>1. /\ HasLoop /\ S["receive"] = "none" /\ K["loop"] = <<>> /\ K["receive"] = <<>>
        /\ "receive" \notin D /\ S["loop"] \in {"Created", "Completed", "Canceled"}
    BY <1>1, Parts DEF ThenReceive, HasLoop, LoopPart
  <2>2. Stage = "reading" /\ S["respond"] # "Canceled"
    BY <2>1, WhileReading
  <2>3. /\ tasks' \in Tasks /\ Ends(tasks')
        /\ \A x \in Task : x \notin {"loop", "receive"} => Alike(tasks', tasks, x)
        /\ S'["receive"] = IF S["loop"] = "Canceled" THEN "Canceled" ELSE "Created"
    BY <1>1, <2>1, Parts, ThenWaits DEF ThenReceive, S, K, D
  <2>4. S'["respond"] = S["respond"]
    BY <2>3, Parts DEF Alike, S
  <2>5. Stage' \in {"reading", "failed"}
    BY <1>1, <2>3 DEF Stage, ThenReceive, S
  <2> QED
    BY <1>1, <2>2, <2>5, ExchangeSteps DEF ThenReceive, Got
<1>2. CASE EndRespond
  <2>1. S["respond"] = "Started" /\ tasks' = End(tasks, "respond", "Completed")
    BY <1>2, Parts DEF EndRespond, RequestPart, FinalizeAndRunContinuations
  <2>2. S'["respond"] = "Completed"
    BY <2>1, Parts, Ending DEF Become, S
  <2>3. S'["receive"] = S["receive"]
    <3>1. "Completed" \in TaskState
      BY DEF TaskState
    <3>2. \A x \in Task :
            x # "respond" => End(tasks, "respond", "Completed").state[x] = tasks.state[x]
      BY <3>1, EndOfAnother, Parts
    <3> QED
      BY <2>1, <3>2, Parts DEF S
  <2>4. Unobserved' = Unobserved
    BY <2>1, <2>2, <2>3 DEF Unobserved, S
  <2>5. Stage' = Stage
    BY <1>2, <2>3, <2>4 DEF Stage, EndRespond, S
  <2> QED
    BY <1>2, <2>5, ExchangeSteps DEF EndRespond, Got
<1>3. CASE Receive
  <2>1. /\ HasLoop /\ first # "loop" /\ S["loop"] = "Completed" /\ S["receive"] = "Created"
        /\ K["receive"] = <<>>
    BY <1>3, Parts DEF Receive, LoopPart, D
  <2>2. Stage = "reading" /\ S["respond"] # "Canceled"
    BY <2>1, WhileReading
  <2>3. /\ \A x \in Task : x # "receive" => Alike(tasks', tasks, x)
        /\ S'["receive"] = "Completed"
    BY <1>3, <2>1, Parts, Invoked DEF Receive, S, K
  <2>4. S'["respond"] = S["respond"]
    BY <2>3, Parts DEF Alike, S
  <2>5. ~Unobserved'
    BY <2>2, <2>3, <2>4 DEF Unobserved, S
  <2>6. Stage' = "filtering" /\ Got' = Body
    <3>1. target' = Body
      BY <1>3, <2>1, Parts DEF Receive, EndPart
    <3>2. Stage' = "filtering"
      BY <2>3, <2>5 DEF Stage, S
    <3> QED
      BY <3>1, <3>2 DEF Got
  <2> QED
    BY <1>3, <2>2, <2>6, ExchangeSteps DEF Receive
<1> QED
  BY <1>1, <1>2, <1>3

\* An exception is passed on, and so comes to the end of its chain.
LEMMA RunContinuationsIsSeen ==
  ASSUME IInv, RunContinuations
  PROVE  [Abstract!Next]_(Abstract!vars)
<1>1. PICK t \in tasks.ended : tasks' = RunTaskContinuations(tasks, t)
  BY DEF RunContinuations
<1>2. running /\ UNCHANGED <<running, caller, first, target>>
  BY DEF RunContinuations
<1>3. ASSUME NEW next \in Task, t # next, t \in Task, K[t] = <<next>>, K[next] = <<>>,
             S[next] = "Created", S[t] \in {"Completed", "Canceled"}
      PROVE  /\ \A x \in Task : x # next => S'[x] = S[x]
             /\ S'[next] \in {"Canceled", "Created"}
  <2>1. /\ \A x \in Task : x \notin {t, next} => Alike(tasks', tasks, x)
        /\ S'[t] = S[t]
        /\ S'[next] = IF S[t] = "Canceled" THEN "Canceled" ELSE "Created"
    BY <1>1, <1>3, Parts, NextIsRun DEF HasEnded, S, K
  <2> QED
    BY <2>1 DEF Alike, S
<1>4. CASE t = "request"
  <2>1. /\ K["request"] = <<"respond">> /\ S["respond"] = "Created" /\ K["respond"] = <<>>
        /\ S["request"] \in {"Completed", "Canceled"} /\ caller = "done" /\ first = "idle"
    BY <1>4, WhoRuns
  <2>2. S'["receive"] = S["receive"] /\ S'["respond"] \in {"Canceled", "Created"}
    BY <1>3, <1>4, <2>1, Parts
  <2>3. Stage = "requested" /\ S["receive"] = "none"
    BY <2>1, BeforeReading
  <2>4. Stage' \in {"requested", "failed"}
    BY <1>2, <2>1, <2>2, <2>3 DEF Stage, S
  <2> QED
    BY <1>2, <2>3, <2>4, ExchangeSteps DEF Got
<1>5. CASE t = "loop"
  <2>1. /\ K["loop"] = <<"receive">> /\ S["receive"] = "Created" /\ K["receive"] = <<>>
        /\ S["loop"] \in {"Completed", "Canceled"} /\ HasLoop
    BY <1>5, WhoRuns
  <2>2. S'["respond"] = S["respond"] /\ S'["receive"] \in {"Canceled", "Created"}
    BY <1>3, <1>5, <2>1, Parts
  <2>3. Stage = "reading"
    BY <2>1, WhileReading
  <2>4. Stage' \in {"reading", "failed"}
    BY <1>2, <2>1, <2>2 DEF Stage, HasLoop, S
  <2> QED
    BY <1>2, <2>3, <2>4, ExchangeSteps DEF Got
<1>6. CASE t = "getn"
  <2>1. /\ K["getn"] = <<"copy">> /\ S["copy"] = "Created" /\ K["copy"] = <<>>
        /\ S["getn"] = "Completed"
    BY <1>6, WhoRuns
  <2>2. S'["respond"] = S["respond"] /\ S'["receive"] = S["receive"]
    BY <1>3, <1>6, <2>1, Parts
  <2> QED
    BY <1>2, <2>2, StageStays
<1> QED
  BY <1>4, <1>5, <1>6, WhoRuns

LEMMA EachStepIsKept ==
  ASSUME IInv, IInv', [Next]_vars
  PROVE  [Abstract!Next]_(Abstract!vars)
<1>1. CASE UNCHANGED vars
  <2>1. Stage' = Stage /\ Got' = Got /\ running' = running
    BY <1>1 DEF vars, Stage, Unobserved, Got
  <2> QED
    BY <2>1 DEF Abstract!vars, Got
<1>2. CASE FreeException
  <2>1. Stage = "failed"
    BY <1>2 DEF FreeException, Stage
  <2>2. Stage' = Stage /\ Got' = Got
    BY <1>2 DEF FreeException, Stage, Unobserved, Got
  <2> QED
    BY <1>2, <2>1, <2>2, ExchangeSteps DEF FreeException
<1> QED
  BY <1>1, <1>2, NetworkIsNotSeen, RespondIsSeen, TurnIsNotSeen, ReceiveIsSeen,
     RunContinuationsIsSeen DEF Next, ThreadStep

LEMMA InitIsKept ==
  ASSUME Init
  PROVE  Abstract!Init
<1>1. IInv
  BY InitHolds
<1>2. S["respond"] = "none"
  BY <1>1, Parts DEF Init, RequestPart
<1>3. Stage = "none"
  BY <1>1, <1>2, BeforeReading DEF Init
<1> QED
  BY <1>3 DEF Abstract!Init, Init

\* Whatever comes first, a request of the client is one of those IPCheck takes for granted: the
\* filters see the whole body, or the process is doomed.
THEOREM RequestIsExchange == Spec => ExchangeKept
<1>1. Init => Abstract!Init
  BY InitIsKept
<1>2. IInv /\ IInv' /\ [Next]_vars => [Abstract!Next]_(Abstract!vars)
  BY EachStepIsKept
<1> QED
  BY <1>1, <1>2, Invariance, PTL DEF Spec, ExchangeKept, Abstract!Spec
=============================================================================
