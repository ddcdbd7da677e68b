---------------------------- MODULE StreamBuffer ----------------------------
(***************************************************************************)
(* basic_producer_consumer_buffer (producerconsumerstream.h) with the part *)
(* of streambuf_state_manager (astreambuf.h) that it inherits: the buffer  *)
(* between the network, which writes the body of a response, and the       *)
(* reader of the body.  An operator stands for what is done under one hold *)
(* of the buffer's lock, and returns the buffer and the reads that it      *)
(* completes.                                                              *)
(***************************************************************************)
EXTENDS Integers, Sequences

CONSTANTS Char, m_alloc_size

ASSUME BufferAssumption == m_alloc_size \in Nat \ {0}

\* data is what has been written to a block, read the read head in it.
Block == [size: Nat, data: Seq(Char), read: Nat]

Buffer == [m_blocks: Seq(Block), m_total: Nat, m_total_read: Nat, m_total_written: Nat,
           m_synced: Nat, m_requests: Seq(Nat), m_stream_can_write: BOOLEAN,
           m_currentException: BOOLEAN]

NewBuffer == [m_blocks |-> <<>>, m_total |-> 0, m_total_read |-> 0, m_total_written |-> 0,
              m_synced |-> 0, m_requests |-> <<>>, m_stream_can_write |-> TRUE,
              m_currentException |-> FALSE]

Least(m, n) == IF m < n THEN m ELSE n

rd_chars_left(block) == Len(block.data) - block.read
wr_chars_left(block) == block.size - Len(block.data)

can_satisfy(b, count) == b.m_synced > 0 \/ b.m_total >= count \/ ~b.m_stream_can_write

-----------------------------------------------------------------------------
(* Reading.                                                                *)

\* The next of the blocks gives what is still wanted, or what it has.
ReadBlock(sofar, block) ==
  LET n == Least(rd_chars_left(block), sofar.wanted)
  IN  [wanted |-> sofar.wanted - n,
       chars  |-> sofar.chars \o SubSeq(block.data, block.read + 1, block.read + n),
       blocks |-> Append(sofar.blocks, [block EXCEPT !.read = @ + n])]

\* Mutant of Purge: only one block is dropped, although a read may empty several.
PurgeFirst(blocks) ==
  IF blocks # <<>> /\ rd_chars_left(blocks[1]) = 0 THEN Tail(blocks) ELSE blocks

\* Blocks that have been read are dropped from the front.
Purge(blocks) ==
  LET unread == {i \in DOMAIN blocks : rd_chars_left(blocks[i]) > 0}
  IN  IF unread = {} THEN <<>>
      ELSE SubSeq(blocks, CHOOSE i \in unread : \A j \in unread : i <= j, Len(blocks))

ReadBlocks(blocks, count) ==
  LET upTo[i \in 0 .. Len(blocks)] ==
        IF i = 0 THEN [wanted |-> count, chars |-> <<>>, blocks |-> <<>>]
        ELSE ReadBlock(upTo[i - 1], blocks[i])
  IN  upTo[Len(blocks)]

\* Up to count characters, fewer only if there are fewer.
read(b, count) ==
  LET r == ReadBlocks(b.m_blocks, count)
      n == Len(r.chars)
  IN  [buffer |-> [b EXCEPT !.m_blocks = Purge(r.blocks), !.m_total = @ - n,
                            !.m_total_read = @ + n,
                            !.m_synced = IF @ > n THEN @ - n ELSE 0],
       chars |-> r.chars]

Nothing(b) == [buffer |-> b, replies |-> <<>>]

\* A read is completed at once, or waits for the writer.
enqueue_request(b, count) ==
  IF can_satisfy(b, count)
  THEN LET r == read(b, count) IN [buffer |-> r.buffer, replies |-> <<r.chars>>]
  ELSE Nothing([b EXCEPT !.m_requests = Append(@, count)])

\* Once a request cannot be satisfied, those behind it wait with it.
Serve(sofar, count) ==
  IF sofar.waiting # <<>> \/ ~can_satisfy(sofar.buffer, count)
  THEN [sofar EXCEPT !.waiting = Append(@, count)]
  ELSE LET r == read(sofar.buffer, count)
       IN  [sofar EXCEPT !.buffer = r.buffer, !.replies = Append(@, r.chars)]

Served(b) ==
  LET upTo[i \in 0 .. Len(b.m_requests)] ==
        IF i = 0 THEN [buffer |-> b, replies |-> <<>>, waiting |-> <<>>]
        ELSE Serve(upTo[i - 1], b.m_requests[i])
  IN  upTo[Len(b.m_requests)]

\* Mutant of fulfill_outstanding: a request that is completed remains in the queue.
FulfillAndKeep(b) == LET s == Served(b) IN [buffer |-> s.buffer, replies |-> s.replies]

fulfill_outstanding(b) ==
  LET s == Served(b)
  IN  [buffer |-> [s.buffer EXCEPT !.m_requests = s.waiting], replies |-> s.replies]

-----------------------------------------------------------------------------
(* Writing.                                                                *)

update_write_head(b, count) ==
  fulfill_outstanding([b EXCEPT !.m_total = @ + count, !.m_total_written = @ + count])

HasRoom(b, count) ==
  b.m_blocks # <<>> /\ wr_chars_left(b.m_blocks[Len(b.m_blocks)]) >= count

\* A block takes as much as it has room for.
write(b, chars) ==
  LET size   == IF m_alloc_size > Len(chars) THEN m_alloc_size ELSE Len(chars)
      blocks == IF HasRoom(b, Len(chars)) THEN b.m_blocks
                ELSE Append(b.m_blocks, [size |-> size, data |-> <<>>, read |-> 0])
      last   == Len(blocks)
      n      == Least(wr_chars_left(blocks[last]), Len(chars))
  IN  update_write_head([b EXCEPT !.m_blocks = [blocks EXCEPT ![last].data =
                                                  @ \o SubSeq(chars, 1, n)]], n)

\* The writer has filled a block of its own, or a part of it.
commit(b, size, chars) ==
  update_write_head([b EXCEPT !.m_blocks =
                       Append(@, [size |-> size, data |-> chars, read |-> 0])], Len(chars))

sync(b) == fulfill_outstanding([b EXCEPT !.m_synced = b.m_total])

-----------------------------------------------------------------------------
\* What has been written and not been read.
UnreadOf(block) == SubSeq(block.data, block.read + 1, Len(block.data))

UnreadIn(blocks) ==
  LET upTo[i \in 0 .. Len(blocks)] ==
        IF i = 0 THEN <<>> ELSE upTo[i - 1] \o UnreadOf(blocks[i])
  IN  upTo[Len(blocks)]

Unread(b) == UnreadIn(b.m_blocks)
=============================================================================
