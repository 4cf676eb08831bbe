------------------------------ MODULE Chunking ------------------------------
(***************************************************************************)
(* How a document's text blocks are grouped into chunks (chunk_blocks):    *)
(* a pass over the blocks with the section, the buffer and the chunks      *)
(* emitted. Of a text only its length is kept, of a chunk the blocks whose *)
(* whole text it holds.                                                    *)
(***************************************************************************)
EXTENDS Integers, Sequences

CONSTANTS TargetChars, OverlapChars    \* target_chars, overlap_chars

\* chunk_blocks refuses other values.
ASSUME ChunkingAssumption ==
    /\ TargetChars \in Nat \ {0} /\ OverlapChars \in Nat
    /\ OverlapChars < TargetChars

\* A block of stripped, not empty text, which looks like a heading or does not.
Block == [heading : {"yes", "no"}, chars : Nat \ {0}, page : Nat]

\* section is the heading's block, 0 before the first.
Chunk == [ordinal : Nat, section : Nat, page : Nat, chars : Nat, held : Seq(Nat)]

Separator == 2    \* "\n\n"

\* The buffer: its length, the page it started on, the blocks in it.
NoBuffer == [chars |-> 0, page |-> 0, held |-> <<>>]

Emit(acc) ==
    IF acc.buffer.chars = 0 THEN acc.chunks
    ELSE Append(acc.chunks, [ordinal |-> Len(acc.chunks), section |-> acc.section,
                             page |-> acc.buffer.page, chars |-> acc.buffer.chars,
                             held |-> acc.buffer.held])

Heading(acc, i) == [chunks |-> Emit(acc), section |-> i, buffer |-> NoBuffer]

Joined(chars, block) == IF chars = 0 THEN block.chars ELSE chars + Separator + block.chars

Extend(acc, block, i) ==
    [acc EXCEPT !.buffer = [chars |-> Joined(acc.buffer.chars, block), held |-> Append(@.held, i),
                            page |-> IF acc.buffer.chars = 0 THEN block.page ELSE @.page]]

\* Variant for the mutation runs: what does not fit replaces the buffer.
OverflowLost(acc, block, i) ==
    [acc EXCEPT !.buffer = [chars |-> block.chars, page |-> block.page, held |-> <<i>>]]

\* The buffer is emitted; its last characters start the next one.
Overflow(acc, block, i) ==
    LET tail == IF acc.buffer.chars < OverlapChars THEN acc.buffer.chars ELSE OverlapChars IN
    [acc EXCEPT !.chunks = Emit(acc),
                !.buffer = [chars |-> Joined(tail, block), page |-> block.page, held |-> <<i>>]]

Take(blocks, acc, i) ==
    LET block == blocks[i] IN
    CASE block.heading = "yes" -> Heading(acc, i)
      [] block.heading = "no" /\ Joined(acc.buffer.chars, block) <= TargetChars -> Extend(acc, block, i)
      [] OTHER -> Overflow(acc, block, i)

NothingTaken == [chunks |-> <<>>, section |-> 0, buffer |-> NoBuffer]

\* What the pass keeps after each block.
Taken(blocks) ==
    LET taken[i \in 0..Len(blocks)] ==
            IF i = 0 THEN NothingTaken ELSE Take(blocks, taken[i - 1], i)
    IN taken

ChunkBlocks(blocks) == Emit(Taken(blocks)[Len(blocks)])

-----------------------------------------------------------------------------
\* What the chunks of a document must be, whatever the pass does.

IsText(blocks, i) == blocks[i].heading = "no"
TextBlocks(blocks) == {i \in 1..Len(blocks) : IsText(blocks, i)}

\* The heading block i stands under, 0 before the first.
SectionOf(blocks, i) ==
    LET before == {h \in 1..i : ~IsText(blocks, h)} IN
    IF before = {} THEN 0 ELSE CHOOSE h \in before : \A g \in before : g <= h

LastHeld(chunk) == chunk.held[Len(chunk.held)]
Holds(chunks, i) == \E c \in DOMAIN chunks : \E k \in DOMAIN chunks[c].held : chunks[c].held[k] = i

\* A chunk holds consecutive text blocks under one heading; it is longer than
\* the target only for a block that is itself too long with what overlaps it.
Whole(blocks, chunk) ==
    LET held == chunk.held IN
    /\ held # <<>>
    /\ \A k \in DOMAIN held : /\ held[k] = held[1] + k - 1
                              /\ held[k] \in TextBlocks(blocks)
                              /\ chunk.section = SectionOf(blocks, held[k])
    /\ chunk.page = blocks[held[1]].page
    /\ \/ chunk.chars <= TargetChars
       \/ Len(held) = 1 /\ chunk.chars <= OverlapChars + Separator + blocks[held[1]].chars

\* Every text block is held once and in order.
Sound(blocks, chunks) ==
    /\ \A i \in TextBlocks(blocks) : Holds(chunks, i)
    /\ \A c \in DOMAIN chunks :
          /\ chunks[c].ordinal = c - 1
          /\ Whole(blocks, chunks[c])
          /\ c > 1 => chunks[c].held[1] > LastHeld(chunks[c - 1])
=============================================================================
