--------------------------- MODULE ChunkingProofs ---------------------------
(***************************************************************************)
(* What chunk_blocks returns for every document, by induction over its     *)
(* blocks. The induction theorems of the library take an operator; here a  *)
(* set of naturals with 0 and every successor is shown to be Nat, and each *)
(* induction applies that to the set of the positions its claim holds at.  *)
(***************************************************************************)
EXTENDS Chunking, WellFoundedInduction, TLAPS

\* The least number not in S would follow one that is in it.
LEMMA SetInduction ==
    ASSUME NEW S \in SUBSET Nat, 0 \in S, \A n \in S : n + 1 \in S
    PROVE  S = Nat
<1> DEFINE Less == OpToRel(<, Nat)
           Missing == Nat \ S
<1> SUFFICES ASSUME Missing # {} PROVE FALSE
  OBVIOUS
<1>1. PICK x \in Missing : \A y \in Missing : ~(<<y, x>> \in Less)
  <2> HIDE DEF Less
  <2> QED BY NatLessThanWellFounded, WFMin DEF Less
<1>2. x \in Nat \ {0} /\ x - 1 \in Nat
  OBVIOUS
<1>3. <<x - 1, x>> \in Less
  BY <1>2 DEF OpToRel
<1>4. x - 1 \in S
  BY <1>1, <1>2, <1>3
<1>5. (x - 1) + 1 \in S
  BY <1>4
<1> QED BY <1>2, <1>5

\* The pass over the blocks is the function its recursive definition says: for
\* each k there is one on 0..k.
LEMMA TakenStep ==
    ASSUME NEW blocks, Len(blocks) \in Nat
    PROVE  Taken(blocks) = [i \in 0..Len(blocks) |->
               IF i = 0 THEN NothingTaken ELSE Take(blocks, Taken(blocks)[i - 1], i)]
<1> DEFINE Pass(f, k) == f = [i \in 0..k |-> IF i = 0 THEN NothingTaken ELSE Take(blocks, f[i - 1], i)]
           Defined == {k \in Nat : \E f : Pass(f, k)}
<1>1. 0 \in Defined
  <2>1. Pass([i \in 0..0 |-> NothingTaken], 0)
    OBVIOUS
  <2> QED BY <2>1
<1>2. ASSUME NEW k \in Defined PROVE k + 1 \in Defined
  <2>1. PICK f : Pass(f, k)
    OBVIOUS
  <2> DEFINE g == [i \in 0..k + 1 |-> IF i = 0 THEN NothingTaken ELSE Take(blocks, f[i - 1], i)]
  <2>2. \A i \in 0..k : g[i] = f[i]
    BY <2>1
  <2>3. ASSUME NEW i \in 0..k + 1, i # 0 PROVE g[i] = Take(blocks, g[i - 1], i)
    <3>1. i - 1 \in 0..k
      BY <2>3
    <3>2. g[i] = Take(blocks, f[i - 1], i)
      BY <2>3
    <3> QED BY <2>2, <3>1, <3>2
  <2>4. Pass(g, k + 1)
    BY <2>3
  <2> HIDE DEF Pass
  <2> QED BY <2>4
<1>3. Len(blocks) \in Defined
  <2> HIDE DEF Defined
  <2>1. Defined \in SUBSET Nat
    BY DEF Defined
  <2> QED BY <1>1, <1>2, <2>1, SetInduction
<1>4. Taken(blocks) = CHOOSE f : Pass(f, Len(blocks))
  BY DEF Taken
<1>5. Pass(CHOOSE f : Pass(f, Len(blocks)), Len(blocks))
  <2> HIDE DEF Pass
  <2> QED BY <1>3
<1> QED BY <1>4, <1>5
-----------------------------------------------------------------------------
\* What the pass keeps after block i: the chunks emitted are whole, the buffer
\* holds the last blocks up to i under the section they stand in, and the
\* chunks hold every text block before those.

Buffer == [chars : Nat, page : Nat, held : Seq(Nat)]
Acc == [chunks : Seq(Chunk), section : Nat, buffer : Buffer]

\* The first block the buffer holds, i + 1 when it is empty.
First(acc, i) == i + 1 - Len(acc.buffer.held)

Emitted(blocks, chunks, i) ==
    \A c \in DOMAIN chunks :
        /\ chunks[c].ordinal = c - 1
        /\ Whole(blocks, chunks[c])
        /\ chunks[c].held[1] <= LastHeld(chunks[c]) /\ LastHeld(chunks[c]) <= i
        /\ c > 1 => chunks[c].held[1] > LastHeld(chunks[c - 1])

Buffered(blocks, acc, i) ==
    LET buffer == acc.buffer IN
    /\ buffer.chars = 0 <=> buffer.held = <<>>
    /\ \A k \in DOMAIN buffer.held :
          /\ buffer.held[k] = First(acc, i) + k - 1
          /\ buffer.held[k] \in TextBlocks(blocks)
          /\ acc.section = SectionOf(blocks, buffer.held[k])
    /\ buffer.held # <<>> =>
          /\ buffer.page = blocks[First(acc, i)].page
          /\ \/ buffer.chars <= TargetChars
             \/ Len(buffer.held) = 1 /\ buffer.chars <= OverlapChars + Separator + blocks[i].chars

Reached(blocks, acc, i) ==
    /\ acc \in Acc
    /\ Emitted(blocks, acc.chunks, First(acc, i) - 1)
    /\ acc.section = SectionOf(blocks, i)
    /\ Buffered(blocks, acc, i)
    /\ \A j \in TextBlocks(blocks) : j < First(acc, i) => Holds(acc.chunks, j)

-----------------------------------------------------------------------------
LEMMA SectionStays ==
    ASSUME NEW blocks, NEW i \in Nat, IsText(blocks, i + 1)
    PROVE  SectionOf(blocks, i + 1) = SectionOf(blocks, i)
<1> DEFINE Before(k) == {h \in 1..k : ~IsText(blocks, h)}
           Latest(before) == IF before = {} THEN 0 ELSE CHOOSE h \in before : \A g \in before : g <= h
<1>1. Before(i + 1) = Before(i)
  OBVIOUS
<1>2. SectionOf(blocks, i + 1) = Latest(Before(i + 1)) /\ SectionOf(blocks, i) = Latest(Before(i))
  BY Zenon DEF SectionOf
<1> HIDE DEF Before, Latest
<1> QED BY <1>1, <1>2

LEMMA SectionStarts ==
    ASSUME NEW blocks, NEW i \in Nat \ {0}, ~IsText(blocks, i)
    PROVE  SectionOf(blocks, i) = i
<1> DEFINE before == {h \in 1..i : ~IsText(blocks, h)}
<1>1. i \in before /\ \A g \in before : g <= i
  OBVIOUS
<1>2. \A h \in before : (\A g \in before : g <= h) => h = i
  BY <1>1
<1>3. (CHOOSE h \in before : \A g \in before : g <= h) = i
  BY <1>1, <1>2
<1> QED BY <1>1, <1>3 DEF SectionOf

\* What is emitted of a buffer is one whole chunk more, or nothing of an empty one.
LEMMA EmitWhole ==
    ASSUME NEW blocks \in Seq(Block), NEW i \in 0..Len(blocks), NEW acc, Reached(blocks, acc, i)
    PROVE  /\ Emit(acc) \in Seq(Chunk)
           /\ Emitted(blocks, Emit(acc), i)
           /\ \A j \in TextBlocks(blocks) : j <= i => Holds(Emit(acc), j)
<1> DEFINE held == acc.buffer.held
<1>0. i \in Nat /\ Len(blocks) \in Nat
  OBVIOUS
<1>1. acc.chunks \in Seq(Chunk) /\ acc.buffer \in Buffer /\ acc.section \in Nat /\ held \in Seq(Nat)
  BY DEF Reached, Acc, Buffer
<1>2. Len(held) \in Nat /\ (held = <<>> <=> Len(held) = 0) /\ DOMAIN held = 1..Len(held)
  BY <1>1
<1>3. CASE acc.buffer.chars = 0
  <2>0. Len(held) = 0
    BY <1>2, <1>3 DEF Reached, Buffered
  <2>1. Emit(acc) = acc.chunks /\ First(acc, i) = i + 1 /\ First(acc, i) - 1 = i
    BY <1>0, <1>3, <2>0 DEF Emit, First
  <2>2. \A j \in TextBlocks(blocks) : j <= i => j < i + 1
    BY DEF TextBlocks
  <2> QED BY <1>1, <2>1, <2>2 DEF Reached
<1>4. CASE acc.buffer.chars # 0
  <2> DEFINE new == [ordinal |-> Len(acc.chunks), section |-> acc.section, page |-> acc.buffer.page,
                     chars |-> acc.buffer.chars, held |-> held]
             n == Len(acc.chunks)
  <2>1. Emit(acc) = Append(acc.chunks, new)
    BY <1>4 DEF Emit
  <2>2. n \in Nat /\ new \in Chunk
    BY <1>1 DEF Chunk, Buffer
  <2>3. /\ Emit(acc) \in Seq(Chunk) /\ DOMAIN Emit(acc) = 1..n + 1 /\ DOMAIN acc.chunks = 1..n
        /\ Emit(acc)[n + 1] = new /\ \A c \in 1..n : Emit(acc)[c] = acc.chunks[c]
    BY <1>1, <2>1, <2>2
  <2>4. held # <<>> /\ 1 \in DOMAIN held /\ Len(held) \in DOMAIN held
    BY <1>2, <1>4 DEF Reached, Buffered
  <2>5. /\ \A k \in DOMAIN held : held[k] = First(acc, i) + k - 1 /\ held[k] \in TextBlocks(blocks)
        /\ held[1] = First(acc, i) /\ held[Len(held)] = i /\ First(acc, i) <= i
    <3>1. \A k \in DOMAIN held : held[k] = First(acc, i) + k - 1 /\ held[k] \in TextBlocks(blocks)
      BY DEF Reached, Buffered
    <3>2. First(acc, i) = i + 1 - Len(held)
      BY DEF First
    <3>3. Len(held) >= 1 /\ First(acc, i) \in Int
      BY <1>0, <1>2, <2>4, <3>2
    <3>4. held[1] = First(acc, i) + 1 - 1 /\ held[Len(held)] = First(acc, i) + Len(held) - 1
      BY <2>4, <3>1
    <3> HIDE DEF held
    <3>5. held[1] = First(acc, i) /\ First(acc, i) <= i
      BY <1>0, <1>2, <3>2, <3>3, <3>4
    <3>6. held[Len(held)] = i
      BY <1>0, <1>2, <3>2, <3>3, <3>4
    <3> QED BY <3>1, <3>5, <3>6
  <2>6. Whole(blocks, new)
    <3>1. \A k \in DOMAIN held : held[k] = held[1] + k - 1
      BY <1>1, <2>4, <2>5 DEF First
    <3>2. Len(held) = 1 => held[1] = i
      BY <2>5
    <3> QED BY <2>4, <2>5, <3>1, <3>2 DEF Whole, Reached, Buffered
  <2>7. Emitted(blocks, Emit(acc), i)
    <3>1. ASSUME NEW c \in 1..n
          PROVE  /\ acc.chunks[c].ordinal = c - 1 /\ Whole(blocks, acc.chunks[c])
                 /\ acc.chunks[c].held[1] <= LastHeld(acc.chunks[c])
                 /\ LastHeld(acc.chunks[c]) <= First(acc, i) - 1
                 /\ c > 1 => acc.chunks[c].held[1] > LastHeld(acc.chunks[c - 1])
      BY <2>3 DEF Reached, Emitted
    <3>2. ASSUME NEW c \in 1..n PROVE LastHeld(acc.chunks[c]) \in Nat
      <4>0. acc.chunks[c] \in Chunk
        BY <1>1, <2>3
      <4>1. acc.chunks[c].held \in Seq(Nat) /\ acc.chunks[c].held # <<>>
        BY <3>1, <4>0 DEF Whole, Chunk
      <4>2. Len(acc.chunks[c].held) \in 1..Len(acc.chunks[c].held)
        BY <4>1
      <4> QED BY <4>1, <4>2 DEF LastHeld
    <3>3. new.held[1] <= LastHeld(new) /\ LastHeld(new) = i /\ new.held[1] = First(acc, i)
      BY <2>5 DEF LastHeld
    <3>4. First(acc, i) \in Int /\ First(acc, i) - 1 <= i
      <4>1. First(acc, i) = i + 1 - Len(held) /\ First(acc, i) <= i
        BY <2>5 DEF First
      <4>2. \A a, b \in Nat : a + 1 - b \in Int
        OBVIOUS
      <4>3. \A a \in Int : a <= i => a - 1 <= i
        BY <1>0
      <4> QED BY <1>0, <1>2, <4>1, <4>2, <4>3
    <3>5. ASSUME NEW c \in 1..n + 1
          PROVE  /\ Emit(acc)[c].ordinal = c - 1 /\ Whole(blocks, Emit(acc)[c])
                 /\ Emit(acc)[c].held[1] <= LastHeld(Emit(acc)[c]) /\ LastHeld(Emit(acc)[c]) <= i
                 /\ c > 1 => Emit(acc)[c].held[1] > LastHeld(Emit(acc)[c - 1])
      <4>1. CASE c \in 1..n
        <5>1. c > 1 => c - 1 \in 1..n
          BY <4>1
        <5>2. LastHeld(acc.chunks[c]) <= i
          BY <3>1, <3>2, <3>4, <4>1
        <5> QED BY <2>3, <3>1, <4>1, <5>1, <5>2
      <4>2. CASE c = n + 1
        <5>1. Emit(acc)[c] = new
          BY <2>3, <4>2
        <5>2. new.ordinal = c - 1
          BY <2>2, <4>2
        <5>3. ASSUME c > 1 PROVE new.held[1] > LastHeld(Emit(acc)[c - 1])
          <6>1. c - 1 \in 1..n /\ Emit(acc)[c - 1] = acc.chunks[c - 1]
            BY <2>2, <2>3, <4>2, <5>3
          <6>2. LastHeld(acc.chunks[c - 1]) <= First(acc, i) - 1
            BY <3>1, <6>1
          <6>3. LastHeld(acc.chunks[c - 1]) \in Nat
            BY <3>2, <6>1
          <6> QED BY <3>3, <3>4, <6>1, <6>2, <6>3
        <5> QED BY <2>6, <3>3, <5>1, <5>2, <5>3
      <4> QED BY <2>2, <4>1, <4>2
    <3> QED BY <2>3, <3>5 DEF Emitted
  <2>8. ASSUME NEW j \in TextBlocks(blocks), j <= i PROVE Holds(Emit(acc), j)
    <3>1. CASE j < First(acc, i)
      <4>1. Holds(acc.chunks, j)
        BY <3>1 DEF Reached
      <4> QED BY <2>3, <4>1 DEF Holds
    <3>2. CASE ~(j < First(acc, i))
      <4> DEFINE k == j - First(acc, i) + 1
      <4>1. k \in DOMAIN held /\ held[k] = j
        <5>1. j \in Nat /\ First(acc, i) = i + 1 - Len(held) /\ First(acc, i) <= j
          BY <1>0, <1>2, <3>2 DEF First, TextBlocks
        <5>2. k \in DOMAIN held
          BY <1>0, <1>2, <2>8, <5>1
        <5>3. held[k] = First(acc, i) + k - 1
          BY <2>5, <5>2
        <5>4. First(acc, i) \in Int
          BY <1>0, <1>2, <5>1
        <5>5. \A a, b \in Int : a + (b - a + 1) - 1 = b
          OBVIOUS
        <5>6. j \in Int
          BY <5>1
        <5>7. First(acc, i) + k - 1 = j
          BY <5>4, <5>5, <5>6, Zenon
        <5> QED BY <5>2, <5>3, <5>7
      <4>2. new.held = held /\ n + 1 \in DOMAIN Emit(acc)
        BY <2>2, <2>3
      <4> QED BY <2>3, <4>1, <4>2 DEF Holds
    <3> QED BY <3>1, <3>2
  <2> QED BY <2>3, <2>7, <2>8
<1> QED BY <1>3, <1>4

-----------------------------------------------------------------------------
\* The pass goes on from each block to the next.

LEMMA HeadingReaches ==
    ASSUME NEW blocks \in Seq(Block), NEW i \in Nat, i + 1 \in 1..Len(blocks),
           NEW acc, Reached(blocks, acc, i), blocks[i + 1].heading = "yes"
    PROVE  Reached(blocks, Heading(acc, i + 1), i + 1)
<1> DEFINE after == Heading(acc, i + 1)
<1>0. i \in 0..Len(blocks) /\ i + 1 \in Nat
  OBVIOUS
<1>1. /\ Emit(acc) \in Seq(Chunk) /\ Emitted(blocks, Emit(acc), i)
      /\ \A j \in TextBlocks(blocks) : j <= i => Holds(Emit(acc), j)
  BY <1>0, EmitWhole
<1>2. after.chunks = Emit(acc) /\ after.section = i + 1 /\ after.buffer = NoBuffer /\ after \in Acc
  BY <1>0, <1>1 DEF Heading, Acc, Buffer, NoBuffer
<1>3. after.buffer.held = <<>> /\ after.buffer.chars = 0 /\ First(after, i + 1) = i + 2
  <2>1. after.buffer.held = <<>> /\ after.buffer.chars = 0
    BY <1>2 DEF NoBuffer
  <2>2. Len(after.buffer.held) = 0 /\ (i + 1) + 1 - 0 = i + 2
    BY <1>0, <2>1
  <2> QED BY <2>1, <2>2 DEF First
<1>4. SectionOf(blocks, i + 1) = i + 1
  BY <1>0, SectionStarts DEF IsText
<1>5. Emitted(blocks, after.chunks, First(after, i + 1) - 1)
  <2>1. ASSUME NEW c \in DOMAIN Emit(acc) PROVE LastHeld(Emit(acc)[c]) \in Nat
    <3>1. Emit(acc)[c] \in Chunk /\ Whole(blocks, Emit(acc)[c])
      BY <1>1 DEF Emitted
    <3>2. Emit(acc)[c].held \in Seq(Nat) /\ Emit(acc)[c].held # <<>>
      BY <3>1 DEF Whole, Chunk
    <3> QED BY <3>2 DEF LastHeld
  <2>2. First(after, i + 1) - 1 = i + 1
    BY <1>3
  <2>3. \A a \in Nat : a <= i => a <= i + 1
    OBVIOUS
  <2> QED BY <1>1, <1>2, <2>1, <2>2, <2>3 DEF Emitted
<1>6. Buffered(blocks, after, i + 1)
  BY <1>3 DEF Buffered
<1>7. ASSUME NEW j \in TextBlocks(blocks), j < First(after, i + 1) PROVE Holds(after.chunks, j)
  <2>1. j # i + 1 /\ j \in Nat
    BY DEF TextBlocks, IsText
  <2>2. j <= i
    BY <1>3, <1>7, <2>1
  <2> QED BY <1>1, <1>2, <2>2
<1> QED BY <1>2, <1>4, <1>5, <1>6, <1>7 DEF Reached

LEMMA ExtendReaches ==
    ASSUME NEW blocks \in Seq(Block), NEW i \in Nat, i + 1 \in 1..Len(blocks),
           NEW acc, Reached(blocks, acc, i), blocks[i + 1].heading = "no",
           Joined(acc.buffer.chars, blocks[i + 1]) <= TargetChars
    PROVE  Reached(blocks, Extend(acc, blocks[i + 1], i + 1), i + 1)
<1> DEFINE after == Extend(acc, blocks[i + 1], i + 1)
           held == acc.buffer.held
           block == blocks[i + 1]
<1>0. block \in Block /\ i + 1 \in TextBlocks(blocks)
  BY DEF TextBlocks, IsText
<1>1. acc \in Acc /\ acc.chunks \in Seq(Chunk) /\ acc.buffer \in Buffer /\ acc.section \in Nat
      /\ held \in Seq(Nat) /\ acc.buffer.chars \in Nat /\ acc.buffer.page \in Nat
  BY DEF Reached, Acc, Buffer
<1>2. Joined(acc.buffer.chars, block) \in Nat \ {0}
  <2>1. block.chars \in Nat \ {0} /\ acc.buffer.chars \in Nat
    BY <1>0, <1>1 DEF Block
  <2> HIDE DEF block
  <2> QED BY <2>1 DEF Joined, Separator
<1>3. /\ after.chunks = acc.chunks /\ after.section = acc.section
      /\ after.buffer.chars = Joined(acc.buffer.chars, block)
      /\ after.buffer.held = Append(held, i + 1)
      /\ after.buffer.page = IF acc.buffer.chars = 0 THEN block.page ELSE acc.buffer.page
      /\ after \in Acc
  <2>1. Append(held, i + 1) \in Seq(Nat)
    BY <1>1
  <2>2. block.page \in Nat
    BY <1>0 DEF Block
  <2> QED BY <1>1, <1>2, <2>1, <2>2 DEF Extend, Acc, Buffer
<1>4. /\ Len(held) \in Nat /\ Len(Append(held, i + 1)) = Len(held) + 1
      /\ DOMAIN held = 1..Len(held) /\ DOMAIN Append(held, i + 1) = 1..Len(held) + 1
      /\ Append(held, i + 1) # <<>> /\ Append(held, i + 1)[Len(held) + 1] = i + 1
      /\ \A k \in 1..Len(held) : Append(held, i + 1)[k] = held[k]
      /\ held = <<>> <=> Len(held) = 0
  <2> HIDE DEF held
  <2>1. i + 1 \in Nat
    OBVIOUS
  <2>2. /\ Len(held) \in Nat /\ DOMAIN held = 1..Len(held)
        /\ held = <<>> <=> Len(held) = 0
    BY <1>1
  <2>3. /\ Append(held, i + 1) \in Seq(Nat) /\ Len(Append(held, i + 1)) = Len(held) + 1
        /\ Append(held, i + 1)[Len(held) + 1] = i + 1
        /\ \A k \in 1..Len(held) : Append(held, i + 1)[k] = held[k]
    BY <1>1, <2>1, <2>2
  <2>4. DOMAIN Append(held, i + 1) = 1..Len(held) + 1 /\ Append(held, i + 1) # <<>>
    <3>1. DOMAIN Append(held, i + 1) = 1..Len(Append(held, i + 1))
      BY <2>3
    <3>2. Len(Append(held, i + 1)) # 0
      BY <2>2, <2>3
    <3>3. Append(held, i + 1) # <<>>
      <4>1. Len(<<>>) = 0
        OBVIOUS
      <4> QED BY <3>2, <4>1, Zenon
    <3> QED BY <2>3, <3>1, <3>3
  <2> QED BY <2>2, <2>3, <2>4
<1>5. First(after, i + 1) = First(acc, i) /\ First(acc, i) = i + 1 - Len(held)
  <2>1. \A n \in Nat : (i + 1) + 1 - (n + 1) = i + 1 - n
    OBVIOUS
  <2> QED BY <1>3, <1>4, <2>1 DEF First
<1>6. SectionOf(blocks, i + 1) = SectionOf(blocks, i)
  BY SectionStays DEF IsText
<1>7. acc.section = SectionOf(blocks, i + 1)
  BY <1>6 DEF Reached
<1>8. Buffered(blocks, after, i + 1)
  <2>1. ASSUME NEW k \in 1..Len(held) + 1
        PROVE  /\ Append(held, i + 1)[k] = First(acc, i) + k - 1
               /\ Append(held, i + 1)[k] \in TextBlocks(blocks)
               /\ acc.section = SectionOf(blocks, Append(held, i + 1)[k])
    <3>1. CASE k \in 1..Len(held)
      BY <1>4, <3>1 DEF Reached, Buffered
    <3>2. CASE k = Len(held) + 1
      <4>1. First(acc, i) + k - 1 = i + 1
        BY <1>4, <1>5, <3>2
      <4> QED BY <1>0, <1>4, <1>7, <3>2, <4>1
    <3> QED BY <1>4, <3>1, <3>2
  <2>2. after.buffer.page = blocks[First(acc, i)].page
    <3>1. CASE acc.buffer.chars = 0
      <4>1. Len(held) = 0
        BY <1>4, <3>1 DEF Reached, Buffered
      <4>2. First(acc, i) = i + 1
        BY <1>5, <4>1
      <4> QED BY <1>3, <3>1, <4>2
    <3>2. CASE acc.buffer.chars # 0
      BY <1>3, <3>2 DEF Reached, Buffered
    <3> QED BY <3>1, <3>2
  <2> QED BY <1>2, <1>3, <1>4, <1>5, <2>1, <2>2 DEF Buffered
<1>9. Emitted(blocks, after.chunks, First(after, i + 1) - 1)
  BY <1>3, <1>5 DEF Reached
<1>10. \A j \in TextBlocks(blocks) : j < First(after, i + 1) => Holds(after.chunks, j)
  BY <1>3, <1>5 DEF Reached
<1> QED BY <1>3, <1>7, <1>8, <1>9, <1>10 DEF Reached

LEMMA OverflowReaches ==
    ASSUME NEW blocks \in Seq(Block), NEW i \in Nat, i + 1 \in 1..Len(blocks),
           NEW acc, Reached(blocks, acc, i), blocks[i + 1].heading = "no"
    PROVE  Reached(blocks, Overflow(acc, blocks[i + 1], i + 1), i + 1)
<1> DEFINE after == Overflow(acc, blocks[i + 1], i + 1)
           block == blocks[i + 1]
           tail == IF acc.buffer.chars < OverlapChars THEN acc.buffer.chars ELSE OverlapChars
<1>0. block \in Block /\ i + 1 \in TextBlocks(blocks) /\ i \in 0..Len(blocks) /\ i + 1 \in Nat
  BY DEF TextBlocks, IsText
<1>1. /\ Emit(acc) \in Seq(Chunk) /\ Emitted(blocks, Emit(acc), i)
      /\ \A j \in TextBlocks(blocks) : j <= i => Holds(Emit(acc), j)
  BY <1>0, EmitWhole
<1>2. acc \in Acc /\ acc.buffer.chars \in Nat /\ acc.section \in Nat
  BY DEF Reached, Acc, Buffer
<1>3. /\ Joined(tail, block) \in Nat \ {0}
      /\ Joined(tail, block) <= OverlapChars + Separator + block.chars
  <2>1. tail \in Nat /\ tail <= OverlapChars /\ OverlapChars \in Nat
    BY <1>2, ChunkingAssumption
  <2>2. block.chars \in Nat \ {0}
    BY <1>0 DEF Block
  <2> HIDE DEF tail, block
  <2> QED BY <2>1, <2>2 DEF Joined, Separator
<1>4. /\ after.chunks = Emit(acc) /\ after.section = acc.section
      /\ after.buffer = [chars |-> Joined(tail, block), page |-> block.page, held |-> <<i + 1>>]
      /\ after \in Acc
  <2>1. <<i + 1>> \in Seq(Nat) /\ block.page \in Nat
    BY <1>0 DEF Block
  <2> HIDE DEF block
  <2>2. /\ acc = [chunks |-> acc.chunks, section |-> acc.section, buffer |-> acc.buffer]
        /\ after = [acc EXCEPT !.chunks = Emit(acc),
                               !.buffer = [chars |-> Joined(tail, block), page |-> block.page,
                                           held |-> <<i + 1>>]]
    BY <1>2 DEF Acc, Overflow, block
  <2>3. after = [chunks |-> Emit(acc), section |-> acc.section,
                 buffer |-> [chars |-> Joined(tail, block), page |-> block.page, held |-> <<i + 1>>]]
    <3> HIDE DEF tail, after
    <3> QED BY <2>2
  <2> HIDE DEF after, tail
  <2> QED BY <1>1, <1>2, <1>3, <2>1, <2>3 DEF Acc, Buffer
<1>5. /\ after.buffer.held = <<i + 1>> /\ Len(after.buffer.held) = 1
      /\ after.buffer.chars = Joined(tail, block) /\ after.buffer.page = block.page
  BY <1>4
<1>6. First(after, i + 1) = i + 1 /\ First(after, i + 1) - 1 = i
  <2>1. (i + 1) + 1 - 1 = i + 1 /\ (i + 1) - 1 = i
    OBVIOUS
  <2> QED BY <1>5, <2>1 DEF First
<1>7. SectionOf(blocks, i + 1) = SectionOf(blocks, i)
  BY SectionStays DEF IsText
<1>8. after.section = SectionOf(blocks, i + 1)
  BY <1>4, <1>7 DEF Reached
<1>9. Buffered(blocks, after, i + 1)
  <2>1. DOMAIN <<i + 1>> = {1} /\ <<i + 1>> # <<>> /\ <<i + 1>>[1] = i + 1
    OBVIOUS
  <2>2. First(after, i + 1) + 1 - 1 = i + 1
    BY <1>6
  <2> HIDE DEF after, tail, block
  <2>3. blocks[i + 1] = block
    BY DEF block
  <2> QED BY <1>0, <1>3, <1>5, <1>6, <1>8, <2>1, <2>2, <2>3 DEF Buffered
<1>10. Emitted(blocks, after.chunks, First(after, i + 1) - 1)
  BY <1>1, <1>4, <1>6
<1>11. ASSUME NEW j \in TextBlocks(blocks), j < First(after, i + 1) PROVE Holds(after.chunks, j)
  <2>1. j <= i
    BY <1>6, <1>11 DEF TextBlocks
  <2> QED BY <1>1, <1>4, <2>1
<1> QED BY <1>4, <1>8, <1>9, <1>10, <1>11 DEF Reached

\* After block i of any document the pass has reached i.
LEMMA PassReaches ==
    ASSUME NEW blocks \in Seq(Block)
    PROVE  \A i \in 0..Len(blocks) : Reached(blocks, Taken(blocks)[i], i)
<1> DEFINE taken == Taken(blocks)
           Far == {i \in Nat : i <= Len(blocks) => Reached(blocks, taken[i], i)}
<1>0. Len(blocks) \in Nat
  OBVIOUS
<1>1. /\ taken[0] = NothingTaken
      /\ \A i \in 1..Len(blocks) : taken[i] = Take(blocks, taken[i - 1], i)
  BY <1>0, TakenStep
<1> HIDE DEF taken
<1>2. 0 \in Far
  <2>1. First(NothingTaken, 0) = 1 /\ NothingTaken \in Acc
    BY DEF First, NothingTaken, NoBuffer, Acc, Buffer
  <2>2. SectionOf(blocks, 0) = 0
    BY DEF SectionOf
  <2>3. Emitted(blocks, NothingTaken.chunks, 0) /\ Buffered(blocks, NothingTaken, 0)
    BY <2>1 DEF Emitted, Buffered, NothingTaken, NoBuffer
  <2>4. \A j \in TextBlocks(blocks) : ~(j < 1)
    BY DEF TextBlocks
  <2>5. NothingTaken.section = 0 /\ 1 - 1 = 0
    BY DEF NothingTaken
  <2> QED BY <1>1, <2>1, <2>2, <2>3, <2>4, <2>5 DEF Reached
<1>3. ASSUME NEW i \in Far PROVE i + 1 \in Far
  <2> SUFFICES ASSUME i + 1 <= Len(blocks) PROVE Reached(blocks, taken[i + 1], i + 1)
    OBVIOUS
  <2> DEFINE block == blocks[i + 1]
  <2>1. i \in Nat /\ i + 1 \in 1..Len(blocks) /\ Reached(blocks, taken[i], i)
    BY <1>0
  <2>2. taken[i + 1] = Take(blocks, taken[i], i + 1)
    BY <1>1, <2>1
  <2>3. block.heading \in {"yes", "no"}
    <3>1. block \in Block
      BY <2>1
    <3> QED BY <3>1 DEF Block
  <2>4. CASE block.heading = "yes"
    BY <2>1, <2>2, <2>4, HeadingReaches DEF Take
  <2>5. CASE block.heading = "no" /\ Joined(taken[i].buffer.chars, block) <= TargetChars
    BY <2>1, <2>2, <2>5, ExtendReaches DEF Take
  <2>6. CASE block.heading = "no" /\ ~(Joined(taken[i].buffer.chars, block) <= TargetChars)
    BY <2>1, <2>2, <2>6, OverflowReaches DEF Take
  <2> QED BY <2>3, <2>4, <2>5, <2>6
<1>4. Far = Nat
  <2>1. Far \in SUBSET Nat
    OBVIOUS
  <2> HIDE DEF Far
  <2> QED BY <1>2, <1>3, <2>1, SetInduction
<1> QED BY <1>0, <1>4 DEF taken

-----------------------------------------------------------------------------
\* chunk_blocks loses, repeats or reorders no text of any document, puts none
\* under a wrong heading or page, and keeps to its target where it can.
THEOREM ChunkBlocksSound ==
    ASSUME NEW blocks \in Seq(Block)
    PROVE  ChunkBlocks(blocks) \in Seq(Chunk) /\ Sound(blocks, ChunkBlocks(blocks))
<1> DEFINE n == Len(blocks)
<1>0. n \in Nat /\ n \in 0..n
  OBVIOUS
<1>1. Reached(blocks, Taken(blocks)[n], n)
  BY <1>0, PassReaches
<1>2. /\ ChunkBlocks(blocks) \in Seq(Chunk)
      /\ Emitted(blocks, ChunkBlocks(blocks), n)
      /\ \A j \in TextBlocks(blocks) : j <= n => Holds(ChunkBlocks(blocks), j)
  BY <1>0, <1>1, EmitWhole DEF ChunkBlocks
<1>3. \A j \in TextBlocks(blocks) : j <= n
  BY DEF TextBlocks
<1> HIDE DEF n
<1> QED BY <1>2, <1>3 DEF Sound, Emitted

\* A document has chunks exactly when it has text.
THEOREM ChunksWhenText ==
    ASSUME NEW blocks \in Seq(Block)
    PROVE  ChunkBlocks(blocks) = <<>> <=> TextBlocks(blocks) = {}
<1> DEFINE chunks == ChunkBlocks(blocks)
<1>1. chunks \in Seq(Chunk) /\ Sound(blocks, chunks)
  BY ChunkBlocksSound
<1> HIDE DEF chunks
<1>2. ASSUME chunks = <<>> PROVE TextBlocks(blocks) = {}
  BY <1>1, <1>2 DEF Sound, Holds
<1>3. ASSUME chunks # <<>> PROVE TextBlocks(blocks) # {}
  <2>1. 1 \in DOMAIN chunks
    BY <1>1, <1>3
  <2>2. chunks[1] \in Chunk /\ Whole(blocks, chunks[1])
    BY <1>1, <2>1 DEF Sound
  <2>3. 1 \in DOMAIN chunks[1].held
    BY <2>2 DEF Whole, Chunk
  <2> QED BY <2>2, <2>3 DEF Whole
<1> QED BY <1>2, <1>3 DEF chunks
=============================================================================
