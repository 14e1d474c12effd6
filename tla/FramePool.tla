------------------------------ MODULE FramePool ------------------------------
(***************************************************************************)
(* The allocator of coroutine frames (src/src/simpleawait/detail/          *)
(* frame_pool.h): an arena of bytes tiled by blocks, each with a header,   *)
(* first fit on allocate() and coalescing on deallocate().                 *)
(*                                                                         *)
(* blocks maps the offset of each block's header to its fields.  The       *)
(* operations are operators on such a map, so that properties can also ask *)
(* what an allocation would do in a reachable state.                       *)
(***************************************************************************)
EXTENDS Integers, FiniteSets, FiniteSetsExt

CONSTANTS
  Bytes,    \* template parameter: bytes of storage_
  kAlign,   \* alignof(std::max_align_t)
  kHeader,  \* sizeof(BlockHeader) rounded up to kAlign
  Base,     \* the address of storage_
  SizeMax,  \* SIZE_MAX of size_t
  Sizes,    \* sizes of the frames the program's coroutines need
  Aligns    \* alignments a caller of allocate() may ask for

kUsable == Bytes - (Bytes % kAlign)

\* The static_asserts of the class and the alignas of storage_.
ASSUME PoolAssumption ==
  /\ {Bytes, kAlign, kHeader, Base, SizeMax} \subseteq Nat
  /\ kAlign > 0 /\ kHeader > 0 /\ kHeader % kAlign = 0 /\ Base % kAlign = 0
  /\ Bytes >= kHeader + kAlign
  /\ kUsable <= SizeMax
  /\ Sizes \subseteq 1..SizeMax
  /\ Aligns \subseteq 1..SizeMax

Offsets == 0..(kUsable - 1)
Null == -1                \* the null pointer

VARIABLES
  blocks,     \* header offset |-> BlockHeader
  bytesUsed   \* bytesUsed_

poolVars == <<blocks, bytesUsed>>

\* A free block; nothing reads its payloadOffset.
FreeBlock(size) == [size |-> size, payloadOffset |-> kHeader, allocated |-> FALSE]

\* reset(), called by the constructor.
PoolInit ==
  /\ blocks = [o \in {0} |-> FreeBlock(kUsable)]
  /\ bytesUsed = 0

-----------------------------------------------------------------------------

is_power_of_two(v) == \E k \in 0..v : v = 2^k

round_up_mut(v, a) == v
round_up(v, a) == v + ((a - (v % a)) % a)

align_padding(addr, align) == (align - (addr % align)) % align

\* A small align means kAlign.
Effective(align) == IF align < kAlign THEN kAlign ELSE align

\* Offset of the payload in the block at off.
PayloadOffset(off, align) ==
  kHeader + align_padding(Base + off + kHeader, Effective(align))

\* The fit test, subtractive so that an oversized request cannot wrap.
FitsAt_mut(b, off, size, align) ==
  /\ ~b[off].allocated
  /\ (PayloadOffset(off, align) + size) % (SizeMax + 1) <= b[off].size
FitsAt(b, off, size, align) ==
  /\ ~b[off].allocated
  /\ PayloadOffset(off, align) <= b[off].size
  /\ size <= b[off].size - PayloadOffset(off, align)

\* The alignments allocate() accepts.
ValidAlign(align) == align < kAlign \/ is_power_of_two(align)

\* allocate() picks the block at off: the first that fits.
FirstFit(b, off, size, align) ==
  /\ ValidAlign(align)
  /\ FitsAt(b, off, size, align)
  /\ \A o \in DOMAIN b : o < off => ~FitsAt(b, o, size, align)

\* The blocks once the block at off is taken: its tail is split off if it can hold
\* a header and a payload.
Carve(b, off, size, align) ==
  LET needed == round_up(PayloadOffset(off, align) + size, kAlign)
      remainder == b[off].size - needed
      split == remainder >= kHeader + kAlign IN
  [o \in DOMAIN b \union (IF split THEN {off + needed} ELSE {}) |->
     IF o = off
     THEN [size |-> IF split THEN needed ELSE b[off].size,
           payloadOffset |-> PayloadOffset(off, align), allocated |-> TRUE]
     ELSE IF o \in DOMAIN b THEN b[o] ELSE FreeBlock(remainder)]

\* The pointer to the payload of the block at off, as an offset into storage_.
Payload(b, off) == off + b[off].payloadOffset

\* The blocks handed out and not freed, and their pointers.
Allocated(b) == {o \in DOMAIN b : b[o].allocated}
LivePointers(b) == {Payload(b, o) : o \in Allocated(b)}

-----------------------------------------------------------------------------

\* A free block starts at off.
IsFreeAt(b, off) == off \in DOMAIN b /\ ~b[off].allocated

\* Headers that coalesce() keeps: all but those of free blocks that directly
\* follow a free block.
Kept(b) ==
  {o \in DOMAIN b : ~(IsFreeAt(b, o) /\
                      \E q \in DOMAIN b : IsFreeAt(b, q) /\ q + b[q].size = o)}

\* coalesce(): every run of adjacent free blocks becomes one block.
coalesce_mut(b) == b
coalesce(b) ==
  [o \in Kept(b) |->
     IF b[o].allocated THEN b[o]
     ELSE FreeBlock(Min({k \in Kept(b) \union {kUsable} : k > o}) - o)]

\* The block at off is marked free, then coalesce().
Free(b, off) == coalesce([b EXCEPT ![off] = FreeBlock(b[off].size)])

\* p is the result of allocate(size, align), the null pointer when refused.
allocate(p, size, align) ==
  \/ \E off \in DOMAIN blocks :
       /\ FirstFit(blocks, off, size, align)
       /\ blocks' = Carve(blocks, off, size, align)
       /\ bytesUsed' = bytesUsed + blocks'[off].size
       /\ p = Payload(blocks', off)
  \/ /\ \A off \in DOMAIN blocks : ~FirstFit(blocks, off, size, align)
     /\ p = Null
     /\ UNCHANGED poolVars

\* deallocate(p) of an allocated block.  Any other pointer is reported as
\* internal_error; module Task shows that none is ever passed.
deallocate(p) ==
  \E off \in DOMAIN blocks :
    /\ blocks[off].allocated
    /\ Payload(blocks, off) = p
    /\ bytesUsed' = bytesUsed - blocks[off].size
    /\ blocks' = Free(blocks, off)

-----------------------------------------------------------------------------
(* Properties.                                                             *)

\* The blocks tile the arena: each one starts where another ends, at a multiple
\* of kAlign, and an allocated payload lies inside its block, aligned; so no two
\* frames overlap.
Tiles(b) ==
  /\ 0 \in DOMAIN b
  /\ \A o \in DOMAIN b :
       /\ o \in Offsets /\ o % kAlign = 0
       /\ o + b[o].size = Min({k \in DOMAIN b \union {kUsable} : k > o})
       /\ b[o].allocated => kHeader <= b[o].payloadOffset
                            /\ b[o].payloadOffset <= b[o].size

\* The bytes of the allocated blocks, headers and padding included.
UsedBytes(b) == UNION {o..(o + b[o].size - 1) : o \in Allocated(b)}

\* Whatever was allocated and freed in whatever order, the blocks tile the arena
\* and bytesUsed_ counts the bytes of the allocated ones.
BlocksTile ==
  /\ Tiles(blocks)
  /\ bytesUsed = Cardinality(UsedBytes(blocks))

\* Bytes in [h, e) are free for a new block.
Unused(h, e) ==
  e <= kUsable /\ \A o \in DOMAIN blocks :
    blocks[o].allocated => e <= o \/ o + blocks[o].size <= h

\* Fragmentation never hides room: allocate() refuses a request only if no header
\* position in the arena leaves free bytes for the header, the padding and the
\* payload.
RefusedOnlyWhenFull ==
  \A size \in Sizes, align \in Aligns :
    ValidAlign(align) /\ (\E h \in Offsets : h % kAlign = 0 /\
                            Unused(h, h + PayloadOffset(h, align) + size))
      => \E off \in DOMAIN blocks : FirstFit(blocks, off, size, align)

\* What an allocation takes, freeing it gives back: in every reachable state
\* allocate() returns an aligned pointer to size bytes inside its block, the
\* blocks still tile the arena, and deallocate() restores the pool.
AllocationUndone ==
  \A size \in Sizes, align \in Aligns : \A off \in DOMAIN blocks :
    FirstFit(blocks, off, size, align) =>
      LET b == Carve(blocks, off, size, align) IN
        /\ (Base + Payload(b, off)) % Effective(align) = 0
        /\ Payload(b, off) + size <= off + b[off].size
        /\ Tiles(b)
        /\ Free(b, off) = blocks
==============================================================================
