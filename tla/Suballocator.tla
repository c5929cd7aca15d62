---------------------------- MODULE Suballocator ----------------------------
(***************************************************************************)
(* The allocator of one device memory node (datawizard/malloc.c), on top   *)
(* of the accounting of MemoryManager. Small allocations are segments of   *)
(* consecutive blocks of a chunk; the free segments of a chunk are linked  *)
(* through its bitmap, block 0 being the head. Larger allocations are made *)
(* one by one. chunk_mutex makes each call one step: what it reads or      *)
(* writes outside chunks is read or written once, in MemoryManager.        *)
(*                                                                         *)
(* The bitmap of the model has no entry for a block that starts no free    *)
(* segment: the program leaves there a value it does not read again.       *)
(***************************************************************************)
EXTENDS MemoryManager, SequencesExt

CONSTANTS
    CHUNK_NBLOCKS,  \* blocks of a chunk
    CHUNK_SIZE,     \* what a chunk counts for in the memory manager
    CHUNKS_NFREE,   \* free chunks that are kept
    BigSize,        \* a size over CHUNK_ALLOC_MAX
    MaxChunks,      \* bound on the chunks the device can hold
    MaxFailures,    \* bound on the allocations the device refuses
    Loads           \* what callers do: [blocks: sizes of segments, big: BOOLEAN, calls: Nat]

ASSUME ChunkAssumption ==
    /\ CHUNK_NBLOCKS \in Nat \ {0} /\ CHUNK_SIZE \in Nat \ {0} /\ BigSize \in Nat \ {0}
    /\ \A l \in Loads : l.blocks \subseteq 1..CHUNK_NBLOCKS

VARIABLES
    load,           \* the load of this behaviour
    chunks,         \* node_struct->chunks, first to last
    nfreechunks,    \* how many of them are completely free
    segments,       \* the segments handed out and not freed
    big,            \* whether a large allocation is live
    failures,       \* allocations that the device refused
    up,             \* before _starpu_malloc_shutdown
    ncalls          \* waits that threads made

allocvars == <<load, chunks, nfreechunks, segments, big, failures, up, ncalls>>
allvars == <<vars, allocvars>>

InitAll ==
    /\ Init
    /\ load \in Loads
    /\ chunks = <<>> /\ nfreechunks = 0 /\ segments = {}
    /\ big = FALSE /\ failures = 0 /\ up = TRUE /\ ncalls = 0

-----------------------------------------------------------------------------
(* The free segments of a chunk                                            *)

\* The blocks met from block 0 on.
FreeList(bitmap) ==
    LET From[b \in -1..CHUNK_NBLOCKS] ==
            IF b = -1 THEN <<>> ELSE <<b>> \o From[bitmap[b].next]
    IN  From[0]

Longest(c) == Max({c.bitmap[b].length : b \in DOMAIN c.bitmap})

Block(length, next) == [length |-> length, next |-> next]

\* A chunk that was just obtained from the device.
NewChunk(base) ==
    [base |-> base, available |-> CHUNK_NBLOCKS, available_max |-> CHUNK_NBLOCKS,
     bitmap |-> (0 :> Block(0, 1)) @@ (1 :> Block(CHUNK_NBLOCKS, -1))]

\* The index in the free list of the first segment of n blocks, 0 if there is none.
FirstFit(c, n) ==
    SelectInSeq(FreeList(c.bitmap), LAMBDA b : c.bitmap[b].length >= n)

Without(bitmap, b) == [x \in DOMAIN bitmap \ {b} |-> bitmap[x]]

\* Takes n blocks at the start of the segment at index i of the free list.
Carve(c, i, n) ==
    LET list == FreeList(c.bitmap)
        prevblock == list[i - 1]
        block == list[i]
        found == c.bitmap[block]
        rest == IF found.length = n THEN Without(c.bitmap, block)
                ELSE (block + n :> Block(found.length - n, found.next))
                     @@ Without(c.bitmap, block)
        next == IF found.length = n THEN found.next ELSE block + n
    IN  [c EXCEPT !.available = @ - n,
                  !.bitmap = [rest EXCEPT ![prevblock].next = next]]

\* Inserts the freed blocks after the last free segment that starts before them.
Link(bitmap, prevblock, block, n) ==
    (prevblock :> Block(bitmap[prevblock].length, block))
    @@ (block :> Block(n, bitmap[prevblock].next)) @@ bitmap

\* Mutant: the length of the merged segment is not updated.
Join_LengthKept(bitmap, a, b) ==
    [Without(bitmap, b) EXCEPT ![a] = Block(@.length, bitmap[b].next)]

\* Merges segment a with segment b, which follows it in the list.
Join(bitmap, a, b) ==
    [Without(bitmap, b) EXCEPT ![a] = Block(@.length + bitmap[b].length, bitmap[b].next)]

Joinable(bitmap, a, b) == a > 0 /\ b # -1 /\ a + bitmap[a].length = b

Raise(c, length) == IF length > c.available_max THEN length ELSE c.available_max

\* The chunk c once the n blocks from block on are free again: merged with the next
\* free segment, then with the one before, either of which may raise available_max.
Release(c, block, n) ==
    LET list == FreeList(c.bitmap)
        Before(b) == c.bitmap[b].next > block \/ c.bitmap[b].next = -1
        prevblock == list[SelectInSeq(list, Before)]
        linked == Link(c.bitmap, prevblock, block, n)
        next == linked[block].next
        after == Joinable(linked, block, next)
        merged == IF after THEN Join(linked, block, next) ELSE linked
        before == Joinable(merged, prevblock, block)
        whole == IF before THEN Join(merged, prevblock, block) ELSE merged
        length == whole[IF before THEN prevblock ELSE block].length
    IN  [c EXCEPT !.available = @ + n, !.bitmap = whole,
                  !.available_max = IF after \/ before THEN Raise(c, length) ELSE @]

-----------------------------------------------------------------------------
(* The chunks of the node                                                  *)

MoveFront(s, i) == <<s[i]>> \o RemoveAt(s, i)

\* Chunk c is worth looking into, and whether it has room.
Skipped(c, n) == c.available_max < n
HasRoom(c, n) == ~Skipped(c, n) /\ FirstFit(c, n) # 0

\* The chunks after a search of n blocks that stops at index stop: available_max
\* was out of date in those that were looked into in vain.
Searched(n, stop) ==
    [i \in DOMAIN chunks |->
        IF i < stop /\ ~Skipped(chunks[i], n)
        THEN [chunks[i] EXCEPT !.available_max = Longest(chunks[i])]
        ELSE chunks[i]]

Found(n) == SelectInSeq(chunks, LAMBDA c : HasRoom(c, n))

Segment(base, block, n) == [base |-> base, block |-> block, nblocks |-> n]

\* Mutant: nfreechunks is not updated.
TakeFrom_StillFree(n, f) ==
    LET c == chunks[f]
        i == FirstFit(c, n)
        block == FreeList(c.bitmap)[i]
        carved == ReplaceAt(Searched(n, f), f, Carve(c, i, n))
    IN  /\ chunks' = IF c.bitmap[block].length >= 2 * n THEN MoveFront(carved, f) ELSE carved
        /\ segments' = segments \cup {Segment(c.base, block, n)}
        /\ UNCHANGED nfreechunks

\* starpu_malloc_on_node_flags finds a segment in the chunk at index f, which moves
\* to the front of the list when it has quite some room.
TakeFrom(n, f) ==
    LET c == chunks[f]
        i == FirstFit(c, n)
        block == FreeList(c.bitmap)[i]
        carved == ReplaceAt(Searched(n, f), f, Carve(c, i, n))
    IN  /\ chunks' = IF c.bitmap[block].length >= 2 * n THEN MoveFront(carved, f) ELSE carved
        /\ nfreechunks' = nfreechunks - (IF c.available = CHUNK_NBLOCKS THEN 1 ELSE 0)
        /\ segments' = segments \cup {Segment(c.base, block, n)}

\* Mutant: nothing is counted.
DeviceMalloc_Uncounted(n) == UNCHANGED nodevars

\* _starpu_malloc_on_node when the device has room, and when it has not: the
\* flag is cleared before it is tested, and the amount stays accounted for.
DeviceMalloc(n) == AllocateNow(n, FALSE)

DeviceFull(n) ==
    /\ failures < MaxFailures
    /\ AllocateNow(n, FALSE)
    /\ failures' = failures + 1

OutOfMemory(n) == global_size # 0 /\ ~Fits(n)

Bases == 1..MaxChunks
FreshBase == Min(Bases \ {chunks[i].base : i \in DOMAIN chunks})

\* _starpu_new_chunk, and the new chunk serves the n blocks.
TakeNew(n) ==
    LET c == NewChunk(FreshBase)
    IN  /\ Len(chunks) < MaxChunks
        /\ DeviceMalloc(CHUNK_SIZE)
        /\ chunks' = <<Carve(c, 2, n)>> \o Searched(n, Len(chunks) + 1)
        /\ segments' = segments \cup {Segment(c.base, 1, n)}
        /\ UNCHANGED <<nfreechunks, failures>>

\* starpu_malloc_on_node_flags for n blocks.
Malloc(n) ==
    /\ up /\ n \in load.blocks
    /\ \/ /\ Found(n) # 0
          /\ TakeFrom(n, Found(n))
          /\ UNCHANGED <<nodevars, failures>>
       \/ Found(n) = 0 /\ TakeNew(n)
       \/ /\ Found(n) = 0
          /\ \/ OutOfMemory(CHUNK_SIZE) /\ UNCHANGED <<nodevars, failures>>
             \/ DeviceFull(CHUNK_SIZE)
          /\ chunks' = Searched(n, Len(chunks) + 1)
          /\ UNCHANGED <<nfreechunks, segments>>
    /\ UNCHANGED <<callvars, reserved, load, big, up, ncalls>>

\* starpu_free_on_node_flags of segment s. A chunk that becomes free is kept as long
\* as there are few of them, another one moves to the front of the list.
Free(s) ==
    LET f == SelectInSeq(chunks, LAMBDA c : c.base = s.base)
        c == Release(chunks[f], s.block, s.nblocks)
        empty == c.available = CHUNK_NBLOCKS
    IN  /\ up
        /\ segments' = segments \ {s}
        /\ IF empty /\ nfreechunks >= CHUNKS_NFREE
           THEN /\ chunks' = RemoveAt(chunks, f)
                /\ DeallocateNow(CHUNK_SIZE)
                /\ UNCHANGED nfreechunks
           ELSE /\ chunks' = IF empty THEN ReplaceAt(chunks, f, c)
                             ELSE MoveFront(ReplaceAt(chunks, f, c), f)
                /\ nfreechunks' = nfreechunks + (IF empty THEN 1 ELSE 0)
                /\ UNCHANGED <<nodevars, callvars>>
        /\ UNCHANGED <<reserved, load, big, failures, up, ncalls>>

\* An allocation over CHUNK_ALLOC_MAX.
BigMalloc ==
    /\ up /\ load.big /\ ~big
    /\ \/ DeviceMalloc(BigSize) /\ big' = TRUE /\ UNCHANGED failures
       \/ DeviceFull(BigSize) /\ UNCHANGED big
    /\ UNCHANGED <<callvars, reserved, load, chunks, nfreechunks, segments, up, ncalls>>

BigFree ==
    /\ up /\ big
    /\ big' = FALSE
    /\ DeallocateNow(BigSize)
    /\ UNCHANGED <<reserved, load, chunks, nfreechunks, segments, failures, up, ncalls>>

\* _starpu_malloc_shutdown, once everything was freed, releases the chunks kept.
Shutdown ==
    /\ up /\ segments = {} /\ ~big
    /\ up' = FALSE
    /\ UNCHANGED <<vars, load, chunks, nfreechunks, segments, big, failures, ncalls>>

ShutdownChunk ==
    /\ ~up /\ chunks # <<>>
    /\ chunks' = Tail(chunks)
    /\ DeallocateNow(CHUNK_SIZE)
    /\ UNCHANGED <<reserved, load, nfreechunks, segments, big, failures, up, ncalls>>

-----------------------------------------------------------------------------
(* Other users of the memory manager, which make at most load.calls calls  *)

Call(A) ==
    /\ ncalls < load.calls
    /\ ncalls' = ncalls + 1
    /\ A
    /\ UNCHANGED <<load, chunks, nfreechunks, segments, big, failures, up>>

CallAllocate == \E n \in Sizes, overflow \in BOOLEAN : Call(Allocate(n, overflow))

CallWait(t) == \E n \in Sizes, take \in BOOLEAN : Call(Wait(t, n, take))

GiveBack == (\E n \in Sizes : Deallocate(n)) /\ UNCHANGED allocvars

Rechecks(t) == Recheck(t) /\ UNCHANGED allocvars

NextAll ==
    \/ \E n \in 1..CHUNK_NBLOCKS : Malloc(n)
    \/ \E s \in segments : Free(s)
    \/ BigMalloc \/ BigFree
    \/ Shutdown \/ ShutdownChunk
    \/ CallAllocate \/ GiveBack
    \/ \E t \in Threads : \/ CallWait(t) \/ Rechecks(t)
                          \/ SpuriousWakeup(t) /\ UNCHANGED allocvars

\* A woken thread gets lock_nodes in the end, and what was reserved is given back.
Fairness == WF_allvars(GiveBack) /\ \A t \in Threads : WF_allvars(Rechecks(t))

SpecAll == InitAll /\ [][NextAll]_allvars /\ Fairness

-----------------------------------------------------------------------------
(* Properties                                                              *)

FreeRange(c, b) == b..(b + c.bitmap[b].length - 1)

SegmentRange(s) == s.block..(s.block + s.nblocks - 1)

\* Each block of a chunk is in exactly one live segment or one free segment of the
\* bitmap; the free list is sorted and no two of its segments touch, in any order
\* of allocations and frees (the splits of starpu_malloc_on_node_flags and the merges
\* of starpu_free_on_node_flags).
BlocksPartitioned ==
    \A i \in DOMAIN chunks :
        LET c == chunks[i]
            list == FreeList(c.bitmap)
            live == {s \in segments : s.base = c.base}
            free == DOMAIN c.bitmap \ {0}
            ranges == {SegmentRange(s) : s \in live} \cup {FreeRange(c, b) : b \in free}
        IN  /\ ToSet(list) = DOMAIN c.bitmap
            /\ \A k \in 2..(Len(list) - 1) : list[k] + c.bitmap[list[k]].length < list[k + 1]
            /\ UNION ranges = 1..CHUNK_NBLOCKS
            /\ MapThenSumSet(Cardinality, ranges) = CHUNK_NBLOCKS
            /\ Cardinality(ranges) = Cardinality(live) + Cardinality(free)

\* available and nfreechunks count the free blocks and the free chunks, and the node
\* keeps no more than CHUNKS_NFREE free chunks (starpu_free_on_node_flags).
FreeCountsExact ==
    LET empty == {i \in DOMAIN chunks : \A s \in segments : s.base # chunks[i].base}
    IN  /\ \A i \in DOMAIN chunks : chunks[i].available =
             MapThenSumSet(LAMBDA b : chunks[i].bitmap[b].length, DOMAIN chunks[i].bitmap)
        /\ up => nfreechunks = Cardinality(empty) /\ nfreechunks <= CHUNKS_NFREE

\* What the node really holds for its users.
InUse == reserved + CHUNK_SIZE * Len(chunks) + (IF big THEN BigSize ELSE 0)

\* used_size never falls below what is in use, and is exact as long as the device
\* refused nothing (_starpu_malloc_on_node, _starpu_free_on_node_flags).
NeverUndercounted == used_size >= InUse /\ (failures = 0 => used_size = InUse)

\* "Allocation failed, gives the memory back to the memory manager"
\* (_starpu_malloc_on_node): used_size is what is in use.
AccountingExact == used_size = InUse

\* "Overestimation of the maximum size of available segments in this chunk"
\* (available_max of struct _starpu_chunk).
AvailableMaxOverestimates ==
    \A i \in DOMAIN chunks : Longest(chunks[i]) <= chunks[i].available_max

\* There is room for each thread that waits, apart from what others have reserved and
\* will give back.
RoomInTheEnd ==
    \A t \in Threads : pc[t] # "idle" => used_size - reserved + asked[t] <= global_size

\* Threads that wait for an amount the allocator leaves to them get it, or see it
\* available, once the others have given theirs back (starpu_memory_allocate with
\* STARPU_MEMORY_WAIT, starpu_memory_wait_available).
WaitersReturn == <>[]RoomInTheEnd => <>[](\A t \in Threads : pc[t] = "idle")
=============================================================================
