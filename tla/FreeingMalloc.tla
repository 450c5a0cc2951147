---------------------------- MODULE FreeingMalloc ----------------------------
(***************************************************************************)
(* The allocator of contracts linked with --use-freeing-malloc             *)
(* (libraries/eosiolib/malloc.cpp).  memory_manager carves blocks off the  *)
(* end of its active heap, the static _initial_heap first, then one that   *)
(* grows page by page; realloc merges a block with the freed ones behind   *)
(* it, which it finds by the headers in front of the blocks.               *)
(*                                                                         *)
(* malloc_from_freed, the search for freed blocks once the host refuses to *)
(* grow, is reached in no build: see Mallocs.                              *)
(*                                                                         *)
(* The unit of addresses and sizes is a size_t, so that a header is one    *)
(* cell: a request of b bytes is one of the units b takes up, since        *)
(* adjust_to_mem_block rounds both to the same block.  A cell holds a      *)
(* header, or data of the program.  Requests are below 2^31 bytes, where   *)
(* no size reaches the bit that marks an allocated block.                  *)
(***************************************************************************)
EXTENDS Naturals, FiniteSets

CONSTANTS
    MemBlock,     \* _mem_block in units: 2 on wasm32
    PageUnits,    \* units in a page
    InitPages,    \* pages of the memory when the program starts
    MaxPages,     \* the host refuses to grow past this
    InitialHeap,  \* the address of _initial_heap
    InitialSize,  \* _initial_heap_size
    HeapsSize,    \* _heaps_size
    Sizes,        \* the sizes programs ask malloc and calloc for
    ReallocSizes, \* the sizes they ask realloc for
    Tame,         \* whether programs refrain from the calls of realloc that
                  \* tear a heap: see CrossesEnd
    Data          \* a cell the program has written

ASSUME UnitsAssumption ==
    /\ MemBlock \in {1, 2}
    /\ PageUnits \in Nat \ {0} /\ PageUnits % MemBlock = 0
    /\ InitialSize \in Nat \ {0} /\ InitialSize % MemBlock = 0
    /\ InitPages \in Nat /\ MaxPages \in Nat /\ InitPages <= MaxPages
    /\ InitialHeap \in Nat \ {0}
    /\ InitialHeap + InitialSize < InitPages * PageUnits
    /\ HeapsSize \in Nat /\ HeapsSize >= 2
    /\ Sizes \subseteq Nat /\ ReallocSizes \subseteq Nat
    /\ Tame \in BOOLEAN

\* Data is told from a header.
ASSUME DataAssumption == Data \notin [size : Nat, alloc : BOOLEAN]

VARIABLES
    m,      \* the memory_manager and the memory: see Init
    live,   \* the blocks the program holds, [ptr |-> address, size |-> units]
    state,  \* "ok", or "trap" when the host has stopped the program
    failed  \* the size, adjusted, that the last call could not provide, or 0

vars == <<m, live, state, failed>>

Null == 0

Zero == [size |-> 0, alloc |-> FALSE]

\* A heap that is not initialised has the address 0.
NoHeap == [base |-> 0, size |-> 0, off |-> 0]

\* The last cell there may ever be.
Top == MaxPages * PageUnits

Start ==
    [heaps  |-> [i \in 0 .. HeapsSize |-> NoHeap],
     actual |-> 0,                      \* _heaps_actual_size
     active |-> 0,                      \* _active_heap
     pages  |-> InitPages,              \* sbrk_bytes, in pages
     mem    |-> [a \in 1 .. Top |-> Zero]]

EndOf(h) == h.base + h.size

-----------------------------------------------------------------------------
(* memory::buffer_ptr: the header in front of a block.                     *)

\* A header read from a cell with data would have any value; no property
\* depends on which (see HeapTiled).
Header(mem, p) == IF mem[p - 1] = Data THEN Zero ELSE mem[p - 1]

Mark(mem, p, n, alloc) == [mem EXCEPT ![p - 1] = [size |-> n, alloc |-> alloc]]

MarkAlloc(mem, p) == Mark(mem, p, Header(mem, p).size, TRUE)

MarkFree(mem, p) == Mark(mem, p, Header(mem, p).size, FALSE)

SpanOverAllocated(mem, p, n, end, needed) ==
    LET far[s \in Nat] ==
          IF s < needed /\ p + s < end
            THEN far[s + Header(mem, p + s + 1).size + 1]
            ELSE s
    IN  far[n]

\* The loop of merge_contiguous: how far from p the block of size n and the
\* free ones behind it reach, or as far as needed.
Span(mem, p, n, end, needed) ==
    LET far[s \in Nat] ==
          IF s < needed /\ p + s < end /\ ~Header(mem, p + s + 1).alloc
            THEN far[s + Header(mem, p + s + 1).size + 1]
            ELSE s
    IN  far[n]

MergeForgetsMarker(mem, p, end, needed) ==
    LET possible == Span(mem, p, Header(mem, p).size, end, needed)
        sized    == Mark(mem, p, needed, Header(mem, p).alloc)
    IN  IF end < p + needed \/ possible < needed
          THEN [ok |-> FALSE, mem |-> mem]
          ELSE [ok  |-> TRUE,
                mem |-> IF possible > needed
                          THEN Mark(sized, p + needed + 1, possible - needed, FALSE)
                          ELSE sized]

\* merge_contiguous_if_available for the block p: what it returns and leaves
\* in memory.  What is left over becomes a free block.
Merge(mem, p, end, needed) ==
    LET possible == Span(mem, p, Header(mem, p).size, end, needed)
        sized    == Mark(mem, p, needed, Header(mem, p).alloc)
    IN  IF end < p + needed \/ possible < needed
          THEN [ok |-> FALSE, mem |-> mem]
          ELSE [ok  |-> TRUE,
                mem |-> IF possible > needed
                          THEN Mark(sized, p + needed + 1, possible - needed - 1, FALSE)
                          ELSE sized]

-----------------------------------------------------------------------------
(* memory: one heap.                                                       *)

IsInHeap(h, p) == p >= h.base + 1 /\ p < EndOf(h)

\* The test memory::malloc begins with.
HasRoom(k, n) ==
    LET h == k.heaps[k.active] IN h.off + n + 1 <= h.size

CarveWithoutMarker(k, n) ==
    LET h == k.heaps[k.active]
    IN  [k EXCEPT !.heaps[k.active].off = h.off + n,
                  !.mem = Mark(k.mem, h.base + h.off + 1, n, TRUE)]

\* memory::malloc in the active heap, which has room.
Carve(k, n) ==
    LET h == k.heaps[k.active]
    IN  [k EXCEPT !.heaps[k.active].off = h.off + n + 1,
                  !.mem = Mark(k.mem, h.base + h.off + 1, n, TRUE)]

\* The block it returns.
Carved(k) == k.heaps[k.active].base + k.heaps[k.active].off + 1

\* cleanup_remaining: what was not carved off becomes a free block.
CleanupRemaining(k) ==
    LET h == k.heaps[k.active]
    IN  IF h.off = h.size
          THEN k
          ELSE [k EXCEPT !.heaps[k.active].off = h.size,
                         !.mem = Mark(k.mem, h.base + h.off + 1,
                                      h.size - h.off - 1, FALSE)]

-----------------------------------------------------------------------------
(* memory_manager.                                                         *)

AdjustToMemBlock(n) ==
    LET remainder == (n + 1) % MemBlock
    IN  IF remainder > 0 THEN n + MemBlock - remainder ELSE n

\* next_active_heap, called j times while the host grants the pages.
\* sbrk_bytes is always a multiple of a page, so that heap_adj is a page.
\* The pages follow one another: the first of them begins a heap unless the
\* active one ends there, the others expand it.
NextActiveHeap(k, j) ==
    LET start == k.pages * PageUnits + 1
        next  == k.active + 1
        grown == [k EXCEPT !.pages = @ + j]
    IN  IF j = 0 THEN k
        ELSE IF EndOf(k.heaps[k.active]) = start
          THEN [grown EXCEPT !.heaps[k.active].size = @ + j * PageUnits]
          ELSE [CleanupRemaining(grown) EXCEPT
                  !.active = next,
                  !.heaps[next] = [base |-> start, size |-> j * PageUnits, off |-> 0]]

\* The pages after which the loop over next_active_heap ends: the fewest that
\* make room for n, or all there are.
PagesTaken(k, n, j) ==
    /\ j \in 0 .. MaxPages - k.pages
    /\ HasRoom(NextActiveHeap(k, j), n) \/ j = MaxPages - k.pages
    /\ \A l \in 0 .. j - 1 : ~HasRoom(NextActiveHeap(k, l), n)

\* The beginning of memory_manager::malloc.
Prepared(k) ==
    [k EXCEPT !.actual = IF @ = 0 THEN HeapsSize ELSE @,
              !.heaps[0] = IF k.active = 0 /\ @.base = 0
                             THEN [base |-> InitialHeap, size |-> InitialSize, off |-> 0]
                             ELSE @]

\* The heap free and realloc find p in.
IsHeapOf(k, i, p) ==
    /\ i < k.actual
    /\ IsInHeap(k.heaps[i], p)
    /\ \A j \in 0 .. i - 1 : k.heaps[j].base # 0 /\ ~IsInHeap(k.heaps[j], p)

FreeIn(k, p) ==
    IF \E i \in 0 .. HeapsSize : IsHeapOf(k, i, p)
      THEN [k EXCEPT !.mem = MarkFree(@, p)]
      ELSE k

\* realloc_in_place for the block p of heap i: the manager, and whether the
\* block could stay.  When it shrinks, a header for the excess is written
\* into it; when it is the last one, the heap's offset moves.
ReallocInPlace(k, i, p, n) ==
    LET h    == k.heaps[i]
        orig == Header(k.mem, p).size
        r    == Merge(k.mem, p, EndOf(h), n)
    IN  IF p + orig > EndOf(h) \/ p + n > EndOf(h)
          THEN [ok |-> FALSE, k |-> k]
        ELSE IF orig > n
          THEN [ok |-> TRUE, k |-> [k EXCEPT !.mem = Mark(@, p + n + 1, orig - n, FALSE)]]
        ELSE IF p + orig = h.base + h.off
          THEN [ok |-> TRUE, k |-> [k EXCEPT !.mem = Mark(@, p, n, TRUE),
                                             !.heaps[i].off = @ + n - orig]]
        ELSE IF orig = n THEN [ok |-> TRUE, k |-> k]
        ELSE IF r.ok
          THEN [ok |-> TRUE, k |-> [k EXCEPT !.mem = MarkAlloc(r.mem, p)]]
          ELSE [ok |-> FALSE, k |-> k]

-----------------------------------------------------------------------------

\* The program writes all of the block it got.
Written(k, p, n) ==
    [k EXCEPT !.mem = [a \in DOMAIN @ |-> IF a \in p .. p + n - 1 THEN Data ELSE @[a]]]

Block(p, n) == [ptr |-> p, size |-> n]

Cells(b) == b.ptr .. b.ptr + b.size - 1

\* Two blocks the program holds never overlap.
BlocksDisjoint == \A b, c \in live : b # c => Cells(b) \cap Cells(c) = {}

\* What the program wrote into the blocks it holds is still there: the
\* allocator never puts a header into one.
ContentsKept == \A b \in live : \A a \in Cells(b) : m.mem[a] = Data

\* The program runs.  Once a block has been overwritten its behaviour is
\* undefined and the model follows it no further.
Running == state = "ok" /\ BlocksDisjoint /\ ContentsKept

Init ==
    /\ m = Start
    /\ live = {}
    /\ state = "ok"
    /\ failed = 0

\* The next action or test begins with fresh memory.
Restart ==
    /\ m' = Start
    /\ live' = {}
    /\ state' = "ok"
    /\ failed' = 0

\* malloc returned ptr, leaving the manager k: the program has a block of n
\* units in place of the block old, which is freed.
Allocates(k, ptr, n, old) ==
    /\ m' = Written(FreeIn(k, old), ptr, n)
    /\ live' = {b \in live : b.ptr # old} \cup {Block(ptr, n)}
    /\ state' = "ok"
    /\ failed' = 0

Traps(k, n) ==
    /\ m' = k
    /\ state' = "trap"
    /\ failed' = AdjustToMemBlock(n)
    /\ UNCHANGED live

\* memory_manager::malloc of n > 0 units.  _active_heap is 0 or 1, so that
\* there always is a heap to begin with.
\*
\* When the host refuses to grow, sbrk returns (void*)-1.  next_active_heap
\* casts it to an int64_t, which extends the 32 bits of a pointer with zeros,
\* so that the comparison with -1 fails, no null pointer leaves the loop over
\* the heaps and malloc_from_freed is not called: the active heap is cleaned
\* up, a heap is set up at that address, and writing its first header traps.
\* In native builds, whose pointers are as wide as int64_t, _grow_memory
\* never returns -1.
Mallocs(n, old) ==
    \E k \in {Prepared(m)}, j \in 0 .. MaxPages :
      /\ PagesTaken(k, AdjustToMemBlock(n), j)
      /\ \E g \in {NextActiveHeap(k, j)} :
           IF HasRoom(g, AdjustToMemBlock(n))
             THEN Allocates(Carve(g, AdjustToMemBlock(n)), Carved(g), n, old)
             ELSE Traps(CleanupRemaining(g), n)

Malloc(n) ==
    /\ Running
    /\ IF n = 0 THEN failed' = 0 /\ UNCHANGED <<m, live, state>>
                ELSE Mallocs(n, Null)

\* calloc clears the block malloc returned.
Calloc(n) == Malloc(n)

Free(p) ==
    /\ Running
    /\ m' = FreeIn(m, p)
    /\ live' = {b \in live : b.ptr # p}
    /\ failed' = 0
    /\ UNCHANGED state

\* The block stays where it is if its heap allows it, else it is copied to a
\* new one and freed.
Realloc(p, n) ==
    /\ Running
    /\ \/ p = Null /\ n # 0 /\ Mallocs(n, Null)
       \/ /\ p # Null /\ n # 0
          /\ \E i \in 0 .. HeapsSize :
               /\ IsHeapOf(m, i, p)
               /\ \E r \in {ReallocInPlace(m, i, p, AdjustToMemBlock(n))} :
                    \/ /\ r.ok
                       /\ m' = Written(r.k, p, n)
                       /\ live' = {b \in live : b.ptr # p} \cup {Block(p, n)}
                       /\ failed' = 0
                       /\ UNCHANGED state
                    \/ ~r.ok /\ Mallocs(n, p)
       \/ n = 0 /\ Free(p)

Ptrs == {b.ptr : b \in live}

\* A call of realloc that lets a block which is not the last of its heap grow
\* past what was carved off that heap.  merge_contiguous then takes what was
\* never carved off for a block, and the offset does not move.
CrossesEnd(p, n) ==
    \E i \in 0 .. HeapsSize :
      LET carved == m.heaps[i].base + m.heaps[i].off IN
      /\ IsHeapOf(m, i, p)
      /\ p + Header(m.mem, p).size # carved
      /\ p + AdjustToMemBlock(n) > carved

Next ==
    \/ \E n \in Sizes : Malloc(n)
    \/ \E n \in Sizes : Calloc(n)
    \/ \E p \in {Null} \cup Ptrs : Free(p)
    \/ \E p \in {Null} \cup Ptrs, n \in ReallocSizes :
         (Tame => ~CrossesEnd(p, n)) /\ Realloc(p, n)
    \/ Restart

Spec == Init /\ [][Next]_vars

-----------------------------------------------------------------------------

\* The addresses a walk over the headers of heap h up to its offset comes
\* by, the last one included, where it ends or meets data.
Walk(h) ==
    LET from[a \in Nat \ {0}] ==
          IF a >= h.base + h.off \/ m.mem[a] = Data
            THEN {a} ELSE {a} \cup from[a + m.mem[a].size + 1]
    IN  from[h.base]

Headers(h) == Walk(h) \ {h.base + h.off}

InitHeaps == {m.heaps[i] : i \in {j \in 0 .. HeapsSize : m.heaps[j].base # 0}}

\* The headers of every heap divide it up to its offset without a gap, and
\* those marked as allocated are the headers of the blocks the program holds,
\* with at least their size: nothing is lost, nothing is handed out twice.
HeapTiled ==
    /\ \A h \in InitHeaps :
         /\ h.base + h.off \in Walk(h)
         /\ \A a \in Headers(h) : a < h.base + h.off /\ m.mem[a] # Data
    /\ {a \in UNION {Headers(h) : h \in InitHeaps} : m.mem[a].alloc}
         = {b.ptr - 1 : b \in live}
    /\ \A b \in live : m.mem[b.ptr - 1].size >= b.size

\* Freed blocks next to one another that n units fit into.
FreeRun(n) ==
    \E h \in InitHeaps : \E a \in Headers(h) :
      /\ ~m.mem[a].alloc
      /\ Span(m.mem, a + 1, m.mem[a].size, h.base + h.off, n) >= n

\* malloc fails only when no run of freed blocks is large enough, as the
\* search of malloc for freed blocks intends.
FailsOnlyWhenFull == failed # 0 => ~FreeRun(failed)
=============================================================================
