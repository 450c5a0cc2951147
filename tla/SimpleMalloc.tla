---------------------------- MODULE SimpleMalloc ----------------------------
(***************************************************************************)
(* The default allocator of a contract (libraries/eosiolib/                *)
(* simple_malloc.cpp): a bump allocator over the linear memory of a WASM   *)
(* instance.  dsmalloc keeps where the next block starts (last_ptr) and    *)
(* its own count of the pages of the memory (next_page); the host keeps    *)
(* the real count and refuses to grow past its limit, which aborts the     *)
(* contract.  free() never gives memory back.                              *)
(*                                                                         *)
(* Addresses and sizes are naturals below Word (2^32 on wasm32); pages,    *)
(* alignment and word are parameters so that small instances have the      *)
(* page crossings and the wrap-arounds of the real one.                    *)
(***************************************************************************)
EXTENDS Naturals, FiniteSets

CONSTANTS
    PageSize,   \* wasm_page_size, 65536
    Align,      \* the default align_amt of operator(), 16
    Word,       \* size_t is computed modulo Word, 2^32
    MaxPages,   \* the host refuses to grow past this (33 MiB on chain)
    HeapBase,   \* the value the linker stores at address 0
    InitPages,  \* pages the module is instantiated with
    Sizes,      \* the sizes programs ask for
    CMem        \* TRUE when memmove is the one of memory.cpp (-leosio_cmem)

ASSUME SizesAssumption ==
    /\ Align \in Nat \ {0}
    /\ \E k \in 1 .. PageSize : PageSize = Align * k
    /\ \E k \in 1 .. Word : Word = PageSize * k
    /\ Sizes \subseteq 0 .. Word - 1

\* The limit of the host is far below the address space, the data segments
\* lie in the initial memory, and address 0 is not part of the heap.
ASSUME MemoryAssumption ==
    /\ MaxPages \in Nat /\ (MaxPages + 1) * PageSize < Word
    /\ InitPages \in 1 .. MaxPages
    /\ HeapBase \in 1 .. InitPages * PageSize
    /\ CMem \in BOOLEAN

VARIABLES
    h,      \* the allocator and the memory it manages: see Heap
    live,   \* the blocks the program holds, [base |-> address, size |-> bytes]
    copy    \* what realloc just copied, [src |-> , dst |-> , n |-> ]

vars == <<h, live, copy>>

\* last is last_ptr, next is next_page, pages is what the host counts, ok is
\* FALSE once eosio::check has aborted the contract.
Heap == [last : Nat, next : Nat, pages : Nat, ok : BOOLEAN]

Block == [base : Nat, size : Nat]

AlignDown(p) == (p % Word) - (p % Align)

\* simple_malloc.cpp align(): round up to a multiple of Align, in a Word.
AlignUp(p) == LET x == (p + Align - 1) % Word IN x - (x % Align)

\* memory.grow of the host: all the pages or none.
CanGrow(pages, n) == pages + n <= MaxPages

WholePagesOnly(next, last, sz) == sz \div PageSize
AlwaysOneMore(next, last, sz) == (sz \div PageSize) + 1

\* The pages operator() asks for: the whole pages of the request and one
\* more when the new last_ptr is not below the memory it believes to have.
PagesToAlloc(next, last, sz) ==
    LET whole == sz \div PageSize
    IN  IF ((next + whole) * PageSize) % Word <= last THEN whole + 1 ELSE whole

DsmallocForgetsPages(m, sz) ==
    LET last == AlignUp((m.last + sz) % Word)
        n    == PagesToAlloc(m.next, last, sz)
        ok   == CanGrow(m.pages, n)
    IN  [last |-> last, next |-> m.next, ok |-> ok,
         pages |-> IF ok THEN m.pages + n ELSE m.pages]

\* dsmalloc::operator() for sz # 0.  last_ptr and next_page are assigned
\* before the host is asked, as in the code.
Dsmalloc(m, sz) ==
    LET last == AlignUp((m.last + sz) % Word)
        n    == PagesToAlloc(m.next, last, sz)
        ok   == CanGrow(m.pages, n)
    IN  [last  |-> last,
         next  |-> m.next + n,
         pages |-> IF ok THEN m.pages + n ELSE m.pages,
         ok    |-> ok]

NoCopy == [src |-> 0, dst |-> 0, n |-> 0]

Init ==
    /\ h = [last |-> AlignUp(HeapBase), next |-> InitPages,
            pages |-> InitPages, ok |-> TRUE]
    /\ live = {}
    /\ copy = NoCopy

\* A successful allocation hands out [m.last, m.last + sz).
Grant(m, sz) == [base |-> m.last, size |-> sz]

-----------------------------------------------------------------------------

Malloc(sz) ==
    /\ h.ok
    /\ IF sz = 0
         THEN UNCHANGED <<h, live>>
         ELSE /\ h' = Dsmalloc(h, sz)
              /\ live' = IF h'.ok THEN live \cup {Grant(h, sz)} ELSE live
    /\ copy' = NoCopy

\* count * size is computed in a size_t and the same wrapped product is
\* allocated and cleared.
Calloc(count, sz) == Malloc((count * sz) % Word)

ReallocCopiesUnits(ptr, sz) ==
    /\ h.ok /\ sz # 0
    /\ h' = Dsmalloc(h, sz)
    /\ live' = IF h'.ok THEN {b \in live : b.base # ptr} \cup {Grant(h, sz)}
                        ELSE live
    /\ copy' = IF h'.ok THEN [src |-> ptr, dst |-> h.last, n |-> sz * Align]
                        ELSE NoCopy

\* The block is always a new one; the old one is simply left behind.  With
\* the memmove of memory.cpp the copy goes through a second allocation of
\* the same size, which may abort in its turn.  ptr may be NULL.
Realloc(ptr, sz) ==
    /\ h.ok
    /\ IF sz = 0
         THEN UNCHANGED <<h, live>> /\ copy' = NoCopy
         ELSE LET m == Dsmalloc(h, sz)
              IN  /\ h' = IF m.ok /\ CMem THEN Dsmalloc(m, sz) ELSE m
                  /\ IF h'.ok
                       THEN /\ live' = {b \in live : b.base # ptr}
                                         \cup {Grant(h, sz)}
                            /\ copy' = [src |-> ptr, dst |-> h.last, n |-> sz]
                       ELSE UNCHANGED live /\ copy' = NoCopy

\* free() has an empty body.
Free(b) ==
    /\ h.ok
    /\ live' = live \ {b}
    /\ copy' = NoCopy
    /\ UNCHANGED h

\* The contract is instantiated anew for the next action: fresh memory,
\* fresh static objects, whether the previous one aborted or returned.
Instantiate ==
    /\ h' = [last |-> AlignUp(HeapBase), next |-> InitPages,
             pages |-> InitPages, ok |-> TRUE]
    /\ live' = {}
    /\ copy' = NoCopy

Next ==
    \/ \E sz \in Sizes : Malloc(sz)
    \/ \E count, sz \in Sizes : Calloc(count, sz)
    \/ \E sz \in Sizes, ptr \in {0} \cup {b.base : b \in live} : Realloc(ptr, sz)
    \/ \E b \in live : Free(b)
    \/ Instantiate

Spec == Init /\ [][Next]_vars

-----------------------------------------------------------------------------

TypeOK ==
    /\ h \in Heap
    /\ live \subseteq Block
    /\ copy \in [src : Nat, dst : Nat, n : Nat]

\* The allocator's own count of pages is the host's, and everything below
\* last_ptr exists: the two are kept in step only by operator() asking for
\* exactly as many pages as it adds to next_page.
Backed ==
    h.ok => /\ h.next = h.pages
            /\ h.last <= h.pages * PageSize

\* Every block the program holds lies in the memory, also when the addition
\* or the product in its size wrapped around.
BlocksInMemory ==
    h.ok => \A b \in live : b.base + b.size <= h.pages * PageSize

\* Two blocks the program holds never overlap.
BlocksDisjoint ==
    h.ok => \A b, c \in live :
              b # c => b.base + b.size <= c.base \/ c.base + c.size <= b.base

\* Blocks are aligned and none is NULL.
BlocksAligned ==
    h.ok => \A b \in live : b.base % Align = 0 /\ b.base # 0

\* realloc copies as many bytes as the new block has, from a block that may
\* be smaller.  Its comment claims that reading past the old block is
\* harmless; it is, because the read stays in the linear memory.
CopyInMemory ==
    h.ok => /\ copy.src + copy.n <= h.pages * PageSize
            /\ copy.dst + copy.n <= h.pages * PageSize

\* What may lie unused above last_ptr: a page, or what the instance got.
Slack == IF InitPages * PageSize <= HeapBase + PageSize
           THEN PageSize ELSE InitPages * PageSize

\* A page is reserved only when it is needed: at any time less than a page
\* (or what the instance started with) lies unused above last_ptr, so the
\* contract aborts only when its memory is really exhausted.
SlackBounded ==
    h.ok => h.pages * PageSize <= h.last + Slack
=============================================================================
