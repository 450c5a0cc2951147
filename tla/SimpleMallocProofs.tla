------------------------- MODULE SimpleMallocProofs -------------------------
(***************************************************************************)
(* The safety of the bump allocator for every page size, alignment, word   *)
(* width and memory limit that satisfy the assumptions of SimpleMalloc.    *)
(***************************************************************************)
EXTENDS SimpleMalloc, TLAPS

(***************************************************************************)
(* Arithmetic.                                                             *)
(***************************************************************************)

\* Division with remainder, the facts the alignment arguments need.
LEMMA DivMod ==
    ASSUME NEW a \in Nat \ {0}, NEW n \in Nat
    PROVE  /\ n \div a \in Nat
           /\ n % a \in 0 .. a - 1
           /\ n = a * (n \div a) + (n % a)
    OBVIOUS

LEMMA ModSmall ==
    ASSUME NEW a \in Nat \ {0}, NEW n \in Nat, n < a
    PROVE  n % a = n
    OBVIOUS

LEMMA MultipleMod ==
    ASSUME NEW a \in Nat \ {0}, NEW k \in Nat
    PROVE  (a * k) % a = 0
    OBVIOUS

\* Multiples of a that are less than a apart are in order.
LEMMA MultipleGap ==
    ASSUME NEW a \in Nat \ {0}, NEW k \in Nat, NEW q \in Nat
    PROVE  /\ a * k < a * q + a => k <= q
           /\ k <= q => a * k <= a * q
           /\ k < q => a * k + a <= a * q
    OBVIOUS

LEMMA Assoc ==
    ASSUME NEW a \in Nat, NEW b \in Nat, NEW c \in Nat
    PROVE  /\ (a * b) * c = a * (b * c)
           /\ a * b = b * a
           /\ a * b \in Nat
           /\ (a + b) * c = a * c + b * c
           /\ (a + 1) * c = a * c + c
    OBVIOUS

\* The constants are positive.
LEMMA ConstantsType ==
    Align \in Nat \ {0} /\ PageSize \in Nat \ {0} /\ Word \in Nat \ {0}
<1>1. PICK k \in 1 .. PageSize : PageSize = Align * k
  BY SizesAssumption
<1>2. PICK j \in 1 .. Word : Word = PageSize * j
  BY SizesAssumption
<1>3. Align \in Nat \ {0} /\ PageSize \in Nat \ {0}
  BY SizesAssumption, <1>1
<1>. QED
  BY <1>2, <1>3

\* Pages and the word are whole numbers of alignment units.
LEMMA Divisible ==
    /\ \E k \in Nat : PageSize = Align * k
    /\ \E k \in Nat : Word = Align * k
<1>1. PICK k \in 1 .. PageSize : PageSize = Align * k
  BY SizesAssumption
<1>2. PICK j \in 1 .. Word : Word = PageSize * j
  BY SizesAssumption
<1>3. Align \in Nat /\ PageSize \in Nat /\ k \in Nat /\ j \in Nat
  BY ConstantsType
<1>4. Word = Align * (k * j) /\ k * j \in Nat
  BY <1>1, <1>2, <1>3, Assoc
<1>. QED
  BY <1>1, <1>3, <1>4

\* AlignUp stays in the type of addresses even when it wraps.
LEMMA AlignUpType ==
    ASSUME NEW p \in Nat
    PROVE  AlignUp(p) \in Nat
<1>1. (p + Align - 1) % Word \in Nat
  BY ConstantsType, DivMod
<1>2. ASSUME NEW x \in Nat PROVE x - (x % Align) \in Nat
  <2>1. /\ x \div Align \in Nat /\ x % Align \in Nat
        /\ x = Align * (x \div Align) + (x % Align)
    BY ConstantsType, DivMod
  <2>2. Align * (x \div Align) \in Nat
    BY <2>1, ConstantsType, Assoc
  <2>. QED
    BY <2>1, <2>2
<1>. QED
  BY <1>1, <1>2 DEF AlignUp

\* Below a multiple of Align that fits in a word, AlignUp rounds up to a
\* multiple of Align that is not above it.
LEMMA AlignUpBelow ==
    ASSUME NEW p \in Nat, NEW b \in Nat, p <= Align * b, Align * b < Word
    PROVE  /\ p <= AlignUp(p)
           /\ AlignUp(p) <= Align * b
           /\ AlignUp(p) < p + Align
           /\ AlignUp(p) % Align = 0
<1>. DEFINE x == p + Align - 1
            q == x \div Align
            r == x % Align
<1>1. PICK w \in Nat : Word = Align * w
  BY Divisible
<1>2. b < w
  BY <1>1, MultipleGap, ConstantsType
<1>3. x \in Nat /\ x < Word
  <2>1. Align * b + Align <= Align * w
    BY <1>2, MultipleGap, ConstantsType
  <2>. QED
    BY <2>1, <1>1, ConstantsType, Assoc
<1>4. x % Word = x
  BY <1>3, ModSmall, ConstantsType
<1>5. q \in Nat /\ r \in 0 .. Align - 1 /\ x = Align * q + r
  BY <1>3, DivMod, ConstantsType
<1>6. Align * q \in Nat
  BY <1>5, Assoc, ConstantsType
<1>7. AlignUp(p) = Align * q
  BY <1>4, <1>5, <1>6 DEF AlignUp
<1>8. q <= b
  <2>1. Align * q < Align * b + Align
    BY <1>5, <1>6, ConstantsType, Assoc
  <2>. QED
    BY <2>1, <1>5, MultipleGap, ConstantsType
<1>9. Align * q <= Align * b
  BY <1>8, <1>5, MultipleGap, ConstantsType
<1>10. (Align * q) % Align = 0
  BY <1>5, MultipleMod, ConstantsType
<1>. QED
  BY <1>5, <1>6, <1>7, <1>9, <1>10, ConstantsType

(***************************************************************************)
(* operator() on a heap that is backed by pages.                           *)
(***************************************************************************)

\* The inductive part that concerns the allocator alone.
HeapInv(m) ==
    m.ok => /\ m.next = m.pages
            /\ m.pages <= MaxPages
            /\ m.last <= m.pages * PageSize
            /\ m.last % Align = 0
            /\ m.last # 0
            /\ m.pages * PageSize <= m.last + Slack

\* operator() stays within the types, whether it succeeds or aborts.
LEMMA DsmallocType ==
    ASSUME NEW m \in Heap, NEW sz \in Nat
    PROVE  Dsmalloc(m, sz) \in Heap
<1>. DEFINE last == AlignUp((m.last + sz) % Word)
            n == PagesToAlloc(m.next, last, sz)
<1>1. m.last \in Nat /\ m.next \in Nat /\ m.pages \in Nat
  BY DEF Heap
<1>2. last \in Nat
  <2>1. (m.last + sz) % Word \in Nat
    BY <1>1, DivMod, ConstantsType
  <2>. QED
    BY <2>1, AlignUpType
<1>3. n \in Nat
  <2>1. sz \div PageSize \in Nat
    BY DivMod, ConstantsType
  <2>. QED
    BY <2>1 DEF PagesToAlloc
<1>4. CanGrow(m.pages, n) \in BOOLEAN
  BY DEF CanGrow
<1>. QED
  BY <1>1, <1>2, <1>3, <1>4 DEF Dsmalloc, Heap

\* When operator() succeeds nothing has wrapped: the host's limit is below
\* the word.  The new last_ptr is above the granted block and the pages
\* asked for cover it, and not more than one of them is spare.
LEMMA DsmallocStep ==
    ASSUME NEW m \in Heap, m.ok, HeapInv(m),
           NEW sz \in Nat \ {0}, sz < Word
    PROVE  /\ HeapInv(Dsmalloc(m, sz))
           /\ Dsmalloc(m, sz).ok => /\ m.last + sz <= Dsmalloc(m, sz).last
                                    /\ m.pages <= Dsmalloc(m, sz).pages
<1>. DEFINE d == Dsmalloc(m, sz)
            whole == sz \div PageSize
            last == AlignUp((m.last + sz) % Word)
            n == PagesToAlloc(m.next, last, sz)
<1>1. /\ m.last \in Nat /\ m.next \in Nat /\ m.pages \in Nat
      /\ m.next = m.pages /\ m.pages <= MaxPages
      /\ m.last <= m.pages * PageSize /\ m.last # 0
      /\ m.pages * PageSize <= m.last + Slack
  BY DEF Heap, HeapInv
<1>2. /\ PageSize \in Nat \ {0} /\ Word \in Nat \ {0} /\ Align \in Nat \ {0}
      /\ MaxPages \in Nat /\ (MaxPages + 1) * PageSize < Word
  BY ConstantsType, MemoryAssumption
<1>3. PICK k \in Nat : PageSize = Align * k
  BY Divisible
<1>4. whole \in Nat /\ sz < PageSize * whole + PageSize
      /\ PageSize * whole <= sz
  BY <1>2, DivMod, Assoc
<1>5. n \in {whole, whole + 1}
  BY DEF PagesToAlloc
<1>6. SUFFICES ASSUME d.ok PROVE /\ HeapInv(d)
                                 /\ m.last + sz <= d.last
                                 /\ m.pages <= d.pages
  BY DEF HeapInv
<1>7. /\ m.pages + n <= MaxPages
      /\ d = [last |-> last, next |-> m.next + n, pages |-> m.pages + n, ok |-> TRUE]
  BY <1>6 DEF Dsmalloc, CanGrow
<1>. DEFINE top == m.pages + whole
<1>8. top \in Nat /\ top <= MaxPages /\ top + 1 <= MaxPages + 1
  BY <1>1, <1>2, <1>4, <1>5, <1>7
<1>9. /\ top * PageSize \in Nat
      /\ m.pages * PageSize \in Nat
      /\ top * PageSize = m.pages * PageSize + PageSize * whole
      /\ (top + 1) * PageSize = top * PageSize + PageSize
      /\ (top + 1) * PageSize < Word
  <2>1. (top + 1) * PageSize <= (MaxPages + 1) * PageSize
    BY <1>2, <1>8, MultipleGap, Assoc
  <2>2. (top + 1) * PageSize = top * PageSize + PageSize
    BY <1>2, <1>8, Assoc
  <2>3. /\ m.pages * PageSize \in Nat /\ top * PageSize \in Nat
        /\ (MaxPages + 1) * PageSize \in Nat
    BY <1>1, <1>2, <1>8, Assoc
  <2>4. top * PageSize = m.pages * PageSize + whole * PageSize
    BY <1>1, <1>2, <1>4, Assoc
  <2>5. whole * PageSize = PageSize * whole
    BY <1>2, <1>4, Assoc
  <2>. QED
    BY <1>2, <2>1, <2>2, <2>3, <2>4, <2>5
<1>10. m.last + sz < (top + 1) * PageSize
  BY <1>1, <1>2, <1>4, <1>9, Assoc
<1>11. /\ m.last + sz \in Nat
       /\ (m.last + sz) % Word = m.last + sz
  <2>1. (top + 1) * PageSize \in Nat
    BY <1>2, <1>9
  <2>2. m.last + sz \in Nat /\ m.last + sz < Word
    <3>. HIDE DEF top
    <3>. QED BY <1>1, <1>2, <1>9, <1>10, <2>1
  <2>. QED
    BY <1>2, <2>2, ModSmall
<1>12. (top + 1) * PageSize = Align * (k * (top + 1)) /\ k * (top + 1) \in Nat
  BY <1>2, <1>3, <1>8, Assoc
<1>13. /\ m.last + sz <= last
       /\ last <= (top + 1) * PageSize
       /\ last % Align = 0
  <2>. DEFINE b == k * (top + 1)
  <2>1. /\ m.last + sz \in Nat /\ b \in Nat
        /\ m.last + sz <= Align * b /\ Align * b < Word
    <3>. DEFINE t == (top + 1) * PageSize
    <3>1. t \in Nat /\ t < Word /\ t = Align * b /\ b \in Nat
      BY <1>2, <1>9, <1>12
    <3>2. m.last + sz < t
      BY <1>10
    <3>. HIDE DEF t, b
    <3>. QED
      BY <3>1, <3>2, <1>11
  <2>2. last = AlignUp(m.last + sz)
    BY <1>11
  <2>. HIDE DEF b, last, top
  <2>3. /\ m.last + sz <= last /\ last <= Align * b /\ last % Align = 0
    BY <2>1, <2>2, AlignUpBelow
  <2>. QED
    BY <2>3, <1>12 DEF b
<1>14. last \in Nat
  BY <1>11, <1>1, AlignUpType
<1>15. (top * PageSize) % Word = top * PageSize
  BY <1>2, <1>9, ModSmall
<1>16. Slack \in Nat /\ PageSize <= Slack
  BY <1>2, MemoryAssumption, Assoc DEF Slack
<1>17. CASE top * PageSize <= last
  <2>1. n = whole + 1
    BY <1>1, <1>15, <1>17 DEF PagesToAlloc
  <2>2. m.pages + n = top + 1
    BY <2>1, <1>1, <1>4
  <2>3. (top + 1) * PageSize <= last + Slack
    BY <1>2, <1>9, <1>14, <1>16, <1>17
  <2>4. m.last <= last /\ m.pages <= top + 1 /\ top + 1 <= MaxPages
    BY <2>2, <1>1, <1>4, <1>7, <1>8, <1>13, <1>14
  <2>. HIDE DEF top, last, n
  <2>. QED
    BY <2>2, <2>3, <2>4, <1>1, <1>7, <1>9, <1>13, <1>14, <1>17 DEF HeapInv
<1>18. CASE ~(top * PageSize <= last)
  <2>1. n = whole
    BY <1>1, <1>15, <1>18 DEF PagesToAlloc
  <2>2. m.pages + n = top
    BY <2>1
  <2>3. top * PageSize <= last + Slack
    BY <1>1, <1>2, <1>4, <1>9, <1>13, <1>14, <1>16, Assoc
  <2>. QED
    BY <2>1, <2>2, <2>3, <1>1, <1>7, <1>8, <1>9, <1>13, <1>14, <1>18, <1>4 DEF HeapInv
<1>. QED
  BY <1>17, <1>18

(***************************************************************************)
(* The inductive invariant: the heap is backed, and what the program holds *)
(* lies below last_ptr, where operator() never allocates again.  The       *)
(* bounds in terms of pages that the properties state are not inductive    *)
(* without last_ptr between the blocks and the end of the memory.          *)
(***************************************************************************)

BlocksInv ==
    h.ok => \A b \in live : /\ b.base + b.size <= h.last
                            /\ b.base % Align = 0
                            /\ b.base # 0
                            /\ b.size # 0

CopyInv ==
    h.ok => copy.src + copy.n <= h.last /\ copy.dst + copy.n <= h.last

IInv == TypeOK /\ HeapInv(h) /\ BlocksInv /\ BlocksDisjoint /\ CopyInv

\* The state a contract is instantiated in.
LEMMA InitIInv ==
    ASSUME NEW m, m = [last |-> AlignUp(HeapBase), next |-> InitPages,
                       pages |-> InitPages, ok |-> TRUE]
    PROVE  m \in Heap /\ HeapInv(m)
<1>1. /\ InitPages \in Nat /\ InitPages <= MaxPages /\ MaxPages \in Nat
      /\ HeapBase \in Nat /\ HeapBase # 0 /\ HeapBase <= InitPages * PageSize
      /\ (MaxPages + 1) * PageSize < Word
  BY MemoryAssumption, ConstantsType, Assoc
<1>2. PICK k \in Nat : PageSize = Align * k
  BY Divisible
<1>. DEFINE b == k * InitPages
            t == InitPages * PageSize
<1>3. t = Align * b /\ b \in Nat /\ t \in Nat
  BY <1>1, <1>2, ConstantsType, Assoc
<1>4. t < Word
  <2>1. InitPages * PageSize + PageSize <= (MaxPages + 1) * PageSize
    BY <1>1, ConstantsType, MultipleGap, Assoc
  <2>2. (MaxPages + 1) * PageSize \in Nat
    BY <1>1, ConstantsType, Assoc
  <2>. QED
    BY <2>1, <2>2, <1>1, <1>3, ConstantsType
<1>5. /\ HeapBase <= AlignUp(HeapBase) /\ AlignUp(HeapBase) <= t
      /\ AlignUp(HeapBase) % Align = 0
  <2>. HIDE DEF b, t
  <2>1. HeapBase <= Align * b
    BY <1>1, <1>3 DEF t
  <2>. QED
    BY <1>1, <1>3, <1>4, <2>1, AlignUpBelow
<1>6. AlignUp(HeapBase) \in Nat
  BY <1>1, AlignUpType
<1>7. t <= AlignUp(HeapBase) + Slack
  <2>1. CASE t <= HeapBase + PageSize
    BY <2>1, <1>1, <1>3, <1>5, <1>6, ConstantsType DEF Slack
  <2>2. CASE ~(t <= HeapBase + PageSize)
    BY <2>2, <1>1, <1>3, <1>5, <1>6, ConstantsType DEF Slack
  <2>. QED
    BY <2>1, <2>2
<1>. HIDE DEF t
<1>8. /\ m.last = AlignUp(HeapBase) /\ m.next = InitPages
      /\ m.pages = InitPages /\ m.ok = TRUE
  OBVIOUS
<1>9. m \in Heap
  BY <1>1, <1>6 DEF Heap
<1>. QED
  BY <1>1, <1>5, <1>6, <1>7, <1>8, <1>9 DEF HeapInv, t

\* One allocation: the new block lies between the old and the new last_ptr.
LEMMA MallocStep ==
    ASSUME IInv, NEW sz \in 0 .. Word - 1, Malloc(sz)
    PROVE  IInv'
<1>1. h \in Heap /\ h.ok /\ HeapInv(h) /\ h.last \in Nat
  BY DEF IInv, TypeOK, Malloc, Heap
<1>2. CASE sz = 0
  BY <1>1, <1>2 DEF IInv, TypeOK, Malloc, HeapInv, BlocksInv, BlocksDisjoint,
        CopyInv, NoCopy
<1>3. CASE sz # 0
  <2>1. sz \in Nat \ {0} /\ sz < Word
    BY <1>3, ConstantsType
  <2>2. h' = Dsmalloc(h, sz) /\ copy' = NoCopy
    BY <1>3 DEF Malloc
  <2>3. h' \in Heap /\ HeapInv(h')
    BY <1>1, <2>1, <2>2, DsmallocType, DsmallocStep
  <2>4. h'.ok => h.last + sz <= h'.last
    BY <1>1, <2>1, <2>2, DsmallocStep
  <2>5. CASE ~h'.ok
    BY <1>3, <2>2, <2>3, <2>5 DEF Malloc, IInv, TypeOK, BlocksInv,
          BlocksDisjoint, CopyInv, HeapInv, NoCopy
  <2>6. CASE h'.ok
    <3>. DEFINE g == [base |-> h.last, size |-> sz]
    <3>1. live' = live \cup {g}
      BY <1>3, <2>6 DEF Malloc, Grant
    <3>2. g \in Block /\ g.base = h.last /\ g.size = sz
      BY <1>1, <2>1 DEF Block
    <3>3. h'.last \in Nat /\ h.last <= h'.last /\ h.last + sz <= h'.last
      BY <1>1, <2>1, <2>3, <2>4, <2>6 DEF Heap
    <3>4. \A b \in live : /\ b.base \in Nat /\ b.size \in Nat
                          /\ b.base + b.size <= h.last
                          /\ b.base % Align = 0 /\ b.base # 0 /\ b.size # 0
      BY <1>1 DEF IInv, TypeOK, Block, BlocksInv
    <3>5. h.last % Align = 0 /\ h.last # 0
      BY <1>1 DEF HeapInv
    <3>. HIDE DEF g
    <3>6. TypeOK'
      BY <2>2, <2>3, <3>1, <3>2 DEF IInv, TypeOK, NoCopy
    <3>7. BlocksInv'
      BY <1>1, <2>1, <3>1, <3>2, <3>3, <3>4, <3>5 DEF BlocksInv
    <3>8. BlocksDisjoint'
      BY <1>1, <3>1, <3>2, <3>4 DEF IInv, BlocksDisjoint
    <3>9. CopyInv'
      BY <2>2, <3>3 DEF CopyInv, NoCopy
    <3>. QED
      BY <2>3, <3>6, <3>7, <3>8, <3>9 DEF IInv
  <2>. QED
    BY <2>5, <2>6
<1>. QED
  BY <1>2, <1>3

\* One or two allocations and a copy.  The source begins below the block
\* that was granted, so reading sz bytes from it ends below last_ptr too.
LEMMA ReallocStep ==
    ASSUME IInv, NEW sz \in 0 .. Word - 1,
           NEW ptr \in {0} \cup {b.base : b \in live}, Realloc(ptr, sz)
    PROVE  IInv'
<1>1. h \in Heap /\ h.ok /\ HeapInv(h) /\ h.last \in Nat
  BY DEF IInv, TypeOK, Realloc, Heap
<1>2. CASE sz = 0
  BY <1>1, <1>2 DEF IInv, TypeOK, Realloc, HeapInv, BlocksInv, BlocksDisjoint,
        CopyInv, NoCopy
<1>3. CASE sz # 0
  <2>. DEFINE m == Dsmalloc(h, sz)
  <2>1. sz \in Nat \ {0} /\ sz < Word
    BY <1>3, ConstantsType
  <2>2. m \in Heap /\ HeapInv(m) /\ (m.ok => h.last + sz <= m.last)
    BY <1>1, <2>1, DsmallocType, DsmallocStep
  <2>3. h' = IF m.ok /\ CMem THEN Dsmalloc(m, sz) ELSE m
    BY <1>3 DEF Realloc
  <2>4. h' \in Heap /\ HeapInv(h') /\ (h'.ok => h.last + sz <= h'.last)
    <3>. HIDE DEF m
    <3>1. CASE ~(m.ok /\ CMem)
      BY <2>2, <2>3, <3>1
    <3>2. CASE m.ok /\ CMem
      <4>1. h' = Dsmalloc(m, sz) /\ m.last \in Nat
        BY <2>2, <2>3, <3>2 DEF Heap
      <4>2. /\ h' \in Heap /\ HeapInv(h')
            /\ h'.ok => m.last + sz <= h'.last
        BY <2>1, <2>2, <3>2, <4>1, DsmallocType, DsmallocStep
      <4>3. h'.last \in Nat
        BY <4>2 DEF Heap
      <4>. QED
        BY <1>1, <2>1, <2>2, <3>2, <4>1, <4>2, <4>3
    <3>. QED
      BY <3>1, <3>2
  <2>5. CASE ~h'.ok
    BY <1>3, <2>4, <2>5 DEF Realloc, IInv, TypeOK, BlocksInv, BlocksDisjoint,
          CopyInv, HeapInv, NoCopy
  <2>6. CASE h'.ok
    <3>. DEFINE g == [base |-> h.last, size |-> sz]
    <3>1. /\ live' = {b \in live : b.base # ptr} \cup {g}
          /\ copy' = [src |-> ptr, dst |-> h.last, n |-> sz]
      BY <1>3, <2>6 DEF Realloc, Grant
    <3>2. g \in Block /\ g.base = h.last /\ g.size = sz
      BY <1>1, <2>1 DEF Block
    <3>3. h'.last \in Nat /\ h.last <= h'.last /\ h.last + sz <= h'.last
      BY <1>1, <2>1, <2>4, <2>6 DEF Heap
    <3>4. \A b \in live : /\ b.base \in Nat /\ b.size \in Nat
                          /\ b.base + b.size <= h.last
                          /\ b.base % Align = 0 /\ b.base # 0 /\ b.size # 0
      BY <1>1 DEF IInv, TypeOK, Block, BlocksInv
    <3>5. h.last % Align = 0 /\ h.last # 0
      BY <1>1 DEF HeapInv
    <3>6. ptr \in Nat /\ ptr <= h.last
      BY <1>1, <3>4
    <3>. HIDE DEF g
    <3>7. TypeOK'
      BY <1>1, <2>1, <2>4, <3>1, <3>2, <3>6 DEF IInv, TypeOK
    <3>8. BlocksInv'
      BY <1>1, <2>1, <3>1, <3>2, <3>3, <3>4, <3>5 DEF BlocksInv
    <3>9. BlocksDisjoint'
      BY <1>1, <3>1, <3>2, <3>4 DEF IInv, BlocksDisjoint
    <3>10. CopyInv'
      BY <1>1, <2>1, <3>1, <3>3, <3>6 DEF CopyInv
    <3>. QED
      BY <2>4, <3>7, <3>8, <3>9, <3>10 DEF IInv
  <2>. QED
    BY <2>5, <2>6
<1>. QED
  BY <1>2, <1>3

\* IInv is an invariant of the allocator.
THEOREM Invariance == Spec => []IInv
<1>1. Init => IInv
  BY InitIInv DEF Init, IInv, TypeOK, BlocksInv, BlocksDisjoint, CopyInv,
     NoCopy, HeapInv, Heap
<1>2. IInv /\ [Next]_vars => IInv'
  <2>. SUFFICES ASSUME IInv, [Next]_vars PROVE IInv'
    OBVIOUS
  <2>1. ASSUME NEW sz \in Sizes, Malloc(sz) PROVE IInv'
    BY <2>1, MallocStep, SizesAssumption
  <2>2. ASSUME NEW count \in Sizes, NEW sz \in Sizes, Calloc(count, sz)
        PROVE  IInv'
    <3>1. count * sz \in Nat
      BY SizesAssumption, ConstantsType, Assoc
    <3>2. (count * sz) % Word \in 0 .. Word - 1
      BY <3>1, ConstantsType, DivMod
    <3>. QED
      BY <2>2, <3>2, MallocStep DEF Calloc
  <2>3. ASSUME NEW sz \in Sizes, NEW ptr \in {0} \cup {b.base : b \in live},
               Realloc(ptr, sz)
        PROVE  IInv'
    BY <2>3, ReallocStep, SizesAssumption
  <2>4. ASSUME NEW b \in live, Free(b) PROVE IInv'
    BY <2>4 DEF IInv, TypeOK, HeapInv, BlocksInv, BlocksDisjoint, CopyInv,
       Free, NoCopy, Heap
  <2>5. CASE Instantiate
    BY <2>5, InitIInv DEF Instantiate, IInv, TypeOK, BlocksInv,
       BlocksDisjoint, CopyInv, NoCopy, HeapInv, Heap
  <2>6. CASE UNCHANGED vars
    BY <2>6 DEF vars, IInv, TypeOK, HeapInv, BlocksInv, BlocksDisjoint, CopyInv
  <2>. QED
    BY <2>1, <2>2, <2>3, <2>4, <2>5, <2>6 DEF Next
<1>. QED
  BY <1>1, <1>2, PTL DEF Spec

\* The variables keep their types, on aborts and wrap-arounds too.
THEOREM TypeCorrect == Spec => []TypeOK
<1>1. IInv => TypeOK
  BY DEF IInv
<1>. QED
  BY <1>1, Invariance, PTL

\* The blocks that malloc, calloc and realloc return are disjoint, aligned and
\* inside the linear memory, whatever sizes the program asks for.
THEOREM MemorySafety ==
    Spec => [](Backed /\ BlocksInMemory /\ BlocksDisjoint /\ BlocksAligned)
<1>1. IInv => Backed /\ BlocksInMemory /\ BlocksDisjoint /\ BlocksAligned
  <2>. SUFFICES ASSUME IInv
                PROVE  Backed /\ BlocksInMemory /\ BlocksDisjoint /\ BlocksAligned
    OBVIOUS
  <2>1. Backed /\ BlocksDisjoint /\ BlocksAligned
    BY DEF IInv, HeapInv, BlocksInv, Backed, BlocksAligned
  <2>2. BlocksInMemory
    <3>. SUFFICES ASSUME h.ok, NEW b \in live
                  PROVE  b.base + b.size <= h.pages * PageSize
      BY DEF BlocksInMemory
    <3>1. b.base \in Nat /\ b.size \in Nat /\ b.base + b.size <= h.last
      BY DEF IInv, TypeOK, Block, BlocksInv
    <3>2. h.last \in Nat /\ h.last <= h.pages * PageSize
      BY DEF IInv, TypeOK, Heap, HeapInv
    <3>3. h.pages * PageSize \in Nat
      BY ConstantsType, Assoc DEF IInv, TypeOK, Heap
    <3>. QED
      BY <3>1, <3>2, <3>3
  <2>. QED
    BY <2>1, <2>2
<1>. QED
  BY <1>1, Invariance, PTL

\* The page count of the allocator is that of the host as long as the host
\* never refused to grow the memory.
THEOREM PagesCounted == Spec => []Backed
BY MemorySafety, PTL

\* Every block malloc, calloc and realloc return lies inside the memory.
THEOREM BlocksExist == Spec => []BlocksInMemory
BY MemorySafety, PTL

\* What realloc reads and writes is inside the linear memory, although it
\* reads as many bytes as the new block has from a block that may be smaller.
THEOREM ReallocReads == Spec => []CopyInMemory
<1>1. IInv => CopyInMemory
  <2>. SUFFICES ASSUME IInv, h.ok PROVE CopyInMemory
    BY DEF CopyInMemory
  <2>1. /\ copy.src \in Nat /\ copy.dst \in Nat /\ copy.n \in Nat
        /\ copy.src + copy.n <= h.last /\ copy.dst + copy.n <= h.last
    BY DEF IInv, TypeOK, CopyInv
  <2>2. h.last \in Nat /\ h.last <= h.pages * PageSize
    BY DEF IInv, TypeOK, Heap, HeapInv
  <2>3. h.pages * PageSize \in Nat
    BY ConstantsType, Assoc DEF IInv, TypeOK, Heap
  <2>. QED
    BY <2>1, <2>2, <2>3 DEF CopyInMemory
<1>. QED
  BY <1>1, Invariance, PTL

\* The allocator never holds more than the slack above last_ptr, so growth is
\* refused only to a contract that really is at the limit.
THEOREM NoWaste == Spec => []SlackBounded
<1>1. IInv => SlackBounded
  BY DEF IInv, HeapInv, SlackBounded
<1>. QED
  BY <1>1, Invariance, PTL
=============================================================================
