------------------------- MODULE FreeingMallocProofs -------------------------
(***************************************************************************)
(* What FreeingMalloc promises, for every size of the heaps and every      *)
(* sequence of calls.                                                      *)
(*                                                                         *)
(* The argument is about the set of headers of each heap. Tiled says that  *)
(* they divide a heap; from bottom to top the lemmas show what the loops   *)
(* of merge_contiguous do to it, that the steps of memory_manager keep all *)
(* heaps divided (Moves), that the allocated blocks among them stay those  *)
(* of the program (Sound), and that Inv, which says so of the state,       *)
(* holds. The loops are recursive functions over infinite sets: a rank     *)
(* that grows and is bounded shows that they exist and what they return.   *)
(***************************************************************************)
EXTENDS FreeingMalloc, NaturalsInduction, WellFoundedInduction, TLAPS

-----------------------------------------------------------------------------
(* Loops.  A loop over X that stops in Stop and otherwise goes on from     *)
(* step[x], with a rank that grows and is bounded as long as it goes on.   *)

Loop(X, Stop, step, rank, B) ==
    /\ Stop \in SUBSET X
    /\ rank \in [X -> Nat]
    /\ B \in Nat
    /\ \A x \in X \ Stop : step[x] \in X /\ rank[x] < rank[step[x]] /\ rank[x] < B

\* A set of naturals that is not empty has a least member.
LEMMA Smallest ==
    ASSUME NEW S \in SUBSET Nat, S # {}
    PROVE  \E n \in S : \A k \in S : n <= k
<1>1. PICK n \in S : \A k \in S : ~(<<k, n>> \in OpToRel(<, Nat))
  BY NatLessThanWellFounded, WFMin
<1>2. \A k \in S : ~(k < n)
  BY <1>1 DEF OpToRel
<1>. QED
  BY <1>2

\* What holds where a loop stops, and before a step if it holds after it,
\* holds everywhere.
LEMMA LoopInduction ==
    ASSUME NEW X, NEW Stop, NEW step, NEW rank, NEW B, Loop(X, Stop, step, rank, B),
           NEW Q,
           \A x \in Stop : x \in Q,
           \A x \in X \ Stop : step[x] \in Q => x \in Q
    PROVE  \A x \in X : x \in Q
<1>. USE DEF Loop
<1>. DEFINE Bad  == {x \in X : x \notin Q}
            Left == {B - rank[x] : x \in Bad}
<1>1. \A x \in Bad : x \in X \ Stop /\ B - rank[x] \in Nat
  OBVIOUS
<1>2. Left \in SUBSET Nat
  BY <1>1
<1>3. SUFFICES ASSUME Left # {}
               PROVE  FALSE
  OBVIOUS
<1>. HIDE DEF Left
<1>4. PICK d \in Left : \A e \in Left : d <= e
  BY <1>2, <1>3, Smallest
<1>5. PICK x \in Bad : d = B - rank[x]
  BY <1>4 DEF Left
<1>6. step[x] \in Bad
  BY <1>1, <1>5
<1>7. B - rank[step[x]] \in Left
  BY <1>6 DEF Left
<1>. QED
  BY <1>1, <1>4, <1>5, <1>6, <1>7

\* A loop that returns what it ends with has a value.
LEMMA LoopDefined ==
    ASSUME NEW X, NEW Stop, NEW step, NEW rank, NEW B, Loop(X, Stop, step, rank, B),
           NEW val
    PROVE  \E f : f = [x \in X |-> IF x \in Stop THEN val[x] ELSE f[step[x]]]
<1>. USE DEF Loop
<1>. DEFINE U(n) == {x \in X : rank[x] >= n}
            P(n) == \E f : f = [x \in U(n) |-> IF x \in Stop THEN val[x] ELSE f[step[x]]]
            Bad  == {d \in 0 .. B : ~P(B - d)}
<1>1. P(B)
  <2>1. \A x \in U(B) : x \in Stop
    OBVIOUS
  <2>. DEFINE g == [x \in U(B) |-> val[x]]
  <2>2. g = [x \in U(B) |-> IF x \in Stop THEN val[x] ELSE g[step[x]]]
    BY <2>1
  <2>. QED
    BY <2>2
<1>2. ASSUME NEW n \in Nat, P(n + 1)
      PROVE  P(n)
  <2>1. PICK f : f = [x \in U(n + 1) |-> IF x \in Stop THEN val[x] ELSE f[step[x]]]
    BY <1>2
  <2>. DEFINE g == [x \in U(n) |-> IF x \in Stop THEN val[x] ELSE f[step[x]]]
  <2>2. ASSUME NEW x \in U(n), x \notin Stop
        PROVE  g[step[x]] = f[step[x]]
    <3>1. step[x] \in U(n + 1) /\ step[x] \in U(n)
      BY <2>2
    <3>2. f[step[x]] = IF step[x] \in Stop THEN val[step[x]] ELSE f[step[step[x]]]
      BY <2>1, <3>1
    <3>. QED
      BY <3>1, <3>2
  <2>3. g = [x \in U(n) |-> IF x \in Stop THEN val[x] ELSE g[step[x]]]
    BY <2>2
  <2>. QED
    BY <2>3
<1>. HIDE DEF P
<1>3. Bad = {}
  <2>1. Bad \in SUBSET Nat
    OBVIOUS
  <2>2. SUFFICES ASSUME Bad # {}
                 PROVE  FALSE
    OBVIOUS
  <2>3. PICK e \in Bad : \A c \in Bad : e <= c
    <3>. HIDE DEF Bad
    <3>. QED
      BY <2>1, <2>2, Smallest
  <2>4. e # 0
    BY <1>1, <2>3
  <2>5. e - 1 \in 0 .. B /\ e - 1 \notin Bad
    BY <2>3, <2>4
  <2>6. P(B - (e - 1)) /\ B - (e - 1) = (B - e) + 1 /\ B - e \in Nat
    BY <2>5
  <2>. QED
    BY <1>2, <2>3, <2>6
<1>4. P(0)
  BY <1>3
<1>5. U(0) = X
  OBVIOUS
<1>. QED
  BY <1>4, <1>5 DEF P

-----------------------------------------------------------------------------
(* One heap, from the cell lo to before hi, divided into blocks, whose     *)
(* headers are H.                                                          *)

Word == [size : Nat, alloc : BOOLEAN]

Memories == [1 .. Top -> Word \cup {Data}]

\* Where the block with the header a ends and the next one begins.
After(mem, a) == a + mem[a].size + 1

Tiled(mem, lo, hi, H) ==
    /\ lo <= hi
    /\ H \subseteq lo .. hi - 1
    /\ lo \in H \cup {hi}
    /\ \A a \in H : mem[a] \in Word
    /\ \A a \in H : After(mem, a) \in H \cup {hi}
    /\ \A a, b \in H : a < b => After(mem, a) <= b

\* The cells of a heap that memory has.
Bounds(lo, hi) == lo \in Nat \ {0} /\ hi \in Nat /\ lo <= hi /\ hi <= Top + 1

LEMMA TopType == Top \in Nat
  BY UnitsAssumption DEF Top

LEMMA Inside ==
    ASSUME NEW lo, NEW hi, Bounds(lo, hi), NEW mem, NEW H, Tiled(mem, lo, hi, H)
    PROVE  \A b \in H : b \in Nat /\ lo <= b /\ b < hi /\ b \in 1 .. Top
<1>1. lo \in Nat /\ hi \in Nat /\ 1 <= lo /\ hi <= Top + 1
  BY DEF Bounds
<1>2. H \subseteq lo .. hi - 1
  BY DEF Tiled
<1>. QED
  BY <1>1, <1>2, TopType

LEMMA HeaderOf ==
    ASSUME NEW mem, NEW a \in Nat, mem[a] \in Word
    PROVE  Header(mem, a + 1) = mem[a]
<1>1. (a + 1) - 1 = a
  OBVIOUS
<1>. QED
  BY <1>1, DataAssumption DEF Header, Word

\* A header is a word whatever memory holds.
LEMMA HeaderType ==
    ASSUME NEW mem \in Memories, NEW p \in Nat, p >= 2, p <= Top + 1
    PROVE  Header(mem, p) \in Word
  BY TopType DEF Header, Memories, Word, Zero

LEMMA MarkType ==
    ASSUME NEW mem \in Memories, NEW p, NEW n \in Nat, NEW f \in BOOLEAN
    PROVE  Mark(mem, p, n, f) \in Memories
  BY DEF Memories, Mark, Word

\* mem2 is mem with a header of size n and flag f in cell a.
Marked(mem, a, n, f, mem2) ==
    /\ mem2 \in Memories
    /\ mem2[a] \in Word /\ mem2[a].size = n /\ mem2[a].alloc = f
    /\ \A c \in 1 .. Top : c # a => mem2[c] = mem[c]

LEMMA Marks ==
    ASSUME NEW mem \in Memories, NEW a \in 1 .. Top, NEW p, p = a + 1,
           NEW n \in Nat, NEW f \in BOOLEAN
    PROVE  Marked(mem, a, n, f, Mark(mem, p, n, f))
<1>1. p - 1 = a
  OBVIOUS
<1>2. PICK w : w = [size |-> n, alloc |-> f]
  OBVIOUS
<1>3. w \in Word /\ w.size = n /\ w.alloc = f
  BY <1>2 DEF Word
<1>4. PICK mem2 : mem2 = [mem EXCEPT ![a] = w]
  OBVIOUS
<1>5. mem2 \in Memories /\ mem2[a] = w /\ \A c \in 1 .. Top : c # a => mem2[c] = mem[c]
  BY <1>3, <1>4 DEF Memories
<1>6. Mark(mem, p, n, f) = mem2
  BY <1>1, <1>2, <1>4 DEF Mark
<1>. QED
  BY <1>3, <1>5, <1>6 DEF Marked

\* Blocks end where they began to end, and behind themselves.
LEMMA Ends ==
    ASSUME NEW lo, NEW hi, Bounds(lo, hi), NEW mem \in Memories, NEW H,
           Tiled(mem, lo, hi, H), NEW a \in H
    PROVE  /\ a \in 1 .. Top /\ a \in Nat /\ lo <= a /\ a < hi
           /\ mem[a] \in Word /\ mem[a].size \in Nat /\ mem[a].alloc \in BOOLEAN
           /\ After(mem, a) \in Nat /\ a < After(mem, a) /\ After(mem, a) <= hi
           /\ Header(mem, a + 1) = mem[a]
<1>0. mem[a] \in Word
  BY DEF Tiled
<1>1. a \in Nat /\ a \in 1 .. Top /\ lo <= a /\ a < hi /\ mem[a] \in Word
  BY <1>0, Inside
<1>2. mem[a].size \in Nat /\ mem[a].alloc \in BOOLEAN
  BY <1>1 DEF Word
<1>3. After(mem, a) \in Nat /\ a < After(mem, a)
  BY <1>1, <1>2 DEF After
<1>4. After(mem, a) \in H \/ After(mem, a) = hi
  BY DEF Tiled
<1>5. After(mem, a) <= hi
  BY <1>3, <1>4 DEF Bounds, Tiled
<1>. QED
  BY <1>1, <1>2, <1>3, <1>5, HeaderOf

\* Carving a block off the end of the heap.
LEMMA AddLast ==
    ASSUME NEW lo, NEW hi, Bounds(lo, hi), NEW mem, NEW H,
           Tiled(mem, lo, hi, H), NEW mem2, NEW n \in Nat,
           mem2[hi] \in Word, mem2[hi].size = n,
           \A a \in H : mem2[a] = mem[a]
    PROVE  Tiled(mem2, lo, hi + n + 1, H \cup {hi}) /\ hi \notin H
<1>. DEFINE G == H \cup {hi}
<1>1. \A a \in H : a \in Nat /\ lo <= a /\ a < hi
  BY Inside
<1>2. \A a \in H : mem2[a] \in Word /\ After(mem2, a) = After(mem, a)
  BY DEF Tiled, After
<1>3. After(mem2, hi) = hi + n + 1
  BY DEF After
<1>4. \A a \in H : After(mem2, a) \in H \cup {hi}
  BY <1>2 DEF Tiled
<1>5. \A a \in H : After(mem2, a) <= hi
  BY <1>1, <1>4 DEF Bounds
<1>6. \A a, b \in H : a < b => After(mem2, a) <= b
  BY <1>2 DEF Tiled
<1>7. G \subseteq lo .. (hi + n + 1) - 1
  BY <1>1 DEF Bounds
<1>8. \A a, b \in G : a < b => After(mem2, a) <= b
  BY <1>1, <1>5, <1>6 DEF Bounds
<1>9. lo \in G /\ lo <= hi + n + 1
  BY DEF Bounds, Tiled
<1>10. \A a \in G : mem2[a] \in Word /\ After(mem2, a) \in G \cup {hi + n + 1}
  BY <1>2, <1>3, <1>4
<1>11. hi \notin H
  BY <1>1 DEF Bounds
<1>12. Tiled(mem2, lo, hi + n + 1, G)
  BY <1>7, <1>8, <1>9, <1>10 DEF Tiled
<1>. QED
  BY <1>11, <1>12

\* Joining the block a with the ones behind it up to e.
LEMMA Join ==
    ASSUME NEW lo, NEW hi, Bounds(lo, hi), NEW mem \in Memories, NEW H,
           Tiled(mem, lo, hi, H), NEW mem2, NEW a \in H, NEW e \in H \cup {hi},
           a < e, mem2[a] \in Word, After(mem2, a) = e,
           \A b \in H : b # a => mem2[b] = mem[b]
    PROVE  Tiled(mem2, lo, hi, H \ (a + 1 .. e - 1))
<1>. DEFINE G == H \ (a + 1 .. e - 1)
<1>1. \A b \in H : b \in Nat /\ lo <= b /\ b < hi
  BY Inside
<1>2. e \in Nat /\ e \in G \cup {hi}
  BY <1>1 DEF Bounds
<1>4. \A b \in H : b # a => mem2[b] \in Word /\ After(mem2, b) = After(mem, b)
  BY DEF Tiled, After
<1>5. ASSUME NEW b \in G, b # a
      PROVE  After(mem2, b) \in G \cup {hi}
  <2>1. After(mem, b) \in H \cup {hi} /\ After(mem, b) \in Nat /\ b < After(mem, b)
    BY Ends DEF Tiled
  <2>2. b < a => After(mem, b) <= a
    BY DEF Tiled
  <2>3. After(mem, b) \notin a + 1 .. e - 1
    BY <1>1, <1>2, <1>5, <2>1, <2>2
  <2>. QED
    BY <1>4, <1>5, <2>1, <2>3
<1>6. ASSUME NEW b \in G, NEW c \in G, b < c
      PROVE  After(mem2, b) <= c
  <2>1. CASE b = a
    BY <1>1, <1>2, <1>6, <2>1
  <2>2. CASE b # a
    BY <1>4, <1>6, <2>2 DEF Tiled
  <2>. QED
    BY <2>1, <2>2
<1>7. lo \in G \cup {hi}
  BY <1>1 DEF Tiled, Bounds
<1>8. G \subseteq lo .. hi - 1 /\ lo <= hi
  BY DEF Tiled
<1>9. \A b \in G : mem2[b] \in Word
  BY <1>4
<1>10. \A b \in G : After(mem2, b) \in G \cup {hi}
  BY <1>2, <1>5
<1>. QED
  BY <1>6, <1>7, <1>8, <1>9, <1>10 DEF Tiled

\* Cutting the block a in two at c.
Cut(mem, H, mem2, a, c) ==
    /\ a \in H /\ c \in Nat /\ a < c /\ c < After(mem, a)
    /\ mem2[a] \in Word /\ After(mem2, a) = c
    /\ mem2[c] \in Word /\ After(mem2, c) = After(mem, a)
    /\ \A b \in H : b # a => mem2[b] = mem[b]

LEMMA Split ==
    ASSUME NEW lo, NEW hi, Bounds(lo, hi), NEW mem \in Memories, NEW H,
           Tiled(mem, lo, hi, H), NEW mem2, NEW a, NEW c, Cut(mem, H, mem2, a, c)
    PROVE  Tiled(mem2, lo, hi, H \cup {c})
<1>. USE DEF Cut
<1>. DEFINE G == H \cup {c}
            e == After(mem, a)
<1>1. \A b \in H : b \in Nat /\ lo <= b /\ b < hi
  BY Inside
<1>2. e \in Nat /\ e \in H \cup {hi} /\ e <= hi
  BY Ends DEF Tiled
<1>3. After(mem2, a) = c /\ After(mem2, c) = e
  OBVIOUS
<1>4. \A b \in H : b # a => mem2[b] \in Word /\ After(mem2, b) = After(mem, b)
  BY DEF Tiled, After
<1>5. \A b \in H : After(mem, b) \in H \cup {hi}
  BY DEF Tiled
<1>6. \A b, d \in H : b < d => After(mem, b) <= d
  BY DEF Tiled
<1>. HIDE DEF e
<1>7. c < e
  BY DEF e
<1>8. \A b \in H : a < b => e <= b
  BY <1>6 DEF e
<1>9. c \notin H
  BY <1>1, <1>2, <1>7, <1>8
<1>10. \A b \in H : b < a => After(mem, b) <= a
  BY <1>6
<1>11. \A b \in H : After(mem, b) \in Nat
  BY Ends
<1>12. ASSUME NEW b \in G, NEW d \in G, b < d
       PROVE  After(mem2, b) <= d
  <2>1. CASE b = c
    BY <1>1, <1>2, <1>3, <1>7, <1>8, <1>12, <2>1
  <2>2. CASE b = a
    BY <1>1, <1>2, <1>3, <1>7, <1>8, <1>12, <2>2
  <2>3. CASE b # a /\ b # c /\ d = c
    <3>1. b \in H /\ b < a
      BY <1>1, <1>2, <1>7, <1>8, <1>12, <2>3
    <3>2. After(mem, b) <= a /\ After(mem, b) \in Nat /\ After(mem2, b) = After(mem, b)
      BY <1>4, <1>10, <1>11, <2>3, <3>1
    <3>. QED
      BY <1>1, <2>3, <3>2
  <2>4. CASE b # a /\ b # c /\ d # c
    BY <1>4, <1>6, <1>12, <2>4
  <2>. QED
    BY <2>1, <2>2, <2>3, <2>4
<1>13. G \subseteq lo .. hi - 1
  BY <1>1, <1>2, <1>7 DEF Bounds
<1>14. \A b \in G : mem2[b] \in Word /\ After(mem2, b) \in G \cup {hi}
  BY <1>2, <1>3, <1>4, <1>5, <1>9
<1>15. lo <= hi /\ lo \in G \cup {hi}
  BY DEF Tiled
<1>. QED
  BY <1>9, <1>12, <1>13, <1>14, <1>15 DEF Tiled

\* Nothing changes as long as the headers keep their sizes.
LEMMA SameSizes ==
    ASSUME NEW lo, NEW hi, NEW mem, NEW H, Tiled(mem, lo, hi, H), NEW mem2,
           \A a \in H : mem2[a] \in Word /\ mem2[a].size = mem[a].size
    PROVE  Tiled(mem2, lo, hi, H)
<1>1. \A a \in H : After(mem2, a) = After(mem, a)
  BY DEF After
<1>. QED
  BY <1>1 DEF Tiled

\* The last block of the heap grows with it.
LEMMA Stretch ==
    ASSUME NEW lo, NEW hi, Bounds(lo, hi), NEW mem \in Memories, NEW H,
           Tiled(mem, lo, hi, H), NEW mem2, NEW a \in H, NEW hi2 \in Nat,
           After(mem, a) = hi, hi <= hi2,
           mem2[a] \in Word, After(mem2, a) = hi2,
           \A b \in H : b # a => mem2[b] = mem[b]
    PROVE  Tiled(mem2, lo, hi2, H)
<1>1. \A b \in H : b \in Nat /\ lo <= b /\ b < hi
  BY Inside
<1>2. hi \in Nat /\ lo \in Nat
  BY DEF Bounds
<1>4. \A b \in H : b # a => mem2[b] \in Word /\ After(mem2, b) = After(mem, b)
  BY DEF Tiled, After
<1>5. \A b \in H : b <= a
  BY <1>1, <1>2 DEF Tiled
<1>6. ASSUME NEW b \in H, b # a
      PROVE  After(mem, b) \in H
  <2>1. b < a
    BY <1>1, <1>5, <1>6
  <2>2. After(mem, b) <= a
    BY <2>1 DEF Tiled
  <2>. QED
    BY <1>1, <1>2, <2>2 DEF Tiled
<1>7. \A b \in H : mem2[b] \in Word /\ After(mem2, b) \in H \cup {hi2}
  BY <1>4, <1>6
<1>8. \A b, c \in H : b < c => After(mem2, b) <= c
  BY <1>1, <1>2, <1>4, <1>5 DEF Tiled
<1>9. lo \in H /\ lo <= hi2 /\ H \subseteq lo .. hi2 - 1
  BY <1>1, <1>2 DEF Tiled
<1>. QED
  BY <1>7, <1>8, <1>9 DEF Tiled

-----------------------------------------------------------------------------
(* The loop of merge_contiguous.                                           *)

\* Whether the loop goes on behind s cells, and where to.
Joins(mem, p, end, needed, s) ==
    s < needed /\ p + s < end /\ ~Header(mem, p + s + 1).alloc

Behind(mem, p, s) == s + Header(mem, p + s + 1).size + 1

LEMMA BehindType ==
    ASSUME NEW mem \in Memories, NEW p \in Nat \ {0}, NEW end \in Nat, end <= Top + 1,
           NEW needed \in Nat, NEW s \in Nat, Joins(mem, p, end, needed, s)
    PROVE  Behind(mem, p, s) \in Nat /\ s < Behind(mem, p, s) /\ s < needed
<1>1. p + s + 1 \in Nat /\ p + s + 1 >= 2 /\ p + s + 1 <= Top + 1 /\ s < needed
  BY TopType DEF Joins
<1>2. Header(mem, p + s + 1).size \in Nat
  BY <1>1, HeaderType DEF Word
<1>. QED
  BY <1>1, <1>2 DEF Behind

\* One round of the loop.
LEMMA SpanRound ==
    ASSUME NEW mem \in Memories, NEW p \in Nat \ {0}, NEW end \in Nat, end <= Top + 1,
           NEW needed \in Nat
    PROVE  \A s \in Nat : Span(mem, p, s, end, needed) =
             IF Joins(mem, p, end, needed, s)
               THEN Span(mem, p, Behind(mem, p, s), end, needed) ELSE s
<1>. DEFINE F == CHOOSE far : far = [s \in Nat |->
                   IF s < needed /\ p + s < end /\ ~Header(mem, p + s + 1).alloc
                     THEN far[s + Header(mem, p + s + 1).size + 1]
                     ELSE s]
            Stop == {s \in Nat : ~Joins(mem, p, end, needed, s)}
            step == [s \in Nat |-> Behind(mem, p, s)]
            same == [s \in Nat |-> s]
<1>1. \A s : Span(mem, p, s, end, needed) = F[s]
  BY DEF Span
<1>2. \A s \in Nat \ Stop : step[s] \in Nat /\ same[s] < same[step[s]] /\ same[s] < needed
  BY BehindType
<1>3. \E far : far = [s \in Nat |-> IF s \in Stop THEN same[s] ELSE far[step[s]]]
  <2>1. Loop(Nat, Stop, step, same, needed)
    BY <1>2 DEF Loop
  <2>. HIDE DEF Stop, step, same
  <2>. QED
    BY <2>1, LoopDefined
<1>4. PICK far : far = [s \in Nat |-> IF s \in Stop THEN same[s] ELSE far[step[s]]]
  BY <1>3
<1>5. \A s \in Nat : (IF s \in Stop THEN same[s] ELSE far[step[s]]) =
                     IF s < needed /\ p + s < end /\ ~Header(mem, p + s + 1).alloc
                       THEN far[s + Header(mem, p + s + 1).size + 1] ELSE s
  BY DEF Joins, Behind
<1>6. far = [s \in Nat |-> IF s < needed /\ p + s < end /\ ~Header(mem, p + s + 1).alloc
                             THEN far[s + Header(mem, p + s + 1).size + 1] ELSE s]
  BY <1>4, <1>5
<1>7. F = [s \in Nat |-> IF s < needed /\ p + s < end /\ ~Header(mem, p + s + 1).alloc
                           THEN F[s + Header(mem, p + s + 1).size + 1] ELSE s]
  BY <1>6
<1>. HIDE DEF F
<1>8. \A s \in Nat : F[s] = IF Joins(mem, p, end, needed, s)
                              THEN F[Behind(mem, p, s)] ELSE s
  BY <1>7 DEF Joins, Behind
<1>. QED
  BY <1>1, <1>8

\* What holds behind a block holds in front of it.
LEMMA SpanInduction ==
    ASSUME NEW mem \in Memories, NEW p \in Nat \ {0}, NEW end \in Nat, end <= Top + 1,
           NEW needed \in Nat, NEW Q,
           \A s \in Nat : ~Joins(mem, p, end, needed, s) => s \in Q,
           \A s \in Nat : Joins(mem, p, end, needed, s) /\ Behind(mem, p, s) \in Q => s \in Q
    PROVE  \A s \in Nat : s \in Q
<1>. DEFINE Stop == {s \in Nat : ~Joins(mem, p, end, needed, s)}
            step == [s \in Nat |-> Behind(mem, p, s)]
            same == [s \in Nat |-> s]
<1>1. \A s \in Nat \ Stop : step[s] \in Nat /\ same[s] < same[step[s]] /\ same[s] < needed
  BY BehindType
<1>2. Loop(Nat, Stop, step, same, needed)
  BY <1>1 DEF Loop
<1>3. (\A s \in Stop : s \in Q) /\ (\A s \in Nat \ Stop : step[s] \in Q => s \in Q)
  OBVIOUS
<1>. HIDE DEF Stop, step, same
<1>. QED
  BY <1>2, <1>3, LoopInduction

LEMMA SpanType ==
    ASSUME NEW mem \in Memories, NEW p \in Nat \ {0}, NEW end \in Nat, end <= Top + 1,
           NEW needed \in Nat
    PROVE  \A s \in Nat : /\ Span(mem, p, s, end, needed) \in Nat
                          /\ s <= Span(mem, p, s, end, needed)
<1>. DEFINE sp(s) == Span(mem, p, s, end, needed)
            Q == {s \in Nat : sp(s) \in Nat /\ s <= sp(s)}
<1>1. \A s \in Nat : sp(s) = IF Joins(mem, p, end, needed, s) THEN sp(Behind(mem, p, s)) ELSE s
  BY SpanRound
<1>. HIDE DEF sp
<1>2. \A s \in Nat : ~Joins(mem, p, end, needed, s) => s \in Q
  BY <1>1
<1>3. ASSUME NEW s \in Nat, Joins(mem, p, end, needed, s), Behind(mem, p, s) \in Q
      PROVE  s \in Q
  <2>1. Behind(mem, p, s) \in Nat /\ s < Behind(mem, p, s)
    BY <1>3, BehindType
  <2>2. sp(s) = sp(Behind(mem, p, s))
    BY <1>1, <1>3
  <2>. QED
    BY <1>3, <2>1, <2>2
<1>4. \A s \in Nat : s \in Q
  <2>. HIDE DEF Q
  <2>. QED
    BY <1>2, <1>3, SpanInduction
<1>. QED
  BY <1>4 DEF sp

\* The loop of merge_contiguous for the block p never passes hi, where the
\* blocks of the heap end.
Limited(hi, end, p, needed) ==
    /\ end \in Nat /\ end <= Top + 1 /\ hi <= end
    /\ needed \in Nat
    /\ end = hi \/ p + needed <= hi

\* The loop got from n to s cells behind p.
Reached(mem, H, hi, p, n, needed, s) ==
    /\ s \in Nat /\ n <= s
    /\ p + s \in H \cup {hi}
    /\ \A b \in H : p + n <= b /\ b < p + s => ~mem[b].alloc
    /\ s < needed => p + s = hi \/ mem[p + s].alloc

\* In a divided heap the loop goes from block to block over free ones, and
\* ends before enough is found only at the end or in front of an allocated
\* one.
LEMMA SpanFacts ==
    ASSUME NEW lo, NEW hi, Bounds(lo, hi), NEW mem \in Memories, NEW H,
           Tiled(mem, lo, hi, H), NEW p \in Nat \ {0}, NEW end, NEW needed,
           Limited(hi, end, p, needed), NEW n \in Nat, p + n \in H \cup {hi}
    PROVE  Reached(mem, H, hi, p, n, needed, Span(mem, p, n, end, needed))
<1>. USE DEF Limited
<1>. DEFINE sp(s) == Span(mem, p, s, end, needed)
            Goes(s) == /\ p + sp(s) \in H \cup {hi}
                       /\ \A b \in H : p + s <= b /\ b < p + sp(s) => ~mem[b].alloc
                       /\ sp(s) < needed => p + sp(s) = hi \/ mem[p + sp(s)].alloc
            Q == {s \in Nat : p + s \in H \cup {hi} => Goes(s)}
<1>1. \A s \in Nat : sp(s) = IF Joins(mem, p, end, needed, s) THEN sp(Behind(mem, p, s)) ELSE s
  BY SpanRound
<1>2. \A s \in Nat : sp(s) \in Nat /\ s <= sp(s)
  BY SpanType
<1>. HIDE DEF sp
<1>3. hi \in Nat /\ \A b \in H : b \in Nat /\ b < hi
  BY Inside DEF Bounds
<1>4. \A b \in H : Header(mem, b + 1) = mem[b] /\ mem[b].size \in Nat /\ mem[b].alloc \in BOOLEAN
  BY Ends
<1>5. ASSUME NEW s \in Nat, ~Joins(mem, p, end, needed, s)
      PROVE  s \in Q
  <2>. SUFFICES ASSUME p + s \in H \cup {hi}
                PROVE  Goes(s)
    OBVIOUS
  <2>1. sp(s) = s
    BY <1>1, <1>5
  <2>2. ASSUME s < needed, p + s # hi
        PROVE  mem[p + s].alloc
    <3>1. p + s \in H /\ p + s < end
      BY <1>3, <2>2
    <3>. QED
      BY <1>4, <1>5, <2>2, <3>1 DEF Joins
  <2>3. \A b \in H : ~(p + s <= b /\ b < p + s)
    BY <1>3
  <2>. QED
    BY <2>1, <2>2, <2>3
<1>6. ASSUME NEW s \in Nat, Joins(mem, p, end, needed, s), Behind(mem, p, s) \in Q
      PROVE  s \in Q
  <2>. SUFFICES ASSUME p + s \in H \cup {hi}
                PROVE  Goes(s)
    OBVIOUS
  <2>1. Behind(mem, p, s) \in Nat /\ s < Behind(mem, p, s)
    BY <1>6, BehindType
  <2>2. sp(s) = sp(Behind(mem, p, s))
    BY <1>1, <1>6
  <2>3. p + s \in H
    BY <1>3, <1>6 DEF Joins
  <2>4. p + Behind(mem, p, s) = After(mem, p + s) /\ ~mem[p + s].alloc
    BY <1>4, <1>6, <2>3 DEF Behind, After, Joins
  <2>5. p + Behind(mem, p, s) \in H \cup {hi}
    BY <2>3, <2>4 DEF Tiled
  <2>6. \A b \in H : p + s < b => p + Behind(mem, p, s) <= b
    BY <2>3, <2>4 DEF Tiled
  <2>7. Goes(Behind(mem, p, s))
    BY <1>6, <2>5
  <2>8. \A b \in H : p + s <= b /\ b < p + sp(s) => ~mem[b].alloc
    BY <1>3, <2>2, <2>4, <2>6, <2>7
  <2>. QED
    BY <2>2, <2>7, <2>8
<1>7. n \in Q
  <2>. HIDE DEF Q
  <2>. QED
    BY <1>5, <1>6, SpanInduction
<1>. QED
  BY <1>2, <1>7 DEF sp, Reached

-----------------------------------------------------------------------------
(* merge_contiguous.                                                       *)

\* From memory mem with the headers H to mem2 with H2 every allocated block
\* of the heap keeps its header and its cells, and none is added; the blocks
\* in new are left open.  The cells of other heaps keep what they hold.
Kept(lo, hi, mem, H, mem2, H2, new) ==
    /\ \A a \in H \ new : mem[a].alloc =>
         /\ a \in H2
         /\ \A c \in a .. a + mem[a].size : mem2[c] = mem[c]
    /\ \A a \in H2 \ new : mem2[a].alloc => a \in H /\ mem[a].alloc
    /\ \A c \in 1 .. Top : c \notin lo .. hi - 1 => mem2[c] = mem[c]

\* From mem to mem2 the block a and the free ones behind it, up to the block
\* e, become one of n cells and a free one, at d, of what is left.
Recuts(mem, H, hi, mem2, a, e, n, d) ==
    /\ a \in H /\ e \in H \cup {hi} /\ a < e
    /\ \A b \in H : a < b /\ b < e => ~mem[b].alloc
    /\ n \in Nat /\ d = a + 1 + n /\ d <= e
    /\ mem2[a] \in Word /\ mem2[a].size = n
    /\ d < e => mem2[d] \in Word /\ mem2[d].size = e - d - 1 /\ mem2[d].alloc = FALSE
    /\ \A c \in 1 .. Top : c # a /\ ~(c = d /\ d < e) => mem2[c] = mem[c]

\* Up to the block a the headers are the same.
SameTo(a, H, H2) == \A b \in 0 .. a : b \in H2 <=> b \in H

\* The heap is divided afterwards.
Redivided(lo, hi, mem, H, mem2, H2, a) ==
    Tiled(mem2, lo, hi, H2) /\ Kept(lo, hi, mem, H, mem2, H2, {a}) /\ SameTo(a, H, H2)

LEMMA Recut ==
    ASSUME NEW lo, NEW hi, Bounds(lo, hi), NEW mem \in Memories, NEW H,
           Tiled(mem, lo, hi, H), NEW mem2 \in Memories, NEW a, NEW e, NEW n, NEW d,
           Recuts(mem, H, hi, mem2, a, e, n, d)
    PROVE  \E H2 : Redivided(lo, hi, mem, H, mem2, H2, a)
<1>. USE DEF Recuts
<1>. DEFINE H1 == H \ (a + 1 .. e - 1)
            w == [size |-> e - a - 1, alloc |-> FALSE]
            joined == [mem EXCEPT ![a] = w]
            H2 == IF d < e THEN H1 \cup {d} ELSE H1
<1>1. \A b \in H : b \in Nat /\ lo <= b /\ b < hi /\ b \in 1 .. Top
  BY Inside
<1>2. a \in Nat /\ a \in 1 .. Top /\ lo <= a /\ a < hi
  BY <1>1
<1>3. hi \in Nat /\ lo \in Nat /\ lo >= 1 /\ hi <= Top + 1
  BY DEF Bounds
<1>4. e \in Nat /\ a < e /\ e <= hi /\ e - a - 1 \in Nat
  BY <1>1, <1>2, <1>3
<1>5. d \in Nat /\ a < d /\ d <= e /\ d - a - 1 = n
  BY <1>2, <1>4
<1>6. w \in Word /\ w.size = e - a - 1
  BY <1>4 DEF Word
<1>. HIDE DEF w
<1>7. joined \in Memories /\ joined[a] = w /\ \A c \in 1 .. Top : c # a => joined[c] = mem[c]
  BY <1>2, <1>6 DEF Memories
<1>. HIDE DEF joined
<1>8. \A b \in H : b # a => joined[b] = mem[b]
  BY <1>1, <1>7
<1>9. After(joined, a) = e
  BY <1>2, <1>4, <1>6, <1>7 DEF After
<1>10. a \in H1
  BY <1>2
<1>11. Tiled(joined, lo, hi, H1)
  BY <1>4, <1>6, <1>7, <1>8, <1>9, Join
<1>12. \A b \in H1 : d < e => b # d
  BY <1>1, <1>2, <1>4, <1>5
<1>. HIDE DEF H1
<1>13. Tiled(mem2, lo, hi, H2)
  <2>1. \A b \in H1 : b \in 1 .. Top
    BY <1>1 DEF H1
  <2>2. CASE d < e
    <3>1. \A b \in H1 : b # a => mem2[b] = joined[b]
      BY <1>7, <1>12, <2>1, <2>2
    <3>2. After(mem2, a) = d /\ After(mem2, d) = After(joined, a)
      BY <1>2, <1>4, <1>5, <1>9, <2>2 DEF After
    <3>3. d < After(joined, a) /\ mem2[d] \in Word
      BY <1>9, <2>2
    <3>4. Cut(joined, H1, mem2, a, d)
      BY <1>5, <1>10, <3>1, <3>2, <3>3 DEF Cut
    <3>5. Tiled(mem2, lo, hi, H1 \cup {d})
      BY <1>7, <1>11, <3>4, Split
    <3>. QED
      BY <2>2, <3>5
  <2>3. CASE ~(d < e)
    <3>1. d = e
      BY <1>4, <1>5, <2>3
    <3>2. \A b \in H1 : b # a => mem2[b] = joined[b]
      BY <1>7, <2>1, <2>3
    <3>3. \A b \in H1 : mem2[b] \in Word /\ mem2[b].size = joined[b].size
      <4>1. \A b \in H1 : joined[b] \in Word
        BY <1>11 DEF Tiled
      <4>2. mem2[a].size = joined[a].size
        BY <1>4, <1>5, <1>6, <1>7, <3>1
      <4>. QED
        BY <3>2, <4>1, <4>2
    <3>. QED
      BY <1>11, <2>3, <3>3, SameSizes
  <2>. QED
    BY <2>2, <2>3
<1>14. Kept(lo, hi, mem, H, mem2, H2, {a})
  <2>1. ASSUME NEW b \in H \ {a}, mem[b].alloc
        PROVE  b \in H2 /\ \A c \in b .. b + mem[b].size : mem2[c] = mem[c]
    <3>1. b \in Nat /\ mem[b].size \in Nat /\ After(mem, b) <= hi /\ lo <= b
      BY Ends
    <3>2. After(mem, b) = b + mem[b].size + 1
      BY DEF After
    <3>3. b < a => After(mem, b) <= a
      BY DEF Tiled
    <3>4. b < a \/ e <= b
      BY <1>2, <1>4, <2>1, <3>1
    <3>5. b \in H2
      BY <1>2, <1>4, <3>1, <3>4 DEF H1
    <3>6. \A c \in b .. b + mem[b].size : c \in 1 .. Top /\ c # a /\ ~(c = d /\ d < e)
      BY <1>2, <1>3, <1>4, <1>5, <3>1, <3>2, <3>3, <3>4, TopType
    <3>. QED
      BY <3>5, <3>6
  <2>2. ASSUME NEW b \in H2 \ {a}, mem2[b].alloc
        PROVE  b \in H /\ mem[b].alloc
    <3>1. ~(b = d /\ d < e)
      BY <2>2
    <3>2. b \in H
      BY <2>2, <3>1 DEF H1
    <3>. QED
      BY <1>1, <2>2, <3>1, <3>2
  <2>3. \A c \in 1 .. Top : c \notin lo .. hi - 1 => mem2[c] = mem[c]
    BY <1>2, <1>3, <1>4, <1>5
  <2>. QED
    BY <2>1, <2>2, <2>3 DEF Kept
<1>15. SameTo(a, H, H2)
  BY <1>2, <1>4, <1>5 DEF SameTo, H1
<1>. QED
  BY <1>13, <1>14, <1>15 DEF Redivided

\* merge_contiguous_if_available returns without a change.
GivesUp(mem, p, end, needed) ==
    end < p + needed \/ Span(mem, p, Header(mem, p).size, end, needed) < needed

\* What it leaves when it does not: the block a has the size that was asked
\* for.
MergesTo(lo, hi, mem, H, a, needed, mem2) ==
    /\ mem2 \in Memories
    /\ mem2[a] \in Word /\ mem2[a].size = needed
    /\ \E H2 : Redivided(lo, hi, mem, H, mem2, H2, a)

LEMMA Fields ==
    ASSUME NEW ok, NEW mem
    PROVE  [ok |-> ok, mem |-> mem].ok = ok /\ [ok |-> ok, mem |-> mem].mem = mem
  OBVIOUS

Merges(mem, p, needed, sp, f, r) ==
    /\ r.ok = TRUE
    /\ sp = needed => r.mem = Mark(mem, p, needed, f)
    /\ sp > needed => r.mem = Mark(Mark(mem, p, needed, f), p + needed + 1,
                                  sp - needed - 1, FALSE)

LEMMA MergeChanges ==
    ASSUME NEW mem, NEW p, NEW end, NEW needed \in Nat, ~GivesUp(mem, p, end, needed),
           Span(mem, p, Header(mem, p).size, end, needed) \in Nat
    PROVE  Merges(mem, p, needed, Span(mem, p, Header(mem, p).size, end, needed),
                  Header(mem, p).alloc, Merge(mem, p, end, needed))
<1>1. PICK sp : sp = Span(mem, p, Header(mem, p).size, end, needed)
  OBVIOUS
<1>2. PICK f : f = Header(mem, p).alloc
  OBVIOUS
<1>3. PICK mem2 : mem2 = IF sp > needed
                           THEN Mark(Mark(mem, p, needed, f), p + needed + 1,
                                     sp - needed - 1, FALSE)
                           ELSE Mark(mem, p, needed, f)
  OBVIOUS
<1>4. PICK r : r = Merge(mem, p, end, needed)
  OBVIOUS
<1>5. r = [ok |-> TRUE, mem |-> mem2]
  BY <1>1, <1>2, <1>3, <1>4, Zenon DEF Merge, GivesUp
<1>6. r.ok = TRUE /\ r.mem = mem2
  BY <1>5, Fields, Zenon
<1>7. CASE sp = needed
  <2>1. ~(sp > needed)
    BY <1>1, <1>7
  <2>2. r.mem = Mark(mem, p, needed, f)
    BY <1>3, <1>6, <2>1, Zenon
  <2>. QED
    BY <1>1, <1>2, <1>4, <1>6, <2>1, <2>2, Zenon DEF Merges
<1>8. CASE sp # needed
  BY <1>1, <1>2, <1>3, <1>4, <1>6, <1>8, Zenon DEF Merges
<1>. QED
  BY <1>7, <1>8

LEMMA Merged ==
    ASSUME NEW lo, NEW hi, Bounds(lo, hi), NEW mem \in Memories, NEW H,
           Tiled(mem, lo, hi, H), NEW a \in H, NEW p, p = a + 1, NEW end, NEW needed,
           Limited(hi, end, p, needed), ~GivesUp(mem, p, end, needed),
           NEW r, r = Merge(mem, p, end, needed)
    PROVE  MergesTo(lo, hi, mem, H, a, needed, r.mem)
<1>1. /\ a \in Nat /\ a \in 1 .. Top /\ lo <= a /\ a < hi
      /\ mem[a].size \in Nat /\ mem[a].alloc \in BOOLEAN
      /\ Header(mem, p) = mem[a] /\ mem[a] \in Word
  BY Ends
<1>2. After(mem, a) = p + mem[a].size
  BY <1>1 DEF After
<1>3. p + mem[a].size \in H \cup {hi}
  BY <1>2 DEF Tiled
<1>4. p \in Nat \ {0} /\ hi \in Nat /\ lo \in Nat /\ lo >= 1 /\ hi <= Top + 1 /\ needed \in Nat
  BY <1>1 DEF Bounds, Limited
<1>5. PICK sp : sp = Span(mem, p, mem[a].size, end, needed)
  OBVIOUS
<1>6. Reached(mem, H, hi, p, mem[a].size, needed, sp)
  BY <1>1, <1>3, <1>4, <1>5, SpanFacts
<1>7. PICK e : e = p + sp
  OBVIOUS
<1>8. sp \in Nat /\ e \in Nat /\ a < e /\ e = a + 1 + sp /\ e \in H \cup {hi}
  BY <1>1, <1>6, <1>7 DEF Reached
<1>9. \A b \in H : a < b => p + mem[a].size <= b
  BY <1>2 DEF Tiled
<1>10. \A b \in H : a < b /\ b < e => ~mem[b].alloc
  BY <1>6, <1>7, <1>9 DEF Reached
<1>11. e = hi \/ (e \in 1 .. Top /\ e < hi)
  BY <1>8, Inside
<1>12. Merges(mem, p, needed, sp, mem[a].alloc, r)
  BY <1>1, <1>4, <1>5, <1>8, MergeChanges
<1>13. CASE sp = needed
  <2>1. PICK mem2 : mem2 = Mark(mem, p, needed, mem[a].alloc)
    OBVIOUS
  <2>2. r.mem = mem2
    BY <1>12, <1>13, <2>1, Zenon DEF Merges
  <2>3. Marked(mem, a, needed, mem[a].alloc, mem2)
    BY <1>1, <1>4, <2>1, Marks
  <2>4. /\ mem2 \in Memories
        /\ mem2[a] \in Word /\ mem2[a].size = needed /\ mem2[a].alloc = mem[a].alloc
        /\ \A c \in 1 .. Top : c # a => mem2[c] = mem[c]
    BY <2>3 DEF Marked
  <2>5. Recuts(mem, H, hi, mem2, a, e, needed, e)
    BY <1>8, <1>10, <1>13, <2>4 DEF Recuts
  <2>6. \E H2 : Redivided(lo, hi, mem, H, mem2, H2, a)
    BY <2>4, <2>5, Recut
  <2>. HIDE <2>1
  <2>7. MergesTo(lo, hi, mem, H, a, needed, mem2)
    BY <2>4, <2>6 DEF MergesTo
  <2>. QED
    BY <2>2, <2>7
<1>14. CASE sp > needed
  <2>1. PICK d : d = a + 1 + needed
    OBVIOUS
  <2>2. d \in Nat /\ a < d /\ d < e /\ e <= hi /\ d \in 1 .. Top
    BY <1>1, <1>4, <1>8, <1>11, <1>14, <2>1, TopType
  <2>3. sp - needed - 1 \in Nat /\ e - d - 1 = sp - needed - 1
    BY <1>1, <1>4, <1>8, <1>14, <2>1
  <2>4. PICK sized : sized = Mark(mem, p, needed, mem[a].alloc)
    OBVIOUS
  <2>5. PICK mem2 : mem2 = Mark(sized, p + needed + 1, sp - needed - 1, FALSE)
    OBVIOUS
  <2>6. r.mem = mem2
    BY <1>12, <1>14, <2>4, <2>5, Zenon DEF Merges
  <2>7. Marked(mem, a, needed, mem[a].alloc, sized)
    BY <1>1, <1>4, <2>4, Marks
  <2>8. Marked(sized, d, sp - needed - 1, FALSE, mem2)
    <3>1. p + needed + 1 = d + 1 /\ sized \in Memories
      BY <1>1, <1>4, <2>1, <2>7 DEF Marked
    <3>. QED
      BY <2>2, <2>3, <2>5, <3>1, Marks
  <2>9. /\ mem2 \in Memories
        /\ mem2[a] \in Word /\ mem2[a].size = needed /\ mem2[a].alloc = mem[a].alloc
        /\ mem2[d] \in Word /\ mem2[d].size = e - d - 1 /\ mem2[d].alloc = FALSE
        /\ \A c \in 1 .. Top : c # a /\ c # d => mem2[c] = mem[c]
    BY <1>1, <2>2, <2>3, <2>7, <2>8 DEF Marked
  <2>10. Recuts(mem, H, hi, mem2, a, e, needed, d)
    BY <1>4, <1>8, <1>10, <2>1, <2>2, <2>9 DEF Recuts
  <2>11. \E H2 : Redivided(lo, hi, mem, H, mem2, H2, a)
    BY <2>9, <2>10, Recut
  <2>. HIDE <2>5
  <2>12. MergesTo(lo, hi, mem, H, a, needed, mem2)
    BY <2>9, <2>11 DEF MergesTo
  <2>. QED
    BY <2>6, <2>12
<1>15. sp >= needed
  BY <1>1, <1>4, <1>5, <1>8 DEF GivesUp
<1>. QED
  BY <1>4, <1>8, <1>13, <1>14, <1>15

-----------------------------------------------------------------------------
(* The heaps of a manager.                                                 *)

Heap == [base : Nat, size : Nat, off : Nat]

\* A heap that lies in memory.
IsHeap(h) == h.base \in Nat \ {0} /\ h.size \in Nat /\ EndOf(h) <= Top + 1

Managers ==
    [heaps : [0 .. HeapsSize -> Heap], actual : Nat, active : Nat,
     pages : Nat, mem : Memories]

\* Where the blocks carved off heap h end.
Carvings(h) == h.base + h.off

IsFull(h) == h.off = h.size

IsFirst(h) == h.base = InitialHeap /\ h.size = InitialSize

\* The heap that grows begins behind the memory of the program and ends with
\* memory.
IsSecond(h, pages) ==
    h.base = InitPages * PageUnits + 1 /\ EndOf(h) = pages * PageUnits + 1

\* There are at most two heaps, and the second is begun when the first is
\* full.
Fresh(k) ==
    /\ k.actual = 0 /\ k.active = 0 /\ k.pages = InitPages
    /\ k.heaps[0] = NoHeap /\ k.heaps[1] = NoHeap

InFirst(k) ==
    /\ k.actual = HeapsSize /\ k.active = 0 /\ k.pages = InitPages
    /\ IsFirst(k.heaps[0]) /\ k.heaps[1] = NoHeap

InSecond(k) ==
    /\ k.actual = HeapsSize /\ k.active = 1
    /\ IsFirst(k.heaps[0]) /\ IsFull(k.heaps[0])
    /\ IsSecond(k.heaps[1], k.pages)

Layout(k) ==
    /\ k \in Managers
    /\ InitPages <= k.pages /\ k.pages <= MaxPages
    /\ \A i \in 2 .. HeapsSize : k.heaps[i] = NoHeap
    /\ \A i \in 0 .. HeapsSize : k.heaps[i].off <= k.heaps[i].size
    /\ Fresh(k) \/ InFirst(k) \/ InSecond(k)

\* What the other lemmas need to know of the heaps: each of them lies in
\* memory, and no two overlap.
Placed(hs) ==
    /\ hs \in [0 .. HeapsSize -> Heap]
    /\ \A i \in 0 .. HeapsSize :
         \/ hs[i] = NoHeap
         \/ /\ IsHeap(hs[i]) /\ Bounds(hs[i].base, Carvings(hs[i]))
            /\ Carvings(hs[i]) <= EndOf(hs[i])
    /\ \A i, j \in 0 .. HeapsSize : i < j => EndOf(hs[i]) < hs[j].base \/ hs[j] = NoHeap

LEMMA PageProduct ==
    ASSUME NEW p \in Nat, NEW q \in Nat
    PROVE  /\ p * PageUnits \in Nat
           /\ p <= q => p * PageUnits <= q * PageUnits
           /\ (p + q) * PageUnits = p * PageUnits + q * PageUnits
<1>1. PageUnits \in Nat
  BY UnitsAssumption
<1>2. ASSUME NEW u \in Nat, NEW a \in Nat, NEW b \in Nat
      PROVE  a * u \in Nat /\ (a <= b => a * u <= b * u) /\ (a + b) * u = a * u + b * u
  <2>1. a * u \in Nat /\ (a + b) * u = a * u + b * u
    OBVIOUS
  <2>2. ASSUME a <= b
        PROVE  a * u <= b * u
    <3>1. PICK d \in Nat : b = a + d
      <4>1. b - a \in Nat /\ b = a + (b - a)
        BY <2>2
      <4>. QED
        BY <4>1
    <3>2. b * u = a * u + d * u /\ d * u \in Nat
      BY <3>1
    <3>. QED
      BY <2>1, <3>2
  <2>. QED
    BY <2>1, <2>2
<1>. QED
  BY <1>1, <1>2

\* The first heap lies before the second, which lies in memory.
LEMMA HeapOrder ==
    ASSUME NEW pages \in Nat, InitPages <= pages, pages <= MaxPages
    PROVE  /\ InitialHeap \in Nat /\ InitialHeap >= 1 /\ InitialSize \in Nat
           /\ InitPages * PageUnits \in Nat /\ pages * PageUnits \in Nat
           /\ InitialHeap + InitialSize < InitPages * PageUnits
           /\ InitPages * PageUnits <= pages * PageUnits
           /\ pages * PageUnits <= Top
<1>1. InitPages \in Nat /\ MaxPages \in Nat
  BY UnitsAssumption
<1>2. /\ InitPages * PageUnits \in Nat /\ pages * PageUnits \in Nat
      /\ InitPages * PageUnits <= pages * PageUnits
      /\ pages * PageUnits <= MaxPages * PageUnits
  BY <1>1, PageProduct
<1>. QED
  BY <1>2, UnitsAssumption DEF Top

LEMMA LayoutPlaced ==
    ASSUME NEW k, Layout(k)
    PROVE  Placed(k.heaps)
<1>1. /\ k.heaps \in [0 .. HeapsSize -> Heap] /\ k.pages \in Nat
      /\ \A i \in 0 .. HeapsSize : /\ k.heaps[i].base \in Nat /\ k.heaps[i].size \in Nat
                                   /\ k.heaps[i].off \in Nat
                                   /\ k.heaps[i].off <= k.heaps[i].size
      /\ \A i \in 2 .. HeapsSize : k.heaps[i] = NoHeap
      /\ InitPages <= k.pages /\ k.pages <= MaxPages
  BY DEF Layout, Managers, Heap
<1>2. HeapsSize \in Nat /\ HeapsSize >= 2
  BY UnitsAssumption
<1>. DEFINE units == InitPages * PageUnits
            start == k.pages * PageUnits
<1>3. /\ InitialHeap \in Nat /\ InitialHeap >= 1 /\ InitialSize \in Nat
      /\ units \in Nat /\ start \in Nat
      /\ InitialHeap + InitialSize < units /\ units <= start /\ start <= Top
  <2>1. k.pages \in Nat /\ InitPages <= k.pages /\ k.pages <= MaxPages
    BY <1>1
  <2>. QED
    BY <2>1, HeapOrder
<1>. HIDE DEF units, start
<1>4. /\ k.heaps[0] = NoHeap \/ IsFirst(k.heaps[0])
      /\ k.heaps[1] = NoHeap \/ IsSecond(k.heaps[1], k.pages)
      /\ IsFirst(k.heaps[0]) \/ k.heaps[1] = NoHeap
  BY DEF Layout, Fresh, InFirst, InSecond
<1>5. ASSUME NEW h, h.base \in Nat, h.base >= 1, h.size \in Nat, h.off \in Nat,
             h.off <= h.size, EndOf(h) <= Top + 1
      PROVE  /\ IsHeap(h) /\ Bounds(h.base, Carvings(h))
             /\ Carvings(h) <= EndOf(h)
  BY <1>5, TopType DEF IsHeap, Bounds, Carvings, EndOf
<1>6. ASSUME IsFirst(k.heaps[0])
      PROVE  /\ IsHeap(k.heaps[0]) /\ Bounds(k.heaps[0].base, Carvings(k.heaps[0]))
             /\ Carvings(k.heaps[0]) <= EndOf(k.heaps[0])
  <2>1. k.heaps[0].base >= 1 /\ EndOf(k.heaps[0]) <= Top + 1
    BY <1>1, <1>2, <1>3, <1>6, TopType DEF IsFirst, EndOf
  <2>2. 0 \in 0 .. HeapsSize
    BY <1>2
  <2>. QED
    BY <1>1, <1>5, <2>1, <2>2
<1>7. ASSUME IsSecond(k.heaps[1], k.pages)
      PROVE  /\ IsHeap(k.heaps[1]) /\ Bounds(k.heaps[1].base, Carvings(k.heaps[1]))
             /\ Carvings(k.heaps[1]) <= EndOf(k.heaps[1])
             /\ k.heaps[1].base = units + 1
  <2>1. k.heaps[1].base = units + 1 /\ EndOf(k.heaps[1]) = start + 1
    BY <1>3, <1>7 DEF IsSecond, units, start
  <2>2. 1 \in 0 .. HeapsSize /\ k.heaps[1].base >= 1 /\ EndOf(k.heaps[1]) <= Top + 1
    BY <1>2, <1>3, <2>1, TopType
  <2>. QED
    BY <1>1, <1>5, <2>1, <2>2
<1>8. \A i \in 0 .. HeapsSize : i = 0 \/ i = 1 \/ i \in 2 .. HeapsSize
  BY <1>2
<1>9. ASSUME NEW i \in 0 .. HeapsSize
      PROVE  \/ k.heaps[i] = NoHeap
             \/ /\ IsHeap(k.heaps[i]) /\ Bounds(k.heaps[i].base, Carvings(k.heaps[i]))
                /\ Carvings(k.heaps[i]) <= EndOf(k.heaps[i])
  BY <1>1, <1>4, <1>6, <1>7, <1>8
<1>10. ASSUME NEW i \in 0 .. HeapsSize, NEW j \in 0 .. HeapsSize, i < j
       PROVE  EndOf(k.heaps[i]) < k.heaps[j].base \/ k.heaps[j] = NoHeap
  <2>1. k.heaps[j] = NoHeap \/ (i = 0 /\ j = 1)
    BY <1>1, <1>8, <1>10
  <2>2. CASE i = 0 /\ j = 1 /\ k.heaps[1] # NoHeap
    <3>1. IsFirst(k.heaps[0]) /\ k.heaps[1].base = units + 1
      BY <1>4, <1>7, <2>2
    <3>2. EndOf(k.heaps[0]) = InitialHeap + InitialSize
      BY <3>1 DEF IsFirst, EndOf
    <3>. QED
      BY <1>3, <2>2, <3>1, <3>2
  <2>. QED
    BY <2>1, <2>2
<1>. QED
  BY <1>1, <1>9, <1>10 DEF Placed

-----------------------------------------------------------------------------
(* All heaps together.                                                     *)

\* H[i] are the headers of heap i.
Divided(mem, hs, H) ==
    /\ H \in [0 .. HeapsSize -> SUBSET Nat]
    /\ \A i \in 0 .. HeapsSize : Tiled(mem, hs[i].base, Carvings(hs[i]), H[i])

Heads(H) == UNION {H[i] : i \in 0 .. HeapsSize}

\* Blocks with the headers G lie in memory and do not overlap.
Apart(mem, G) ==
    /\ \A a \in G : /\ a \in Nat /\ a \in 1 .. Top /\ mem[a] \in Word
                    /\ After(mem, a) <= Top + 1
    /\ \A a, b \in G : a < b => After(mem, a) <= b

LEMMA HeadsOf ==
    ASSUME NEW H, NEW a
    PROVE  a \in Heads(H) <=> \E i \in 0 .. HeapsSize : a \in H[i]
  BY DEF Heads

\* A heap that is not initialised has no blocks.
LEMMA NoHeapEmpty ==
    ASSUME NEW mem, NEW H, Tiled(mem, NoHeap.base, Carvings(NoHeap), H)
    PROVE  H = {}
<1>1. NoHeap.base = 0 /\ Carvings(NoHeap) = 0
  BY DEF NoHeap, Carvings
<1>2. H \subseteq 0 .. 0 - 1
  BY <1>1 DEF Tiled
<1>. QED
  BY <1>2

\* The block a of heap i.
LEMMA BlockOf ==
    ASSUME NEW hs, Placed(hs), NEW mem \in Memories, NEW H, Divided(mem, hs, H),
           NEW i \in 0 .. HeapsSize, NEW a \in H[i]
    PROVE  /\ IsHeap(hs[i]) /\ Bounds(hs[i].base, Carvings(hs[i]))
           /\ Carvings(hs[i]) \in Nat /\ EndOf(hs[i]) \in Nat /\ hs[i].base \in Nat
           /\ Carvings(hs[i]) <= EndOf(hs[i]) /\ hs[i] # NoHeap
           /\ Tiled(mem, hs[i].base, Carvings(hs[i]), H[i])
           /\ a \in Nat /\ a \in 1 .. Top /\ mem[a] \in Word
           /\ mem[a].size \in Nat /\ mem[a].alloc \in BOOLEAN
           /\ hs[i].base <= a /\ a < Carvings(hs[i])
           /\ After(mem, a) \in Nat /\ a < After(mem, a)
           /\ After(mem, a) <= Carvings(hs[i]) /\ After(mem, a) <= Top + 1
<1>1. Tiled(mem, hs[i].base, Carvings(hs[i]), H[i])
  BY DEF Divided
<1>2. hs[i] # NoHeap
  BY <1>1, NoHeapEmpty
<1>3. /\ IsHeap(hs[i]) /\ Bounds(hs[i].base, Carvings(hs[i]))
      /\ Carvings(hs[i]) <= EndOf(hs[i])
  BY <1>2 DEF Placed
<1>4. EndOf(hs[i]) \in Nat /\ Carvings(hs[i]) \in Nat /\ hs[i].base \in Nat /\ EndOf(hs[i]) <= Top + 1
  BY <1>3 DEF IsHeap, EndOf, Bounds
<1>5. /\ a \in 1 .. Top /\ a \in Nat /\ hs[i].base <= a /\ a < Carvings(hs[i])
      /\ mem[a] \in Word /\ mem[a].size \in Nat /\ mem[a].alloc \in BOOLEAN
      /\ After(mem, a) \in Nat /\ a < After(mem, a) /\ After(mem, a) <= Carvings(hs[i])
  BY <1>1, <1>3, Ends
<1>6. After(mem, a) <= Top + 1
  BY <1>3, <1>4, <1>5, TopType
<1>. QED
  BY <1>1, <1>2, <1>3, <1>4, <1>5, <1>6

LEMMA DividedApart ==
    ASSUME NEW hs, Placed(hs), NEW mem \in Memories, NEW H, Divided(mem, hs, H)
    PROVE  Apart(mem, Heads(H))
<1>1. ASSUME NEW a \in Heads(H)
      PROVE  a \in Nat /\ a \in 1 .. Top /\ mem[a] \in Word /\ After(mem, a) <= Top + 1
  <2>1. PICK i \in 0 .. HeapsSize : a \in H[i]
    BY HeadsOf
  <2>. QED
    BY <2>1, BlockOf
<1>2. ASSUME NEW a \in Heads(H), NEW b \in Heads(H), a < b
      PROVE  After(mem, a) <= b
  <2>1. PICK i \in 0 .. HeapsSize : a \in H[i]
    BY HeadsOf
  <2>2. PICK j \in 0 .. HeapsSize : b \in H[j]
    BY HeadsOf
  <2>3. /\ a \in Nat /\ hs[i].base <= a /\ After(mem, a) \in Nat
        /\ After(mem, a) <= Carvings(hs[i]) /\ Carvings(hs[i]) <= EndOf(hs[i])
        /\ hs[i].base \in Nat /\ Carvings(hs[i]) \in Nat /\ EndOf(hs[i]) \in Nat
        /\ Tiled(mem, hs[i].base, Carvings(hs[i]), H[i]) /\ hs[i] # NoHeap
    BY <2>1, BlockOf
  <2>4. /\ b \in Nat /\ hs[j].base <= b /\ hs[j].base \in Nat
        /\ b < Carvings(hs[j]) /\ Carvings(hs[j]) <= EndOf(hs[j]) /\ hs[j] # NoHeap
        /\ Carvings(hs[j]) \in Nat /\ EndOf(hs[j]) \in Nat
    BY <2>2, BlockOf
  <2>5. CASE i = j
    BY <1>2, <2>1, <2>2, <2>3, <2>5 DEF Tiled
  <2>6. CASE i < j
    <3>1. EndOf(hs[i]) < hs[j].base
      BY <2>4, <2>6 DEF Placed
    <3>. QED
      BY <2>3, <2>4, <3>1
  <2>7. CASE j < i
    <3>1. EndOf(hs[j]) < hs[i].base
      BY <2>3, <2>7 DEF Placed
    <3>. QED
      BY <1>2, <2>3, <2>4, <3>1
  <2>. QED
    BY <2>5, <2>6, <2>7
<1>. QED
  BY <1>1, <1>2 DEF Apart

\* As Kept, for all heaps.
KeptAll(mem, G, mem2, G2, new) ==
    /\ \A a \in G \ new : mem[a].alloc =>
         /\ a \in G2
         /\ \A c \in a .. a + mem[a].size : mem2[c] = mem[c]
    /\ \A a \in G2 \ new : mem2[a].alloc => a \in G /\ mem[a].alloc

\* A change of heap i, whose headers become G.
Only(i, hs, mem, hs2, mem2, G) ==
    /\ \A j \in 0 .. HeapsSize : j # i => hs2[j] = hs[j]
    /\ Tiled(mem2, hs2[i].base, Carvings(hs2[i]), G)
    /\ \A c \in 1 .. Top : c \notin hs[i].base .. EndOf(hs[i]) - 1 => mem2[c] = mem[c]

Elsewhere(i, H, mem, mem2) ==
    \A j \in 0 .. HeapsSize : j # i => \A a \in H[j] :
      \A c \in a .. a + mem[a].size : mem2[c] = mem[c]

\* It leaves the other heaps alone.
LEMMA OneHeap ==
    ASSUME NEW hs, Placed(hs), NEW mem \in Memories, NEW H, Divided(mem, hs, H),
           NEW i \in 0 .. HeapsSize, IsHeap(hs[i]), NEW hs2, NEW mem2, NEW G \in SUBSET Nat,
           Only(i, hs, mem, hs2, mem2, G)
    PROVE  Divided(mem2, hs2, [H EXCEPT ![i] = G]) /\ Elsewhere(i, H, mem, mem2)
<1>1. ASSUME NEW j \in 0 .. HeapsSize, j # i, NEW a \in H[j],
             NEW c \in a .. a + mem[a].size
      PROVE  mem2[c] = mem[c]
  <2>1. /\ a \in Nat /\ a \in 1 .. Top /\ mem[a].size \in Nat /\ After(mem, a) <= Top + 1
        /\ hs[j].base <= a /\ hs[j].base \in Nat /\ hs[j] # NoHeap
        /\ After(mem, a) <= Carvings(hs[j]) /\ Carvings(hs[j]) <= EndOf(hs[j])
        /\ Carvings(hs[j]) \in Nat /\ EndOf(hs[j]) \in Nat
    BY BlockOf
  <2>2. hs[i] # NoHeap /\ hs[i].base \in Nat /\ EndOf(hs[i]) \in Nat
    BY DEF IsHeap, NoHeap, EndOf
  <2>3. c \in Nat /\ a <= c /\ c < After(mem, a)
    BY <1>1, <2>1 DEF After
  <2>4. c \in 1 .. Top
    BY <2>1, <2>3, TopType DEF After
  <2>5. CASE i < j
    <3>1. EndOf(hs[i]) < hs[j].base
      BY <2>1, <2>5 DEF Placed
    <3>. QED
      BY <2>1, <2>2, <2>3, <2>4, <3>1 DEF Only
  <2>6. CASE j < i
    <3>1. EndOf(hs[j]) < hs[i].base
      BY <2>2, <2>6 DEF Placed
    <3>. QED
      BY <2>1, <2>2, <2>3, <2>4, <3>1 DEF After, Only
  <2>. QED
    BY <1>1, <2>5, <2>6
<1>2. ASSUME NEW j \in 0 .. HeapsSize, j # i
      PROVE  Tiled(mem2, hs2[j].base, Carvings(hs2[j]), H[j])
  <2>1. \A a \in H[j] : mem2[a] = mem[a]
    <3>. SUFFICES ASSUME NEW a \in H[j]
                  PROVE  mem2[a] = mem[a]
      OBVIOUS
    <3>1. a \in Nat /\ mem[a].size \in Nat
      BY BlockOf
    <3>2. a \in a .. a + mem[a].size
      BY <3>1
    <3>. QED
      BY <1>1, <1>2, <3>2
  <2>2. Tiled(mem, hs[j].base, Carvings(hs[j]), H[j])
    BY DEF Divided
  <2>3. \A a \in H[j] : mem2[a] \in Word /\ mem2[a].size = mem[a].size
    BY <2>1, <2>2 DEF Tiled
  <2>. QED
    <3>1. hs2[j] = hs[j]
      BY <1>2 DEF Only
    <3>. QED
      BY <2>2, <2>3, <3>1, SameSizes
<1>3. H \in [0 .. HeapsSize -> SUBSET Nat]
  BY DEF Divided
<1>. QED
  BY <1>1, <1>2, <1>3 DEF Divided, Only, Elsewhere

\* What a change of one heap keeps is kept of all.
LEMMA OneHeapKept ==
    ASSUME NEW hs, Placed(hs), NEW mem \in Memories, NEW H, Divided(mem, hs, H),
           NEW i \in 0 .. HeapsSize, IsHeap(hs[i]), NEW mem2, NEW G \in SUBSET Nat, NEW new,
           NEW lo, NEW hi, Kept(lo, hi, mem, H[i], mem2, G, new), Elsewhere(i, H, mem, mem2)
    PROVE  KeptAll(mem, Heads(H), mem2, Heads([H EXCEPT ![i] = G]), new)
<1>. DEFINE H2 == [H EXCEPT ![i] = G]
<1>1. H \in [0 .. HeapsSize -> SUBSET Nat]
  BY DEF Divided
<1>2. H2[i] = G /\ \A j \in 0 .. HeapsSize : j # i => H2[j] = H[j]
  BY <1>1
<1>. HIDE DEF H2
<1>3. ASSUME NEW a \in Heads(H) \ new, mem[a].alloc
      PROVE  a \in Heads(H2) /\ \A c \in a .. a + mem[a].size : mem2[c] = mem[c]
  <2>1. PICK j \in 0 .. HeapsSize : a \in H[j]
    BY HeadsOf
  <2>2. CASE j = i
    <3>1. a \in G /\ \A c \in a .. a + mem[a].size : mem2[c] = mem[c]
      BY <1>3, <2>1, <2>2 DEF Kept
    <3>. QED
      BY <1>2, <3>1, HeadsOf
  <2>3. CASE j # i
    BY <1>2, <2>1, <2>3, HeadsOf DEF Elsewhere
  <2>. QED
    BY <2>2, <2>3
<1>4. ASSUME NEW a \in Heads(H2) \ new, mem2[a].alloc
      PROVE  a \in Heads(H) /\ mem[a].alloc
  <2>1. PICK j \in 0 .. HeapsSize : a \in H2[j]
    BY HeadsOf
  <2>2. CASE j = i
    <3>1. a \in H[i] /\ mem[a].alloc
      BY <1>2, <1>4, <2>1, <2>2 DEF Kept
    <3>. QED
      BY <3>1, HeadsOf
  <2>3. CASE j # i
    <3>1. a \in H[j]
      BY <1>2, <2>1, <2>3
    <3>2. a \in Nat /\ mem[a].size \in Nat
      BY <3>1, BlockOf
    <3>3. a \in a .. a + mem[a].size
      BY <3>2
    <3>4. mem2[a] = mem[a]
      BY <2>3, <3>1, <3>3 DEF Elsewhere
    <3>. QED
      BY <1>4, <3>1, <3>4, HeadsOf
  <2>. QED
    BY <2>2, <2>3
<1>. QED
  BY <1>3, <1>4 DEF KeptAll, H2

-----------------------------------------------------------------------------
(* The blocks of the program.                                              *)

\* The allocated blocks, of those with the headers G, are the ones of the
\* program, L, which have what it wrote, and the ones with the headers X.
Holds(mem, G, L, X) ==
    /\ \A b \in L : /\ b \in [ptr : Nat \ {0}, size : Nat \ {0}]
                    /\ b.ptr - 1 \in G \ X /\ mem[b.ptr - 1].alloc
                    /\ b.size <= mem[b.ptr - 1].size
                    /\ \A c \in Cells(b) : mem[c] = Data
    /\ \A b, c \in L : b.ptr = c.ptr => b = c
    /\ \A a \in X : a \in G /\ mem[a].alloc
    /\ \A a \in G \ X : mem[a].alloc => \E b \in L : b.ptr - 1 = a

\* A change that keeps all blocks but those in new, which are allocated.
LEMMA HoldsKept ==
    ASSUME NEW mem, NEW G, Apart(mem, G), NEW L, NEW X, Holds(mem, G, L, X),
           NEW mem2, NEW G2, NEW new, KeptAll(mem, G, mem2, G2, new), X \subseteq new,
           \A b \in L : b.ptr - 1 \notin new,
           \A a \in new : a \in G2 /\ mem2[a].alloc
    PROVE  Holds(mem2, G2, L, new)
<1>1. ASSUME NEW b \in L
      PROVE  /\ b \in [ptr : Nat \ {0}, size : Nat \ {0}]
             /\ b.ptr - 1 \in G2 \ new /\ mem2[b.ptr - 1].alloc
             /\ b.size <= mem2[b.ptr - 1].size
             /\ \A c \in Cells(b) : mem2[c] = Data
  <2>1. PICK a : a = b.ptr - 1
    OBVIOUS
  <2>2. /\ b \in [ptr : Nat \ {0}, size : Nat \ {0}] /\ a \in G /\ a \notin new
        /\ mem[a].alloc /\ b.size <= mem[a].size
        /\ \A c \in Cells(b) : mem[c] = Data
    BY <2>1 DEF Holds
  <2>3. a \in Nat /\ mem[a].size \in Nat /\ b.ptr \in Nat /\ b.size \in Nat /\ b.ptr = a + 1
    BY <2>1, <2>2 DEF Apart, Word
  <2>4. a \in G2 /\ \A c \in a .. a + mem[a].size : mem2[c] = mem[c]
    BY <2>2 DEF KeptAll
  <2>5. mem2[a] = mem[a]
    BY <2>3, <2>4
  <2>6. \A c \in Cells(b) : c \in a .. a + mem[a].size
    BY <2>2, <2>3 DEF Cells
  <2>. QED
    BY <2>1, <2>2, <2>4, <2>5, <2>6
<1>2. \A b, c \in L : b.ptr = c.ptr => b = c
  BY DEF Holds
<1>3. ASSUME NEW a \in G2 \ new, mem2[a].alloc
      PROVE  \E b \in L : b.ptr - 1 = a
  <2>1. a \in G /\ mem[a].alloc
    BY <1>3 DEF KeptAll
  <2>. QED
    BY <1>3, <2>1 DEF Holds
<1>. QED
  BY <1>1, <1>2, <1>3 DEF Holds

\* The blocks of the program do not overlap.
LEMMA HoldsDisjoint ==
    ASSUME NEW mem, NEW G, Apart(mem, G), NEW L, NEW X, Holds(mem, G, L, X)
    PROVE  \A b, c \in L : b # c => Cells(b) \cap Cells(c) = {}
<1>1. ASSUME NEW b \in L
      PROVE  /\ b.ptr \in Nat /\ b.ptr - 1 \in Nat /\ b.ptr - 1 \in G /\ b.size \in Nat
             /\ After(mem, b.ptr - 1) \in Nat
             /\ b.ptr + b.size <= After(mem, b.ptr - 1)
  <2>1. PICK a : a = b.ptr - 1
    OBVIOUS
  <2>2. /\ b.ptr \in Nat /\ b.size \in Nat /\ a \in G /\ b.size <= mem[a].size
    BY <2>1 DEF Holds
  <2>3. a \in Nat /\ mem[a].size \in Nat
    BY <2>2 DEF Apart, Word
  <2>4. After(mem, a) \in Nat /\ b.ptr + b.size <= After(mem, a)
    BY <2>1, <2>2, <2>3 DEF After
  <2>. QED
    BY <2>1, <2>2, <2>3, <2>4
<1>2. ASSUME NEW b \in L, NEW c \in L, b.ptr < c.ptr
      PROVE  b.ptr + b.size <= c.ptr - 1
  <2>1. PICK a, d : a = b.ptr - 1 /\ d = c.ptr - 1
    OBVIOUS
  <2>2. /\ a \in Nat /\ d \in Nat /\ a \in G /\ d \in G /\ b.ptr \in Nat /\ b.size \in Nat
        /\ c.ptr \in Nat /\ After(mem, a) \in Nat /\ b.ptr + b.size <= After(mem, a)
    BY <1>1, <2>1
  <2>3. a < d
    BY <1>2, <2>1, <2>2
  <2>4. After(mem, a) <= d
    BY <2>2, <2>3 DEF Apart
  <2>. QED
    BY <2>1, <2>2, <2>4
<1>3. ASSUME NEW b \in L, NEW c \in L, b # c, NEW x \in Cells(b), x \in Cells(c)
      PROVE  FALSE
  <2>1. b.ptr # c.ptr
    BY <1>3 DEF Holds
  <2>2. b.ptr \in Nat /\ b.size \in Nat /\ c.ptr \in Nat /\ c.size \in Nat
    BY <1>1
  <2>3. b.ptr < c.ptr \/ c.ptr < b.ptr
    BY <2>1, <2>2
  <2>4. b.ptr + b.size <= c.ptr - 1 \/ c.ptr + c.size <= b.ptr - 1
    BY <1>2, <2>3
  <2>. QED
    BY <1>3, <2>2, <2>4 DEF Cells
<1>. QED
  BY <1>3

Without(L, p) == {b \in L : b.ptr # p}

\* A block that the program gives up but does not free is one of X.
LEMMA HoldsDropped ==
    ASSUME NEW mem, NEW G, NEW L, Holds(mem, G, L, {}), NEW d \in L, NEW p, p = d.ptr
    PROVE  Holds(mem, G, Without(L, p), {p - 1})
<1>. DEFINE L2 == {b \in L : b.ptr # p}
<1>1. ASSUME NEW b \in L2
      PROVE  b.ptr - 1 # p - 1
  BY <1>1 DEF Holds
<1>2. ASSUME NEW a \in G \ {p - 1}, mem[a].alloc
      PROVE  \E b \in L2 : b.ptr - 1 = a
  BY <1>2 DEF Holds
<1>3. p - 1 \in G /\ mem[p - 1].alloc
  BY DEF Holds
<1>. QED
  BY <1>1, <1>2, <1>3 DEF Holds, Without

\* Freeing a block.
LEMMA HoldsFreed ==
    ASSUME NEW mem, NEW G, Apart(mem, G), NEW L, NEW X, Holds(mem, G, L, X),
           NEW d \in L, NEW a, a = d.ptr - 1, NEW mem2,
           Marked(mem, a, mem[a].size, FALSE, mem2)
    PROVE  Holds(mem2, G, Without(L, d.ptr), X) /\ Apart(mem2, G)
<1>. DEFINE L2 == {b \in L : b.ptr # d.ptr}
<1>. USE DEF Marked
<1>1. \A b \in L : b.ptr \in Nat /\ b.size \in Nat /\ b.ptr - 1 \in G
  BY DEF Holds
<1>2. \A x \in G : x \in Nat /\ x \in 1 .. Top /\ mem[x].size \in Nat /\ After(mem, x) <= Top + 1
  BY DEF Apart, Word
<1>3. ASSUME NEW b \in L2
      PROVE  /\ b \in [ptr : Nat \ {0}, size : Nat \ {0}]
             /\ b.ptr - 1 \in G \ X /\ mem2[b.ptr - 1].alloc
             /\ b.size <= mem2[b.ptr - 1].size
             /\ \A c \in Cells(b) : mem2[c] = Data
  <2>1. PICK e : e = b.ptr - 1
    OBVIOUS
  <2>2. /\ b \in [ptr : Nat \ {0}, size : Nat \ {0}] /\ e \in G \ X
        /\ mem[e].alloc /\ b.size <= mem[e].size
        /\ \A c \in Cells(b) : mem[c] = Data
    BY <2>1 DEF Holds
  <2>3. /\ a \in G /\ a \in Nat /\ e \in Nat /\ e # a /\ b.ptr = e + 1 /\ mem[e].size \in Nat
        /\ e \in 1 .. Top /\ After(mem, e) <= Top + 1 /\ b.size \in Nat
    BY <1>1, <1>2, <2>1, <2>2
  <2>4. mem2[e] = mem[e]
    BY <2>3
  <2>5. (e < a => After(mem, e) <= a) /\ (a < e => After(mem, a) <= e)
    BY <2>2, <2>3 DEF Apart
  <2>6. \A c \in Cells(b) : c \in 1 .. Top /\ c # a
    BY <2>2, <2>3, <2>5, TopType DEF Cells, After
  <2>. QED
    BY <2>1, <2>2, <2>4, <2>6
<1>4. \A b, c \in L2 : b.ptr = c.ptr => b = c
  BY DEF Holds
<1>5. ASSUME NEW x \in X
      PROVE  x \in G /\ mem2[x].alloc
  <2>1. x \in G /\ mem[x].alloc /\ x # a
    BY DEF Holds
  <2>. QED
    BY <1>2, <2>1
<1>6. ASSUME NEW x \in G \ X, mem2[x].alloc
      PROVE  \E b \in L2 : b.ptr - 1 = x
  <2>1. x # a /\ x \in 1 .. Top
    BY <1>2, <1>6
  <2>2. mem[x].alloc
    BY <1>6, <2>1
  <2>3. PICK b \in L : b.ptr - 1 = x
    BY <2>2 DEF Holds
  <2>. QED
    BY <2>1, <2>3
<1>7. Holds(mem2, G, L2, X)
  BY <1>3, <1>4, <1>5, <1>6 DEF Holds
<1>8. \A x \in G : mem2[x] \in Word /\ mem2[x].size = mem[x].size
  BY <1>2 DEF Apart
<1>9. \A x \in G : After(mem2, x) = After(mem, x)
  BY <1>8 DEF After
<1>10. Apart(mem2, G)
  BY <1>8, <1>9 DEF Apart
<1>. QED
  BY <1>7, <1>10 DEF Without

\* The program fills n cells of a block that it gets.
LEMMA HoldsWritten ==
    ASSUME NEW mem, NEW G, Apart(mem, G), NEW L, NEW a, Holds(mem, G, L, {a}),
           NEW n \in Nat \ {0}, n <= mem[a].size, NEW p, p = a + 1, NEW mem2,
           \A c \in 1 .. Top : mem2[c] = IF c \in p .. p + n - 1 THEN Data ELSE mem[c]
    PROVE  /\ Holds(mem2, G, L \cup {Block(p, n)}, {})
           /\ \A x \in G : mem2[x] = mem[x]
<1>1. a \in G /\ mem[a].alloc
  BY DEF Holds
<1>2. \A x \in G : x \in Nat /\ x \in 1 .. Top /\ mem[x].size \in Nat /\ After(mem, x) <= Top + 1
  BY DEF Apart, Word
<1>3. ASSUME NEW x \in G
      PROVE  mem2[x] = mem[x] /\ x \notin p .. p + n - 1
  <2>1. (x < a => After(mem, x) <= a) /\ (a < x => After(mem, a) <= x)
    BY <1>1 DEF Apart
  <2>2. x \notin p .. p + n - 1
    BY <1>1, <1>2, <2>1 DEF After
  <2>. QED
    BY <1>2, <2>2
<1>4. ASSUME NEW b \in L
      PROVE  /\ b \in [ptr : Nat \ {0}, size : Nat \ {0}]
             /\ b.ptr - 1 \in G /\ mem2[b.ptr - 1].alloc
             /\ b.size <= mem2[b.ptr - 1].size
             /\ \A c \in Cells(b) : mem2[c] = Data
             /\ b.ptr - 1 # a
  <2>1. PICK e : e = b.ptr - 1
    OBVIOUS
  <2>2. /\ b \in [ptr : Nat \ {0}, size : Nat \ {0}] /\ e \in G /\ e # a
        /\ mem[e].alloc /\ b.size <= mem[e].size
        /\ \A c \in Cells(b) : mem[c] = Data
    BY <2>1 DEF Holds
  <2>3. e \in 1 .. Top /\ mem[e].size \in Nat /\ b.ptr = e + 1 /\ b.size \in Nat /\ After(mem, e) <= Top + 1
    BY <1>2, <2>1, <2>2
  <2>4. \A c \in Cells(b) : c \in 1 .. Top
    BY <2>2, <2>3, TopType DEF Cells, After
  <2>. QED
    BY <1>3, <2>1, <2>2, <2>4
<1>5. PICK d : d = Block(p, n)
  OBVIOUS
<1>6. d.ptr = p /\ d.size = n /\ d \in [ptr : Nat \ {0}, size : Nat \ {0}]
  BY <1>1, <1>2, <1>5 DEF Block
<1>7. \A c \in Cells(d) : mem2[c] = Data
  <2>1. \A c \in Cells(d) : c \in p .. p + n - 1 /\ c \in 1 .. Top
    BY <1>1, <1>2, <1>6, TopType DEF Cells, After
  <2>. QED
    BY <2>1
<1>8. d.ptr - 1 \in G /\ mem2[d.ptr - 1].alloc /\ d.size <= mem2[d.ptr - 1].size
  <2>1. d.ptr - 1 = a
    BY <1>1, <1>2, <1>6
  <2>. QED
    BY <1>1, <1>3, <1>6, <2>1
<1>9. \A b \in L : b.ptr # d.ptr
  BY <1>1, <1>2, <1>4, <1>6
<1>10. ASSUME NEW b \in L \cup {d}, NEW c \in L \cup {d}, b.ptr = c.ptr
       PROVE  b = c
  BY <1>9, <1>10 DEF Holds
<1>11. ASSUME NEW x \in G, mem2[x].alloc
       PROVE  \E b \in L \cup {d} : b.ptr - 1 = x
  <2>1. mem[x].alloc
    BY <1>3, <1>11
  <2>2. CASE x = a
    <3>1. d.ptr - 1 = x
      BY <1>1, <1>2, <1>6, <2>2
    <3>. QED
      BY <3>1
  <2>3. CASE x # a
    BY <2>1, <2>3 DEF Holds
  <2>. QED
    BY <2>2, <2>3
<1>12. Holds(mem2, G, L \cup {d}, {})
  BY <1>4, <1>6, <1>7, <1>8, <1>10, <1>11 DEF Holds
<1>. QED
  BY <1>3, <1>5, <1>12

-----------------------------------------------------------------------------
(* The steps of a manager.                                                 *)

\* A block of n cells, allocated or not, is added to the end of heap i.
Adds(i, n, f, mem, hs, mem2, hs2) ==
    /\ i \in 0 .. HeapsSize /\ n \in Nat /\ f \in BOOLEAN /\ IsHeap(hs[i])
    /\ Carvings(hs[i]) + n + 1 <= EndOf(hs[i])
    /\ Marked(mem, Carvings(hs[i]), n, f, mem2)
    /\ \A j \in 0 .. HeapsSize : j # i => hs2[j] = hs[j]
    /\ hs2[i].base = hs[i].base /\ Carvings(hs2[i]) = Carvings(hs[i]) + n + 1

LEMMA EndFree ==
    ASSUME NEW hs, Placed(hs), NEW mem \in Memories, NEW H, Divided(mem, hs, H),
           NEW i \in 0 .. HeapsSize, IsHeap(hs[i])
    PROVE  /\ Carvings(hs[i]) \notin Heads(H)
           /\ Carvings(hs[i]) \in Nat /\ EndOf(hs[i]) \in Nat
           /\ Bounds(hs[i].base, Carvings(hs[i])) /\ Carvings(hs[i]) <= EndOf(hs[i])
<1>1. hs[i] # NoHeap
  BY DEF IsHeap, NoHeap
<1>2. /\ Bounds(hs[i].base, Carvings(hs[i])) /\ Carvings(hs[i]) <= EndOf(hs[i])
      /\ hs[i].base \in Nat
  BY <1>1 DEF Placed, IsHeap
<1>3. /\ Carvings(hs[i]) \in Nat /\ EndOf(hs[i]) \in Nat /\ hs[i].base <= Carvings(hs[i])
  BY <1>2 DEF Bounds, IsHeap, EndOf
<1>4. ASSUME NEW j \in 0 .. HeapsSize, Carvings(hs[i]) \in H[j]
      PROVE  FALSE
  <2>1. /\ hs[j].base <= Carvings(hs[i]) /\ Carvings(hs[i]) < Carvings(hs[j])
        /\ Carvings(hs[j]) <= EndOf(hs[j]) /\ hs[j] # NoHeap
        /\ hs[j].base \in Nat /\ EndOf(hs[j]) \in Nat /\ Carvings(hs[j]) \in Nat
    BY <1>4, BlockOf
  <2>2. CASE i = j
    BY <1>3, <2>1, <2>2
  <2>3. CASE i # j
    <3>1. EndOf(hs[i]) < hs[j].base \/ EndOf(hs[j]) < hs[i].base
      BY <1>1, <2>1, <2>3 DEF Placed
    <3>. QED
      BY <1>2, <1>3, <2>1, <3>1
  <2>. QED
    BY <2>2, <2>3
<1>. QED
  BY <1>2, <1>3, <1>4, HeadsOf

LEMMA Added ==
    ASSUME NEW hs, Placed(hs), NEW mem \in Memories, NEW H, Divided(mem, hs, H),
           NEW i, NEW n, NEW f, NEW mem2, NEW hs2, Adds(i, n, f, mem, hs, mem2, hs2),
           NEW a, a = Carvings(hs[i])
    PROVE  \E H2 : /\ Divided(mem2, hs2, H2)
                   /\ KeptAll(mem, Heads(H), mem2, Heads(H2), {a})
                   /\ ~f => KeptAll(mem, Heads(H), mem2, Heads(H2), {})
                   /\ a \in Heads(H2) /\ a \notin Heads(H)
<1>1. /\ i \in 0 .. HeapsSize /\ n \in Nat /\ f \in BOOLEAN /\ IsHeap(hs[i])
      /\ a + n + 1 <= EndOf(hs[i])
      /\ Marked(mem, a, n, f, mem2)
      /\ \A j \in 0 .. HeapsSize : j # i => hs2[j] = hs[j]
      /\ hs2[i].base = hs[i].base /\ Carvings(hs2[i]) = a + n + 1
  BY DEF Adds
<1>2. PICK lo, end : lo = hs[i].base /\ end = EndOf(hs[i])
  OBVIOUS
<1>3. /\ a \notin Heads(H) /\ a \in Nat /\ end \in Nat /\ Bounds(lo, a) /\ a <= end
      /\ end <= Top + 1 /\ lo \in Nat /\ lo >= 1
  <2>1. end <= Top + 1 /\ lo \in Nat /\ lo >= 1
    BY <1>1, <1>2 DEF IsHeap
  <2>. QED
    BY <1>1, <1>2, <2>1, EndFree
<1>4. a \in 1 .. Top /\ lo <= a
  BY <1>1, <1>2, <1>3, TopType DEF Bounds
<1>5. /\ mem2 \in Memories /\ mem2[a] \in Word /\ mem2[a].size = n /\ mem2[a].alloc = f
      /\ \A c \in 1 .. Top : c # a => mem2[c] = mem[c]
  BY <1>1 DEF Marked
<1>6. Tiled(mem, lo, a, H[i]) /\ H \in [0 .. HeapsSize -> SUBSET Nat]
  BY <1>1, <1>2 DEF Divided
<1>7. \A b \in H[i] : b \in Nat /\ lo <= b /\ b < a /\ b \in 1 .. Top
  BY <1>3, <1>6, Inside
<1>8. \A b \in H[i] : mem2[b] = mem[b]
  BY <1>3, <1>5, <1>7
<1>9. PICK G : G = H[i] \cup {a}
  OBVIOUS
<1>10. Tiled(mem2, lo, a + n + 1, G)
  BY <1>1, <1>3, <1>5, <1>6, <1>8, <1>9, AddLast
<1>11. G \in SUBSET Nat
  BY <1>3, <1>7, <1>9
<1>12. Only(i, hs, mem, hs2, mem2, G)
  <2>1. \A c \in 1 .. Top : c \notin hs[i].base .. EndOf(hs[i]) - 1 => mem2[c] = mem[c]
    BY <1>1, <1>2, <1>3, <1>4, <1>5
  <2>. QED
    BY <1>1, <1>2, <1>10, <2>1 DEF Only
<1>13. PICK H2 : H2 = [H EXCEPT ![i] = G]
  OBVIOUS
<1>14. Divided(mem2, hs2, [H EXCEPT ![i] = G]) /\ Elsewhere(i, H, mem, mem2)
  <2>1. i \in 0 .. HeapsSize /\ IsHeap(hs[i])
    BY <1>1
  <2>. QED
    BY <1>11, <1>12, <2>1, OneHeap
<1>15. Kept(lo, end, mem, H[i], mem2, G, {a})
  <2>1. ASSUME NEW b \in H[i] \ {a}, mem[b].alloc
        PROVE  b \in G /\ \A c \in b .. b + mem[b].size : mem2[c] = mem[c]
    <3>1. b \in Nat /\ b >= 1 /\ mem[b].size \in Nat /\ After(mem, b) <= a
      BY <1>3, <1>6, Ends
    <3>2. \A c \in b .. b + mem[b].size : c \in 1 .. Top /\ c # a
      BY <1>3, <1>4, <3>1, TopType DEF After
    <3>. QED
      BY <1>5, <1>9, <3>2
  <2>2. \A b \in G \ {a} : mem2[b].alloc => b \in H[i] /\ mem[b].alloc
    BY <1>8, <1>9
  <2>3. \A c \in 1 .. Top : c \notin lo .. end - 1 => mem2[c] = mem[c]
    BY <1>1, <1>2, <1>3, <1>4, <1>5
  <2>. QED
    BY <2>1, <2>2, <2>3 DEF Kept
<1>16. KeptAll(mem, Heads(H), mem2, Heads([H EXCEPT ![i] = G]), {a})
  BY <1>1, <1>11, <1>14, <1>15, OneHeapKept
<1>17. H2[i] = G
  BY <1>1, <1>6, <1>13
<1>18. a \in Heads(H2)
  BY <1>1, <1>9, <1>17, HeadsOf
<1>19. ASSUME ~f
       PROVE  KeptAll(mem, Heads(H), mem2, Heads(H2), {})
  BY <1>3, <1>5, <1>13, <1>16, <1>19 DEF KeptAll
<1>. QED
  BY <1>3, <1>13, <1>14, <1>16, <1>18, <1>19

\* From k with the headers H to g.
Moves(k, H, g, G, new) ==
    Layout(g) /\ Divided(g.mem, g.heaps, G) /\ KeptAll(k.mem, Heads(H), g.mem, Heads(G), new)

LEMMA LayoutTypes ==
    ASSUME NEW k, Layout(k)
    PROVE  /\ k \in Managers /\ k.mem \in Memories /\ k.heaps \in [0 .. HeapsSize -> Heap]
           /\ k.actual \in Nat /\ k.active \in Nat /\ k.pages \in Nat
           /\ InitPages <= k.pages /\ k.pages <= MaxPages
           /\ \A i \in 0 .. HeapsSize : /\ k.heaps[i].base \in Nat /\ k.heaps[i].size \in Nat
                                        /\ k.heaps[i].off \in Nat
                                        /\ k.heaps[i].off <= k.heaps[i].size
           /\ Placed(k.heaps)
           /\ HeapsSize \in Nat /\ HeapsSize >= 2
<1>1. k \in Managers
  BY DEF Layout
<1>2. /\ k.mem \in Memories /\ k.heaps \in [0 .. HeapsSize -> Heap]
      /\ k.actual \in Nat /\ k.active \in Nat /\ k.pages \in Nat
  BY <1>1 DEF Managers
<1>3. \A i \in 0 .. HeapsSize : /\ k.heaps[i].base \in Nat /\ k.heaps[i].size \in Nat
                                /\ k.heaps[i].off \in Nat
  BY <1>2 DEF Heap
<1>. QED
  BY <1>1, <1>2, <1>3, LayoutPlaced, UnitsAssumption DEF Layout

\* k2 is k after the blocks of heap i came to end at its end.
Closed(k, i, k2) ==
    /\ k2 \in Managers
    /\ k2.actual = k.actual /\ k2.active = k.active /\ k2.pages = k.pages
    /\ \A j \in 0 .. HeapsSize : j # i => k2.heaps[j] = k.heaps[j]
    /\ k2.heaps[i].base = k.heaps[i].base /\ k2.heaps[i].size = k.heaps[i].size
    /\ IsFull(k2.heaps[i])

LEMMA CleanedFields ==
    ASSUME NEW k \in Managers, NEW i \in 0 .. HeapsSize, i = k.active,
           NEW h, h = k.heaps[i], h.off < h.size
    PROVE  /\ Closed(k, i, CleanupRemaining(k))
           /\ CleanupRemaining(k).mem = Mark(k.mem, h.base + h.off + 1, h.size - h.off - 1, FALSE)
<1>1. PICK mem2 : mem2 = Mark(k.mem, h.base + h.off + 1, h.size - h.off - 1, FALSE)
  OBVIOUS
<1>2. h.size \in Nat /\ h.off \in Nat /\ h.base \in Nat /\ h \in Heap
  BY DEF Managers, Heap
<1>3. PICK k2 : k2 = [k EXCEPT !.heaps[k.active].off = h.size, !.mem = mem2]
  OBVIOUS
<1>4. CleanupRemaining(k) = k2
  BY <1>1, <1>2, <1>3 DEF CleanupRemaining
<1>5. mem2 \in Memories
  <2>1. k.mem \in Memories /\ h.size - h.off - 1 \in Nat
    BY <1>2 DEF Managers
  <2>. QED
    BY <1>1, <2>1, MarkType
<1>6. /\ k2 \in Managers /\ k2.mem = mem2
      /\ k2.actual = k.actual /\ k2.active = k.active /\ k2.pages = k.pages
      /\ k2.heaps = [k.heaps EXCEPT ![i].off = h.size]
  <2>1. PICK hs : hs = [k.heaps EXCEPT ![i].off = h.size]
    OBVIOUS
  <2>2. hs \in [0 .. HeapsSize -> Heap]
    BY <1>2, <2>1 DEF Managers, Heap
  <2>3. k2 = [k EXCEPT !.heaps = hs, !.mem = mem2]
    BY <1>3, <2>1 DEF Managers
  <2>. HIDE <1>3
  <2>4. /\ k2 \in Managers /\ k2.mem = mem2
        /\ k2.actual = k.actual /\ k2.active = k.active
        /\ k2.pages = k.pages /\ k2.heaps = hs
    BY <1>5, <2>2, <2>3 DEF Managers
  <2>. QED
    BY <2>1, <2>4
<1>7. /\ \A j \in 0 .. HeapsSize : j # i => k2.heaps[j] = k.heaps[j]
      /\ k2.heaps[i].base = h.base /\ k2.heaps[i].size = h.size /\ k2.heaps[i].off = h.size
  <2>1. k.heaps \in [0 .. HeapsSize -> Heap]
    BY DEF Managers
  <2>2. PICK g : g = [h EXCEPT !.off = h.size]
    OBVIOUS
  <2>3. g.base = h.base /\ g.size = h.size /\ g.off = h.size
    BY <1>2, <2>2 DEF Heap
  <2>4. k2.heaps = [k.heaps EXCEPT ![i] = g]
    BY <1>6, <2>1, <2>2
  <2>. QED
    BY <2>1, <2>3, <2>4
<1>8. Closed(k, i, k2)
  BY <1>6, <1>7 DEF Closed, IsFull
<1>. QED
  BY <1>1, <1>4, <1>6, <1>8

LEMMA Cleaned ==
    ASSUME NEW k \in Managers, Placed(k.heaps), NEW H, Divided(k.mem, k.heaps, H),
           NEW i \in 0 .. HeapsSize, i = k.active, IsHeap(k.heaps[i])
    PROVE  /\ Closed(k, i, CleanupRemaining(k))
           /\ \E G : /\ Divided(CleanupRemaining(k).mem, CleanupRemaining(k).heaps, G)
                     /\ KeptAll(k.mem, Heads(H), CleanupRemaining(k).mem, Heads(G), {})
<1>1. PICK h, hs, mem : h = k.heaps[i] /\ hs = k.heaps /\ mem = k.mem
  OBVIOUS
<1>2. h.size \in Nat /\ h.off \in Nat /\ h.base \in Nat /\ h = hs[i] /\ mem \in Memories
  BY <1>1 DEF Managers, Heap
<1>3. h.off <= h.size
  <2>1. Carvings(hs[i]) <= EndOf(hs[i])
    BY <1>1, EndFree DEF Managers
  <2>. QED
    BY <1>2, <2>1 DEF Carvings, EndOf
<1>4. CASE h.off = h.size
  <2>1. CleanupRemaining(k) = k
    BY <1>1, <1>4 DEF CleanupRemaining
  <2>2. Closed(k, i, k)
    BY <1>1, <1>4 DEF Closed, IsFull
  <2>3. KeptAll(k.mem, Heads(H), k.mem, Heads(H), {})
    BY DEF KeptAll
  <2>. QED
    BY <2>1, <2>2, <2>3
<1>5. CASE h.off # h.size
  <2>1. PICK k2 : k2 = CleanupRemaining(k)
    OBVIOUS
  <2>2. PICK n, a : n = h.size - h.off - 1 /\ a = Carvings(hs[i])
    OBVIOUS
  <2>3. n \in Nat /\ a = h.base + h.off /\ a \in Nat /\ a + n + 1 = EndOf(hs[i])
    BY <1>2, <1>3, <1>5, <2>2 DEF Carvings, EndOf
  <2>4. Closed(k, i, k2) /\ k2.mem = Mark(mem, h.base + h.off + 1, h.size - h.off - 1, FALSE)
    <3>1. h.off < h.size
      BY <1>2, <1>3, <1>5
    <3>. QED
      BY <1>1, <2>1, <3>1, CleanedFields
  <2>5. k2.mem = Mark(mem, a + 1, n, FALSE)
    BY <2>2, <2>3, <2>4
  <2>6. a \in 1 .. Top
    <3>1. hs[i].base \in Nat /\ hs[i].base >= 1 /\ EndOf(hs[i]) <= Top + 1 /\ hs[i] = h
      BY <1>1 DEF IsHeap
    <3>. QED
      BY <1>2, <2>3, <3>1, TopType
  <2>7. Marked(mem, a, n, FALSE, k2.mem)
    <3>1. \A p : p = a + 1 => Marked(mem, a, n, FALSE, Mark(mem, p, n, FALSE))
      BY <1>2, <2>3, <2>6, Marks
    <3>. QED
      BY <2>5, <3>1
  <2>8. Adds(i, n, FALSE, mem, hs, k2.mem, k2.heaps)
    <3>1. /\ \A j \in 0 .. HeapsSize : j # i => k2.heaps[j] = hs[j]
          /\ k2.heaps[i].base = h.base /\ k2.heaps[i].size = h.size /\ k2.heaps[i].off = h.size
      BY <1>1, <2>4 DEF Closed, IsFull
    <3>2. Carvings(k2.heaps[i]) = a + n + 1
      BY <1>2, <2>3, <3>1 DEF Carvings, EndOf
    <3>3. IsHeap(hs[i]) /\ a + n + 1 <= EndOf(hs[i])
      BY <1>1, <1>2, <2>3 DEF EndOf
    <3>. QED
      BY <1>2, <2>2, <2>3, <2>7, <3>1, <3>2, <3>3 DEF Adds
  <2>9. Placed(hs) /\ Divided(mem, hs, H)
    BY <1>1
  <2>10. \E G : Divided(k2.mem, k2.heaps, G) /\ KeptAll(mem, Heads(H), k2.mem, Heads(G), {})
    BY <1>2, <2>2, <2>8, <2>9, Added
  <2>. QED
    BY <1>1, <2>1, <2>4, <2>10
<1>. QED
  BY <1>4, <1>5

\* The heaps can be carved from.
Open(k) == InFirst(k) \/ InSecond(k)

LEMMA Unmoved ==
    ASSUME NEW mem, NEW G
    PROVE  KeptAll(mem, G, mem, G, {})
  BY DEF KeptAll

\* An empty heap has no blocks.
LEMMA NoBlocks ==
    ASSUME NEW mem, NEW lo \in Nat
    PROVE  Tiled(mem, lo, lo, {})
  BY DEF Tiled

First == [base |-> InitialHeap, size |-> InitialSize, off |-> 0]

LEMMA FirstFields ==
    First.base = InitialHeap /\ First.size = InitialSize /\ First.off = 0 /\ First \in Heap
  BY UnitsAssumption DEF First, Heap

LEMMA PreparedFields ==
    ASSUME NEW k \in Managers, NEW g, g = Prepared(k)
    PROVE  /\ g \in Managers
           /\ g.active = k.active /\ g.pages = k.pages /\ g.mem = k.mem
           /\ g.actual = IF k.actual = 0 THEN HeapsSize ELSE k.actual
           /\ \A j \in 0 .. HeapsSize : j # 0 => g.heaps[j] = k.heaps[j]
           /\ g.heaps[0] = IF k.active = 0 /\ k.heaps[0].base = 0 THEN First ELSE k.heaps[0]
<1>1. k.heaps \in [0 .. HeapsSize -> Heap] /\ k.actual \in Nat
  BY DEF Managers
<1>2. PICK h : h = IF k.active = 0 /\ k.heaps[0].base = 0 THEN First ELSE k.heaps[0]
  OBVIOUS
<1>3. 0 \in 0 .. HeapsSize /\ HeapsSize \in Nat
  BY UnitsAssumption
<1>4. h \in Heap
  BY <1>1, <1>2, <1>3, FirstFields
<1>5. PICK hs : hs = [k.heaps EXCEPT ![0] = h]
  OBVIOUS
<1>6. hs \in [0 .. HeapsSize -> Heap]
  BY <1>1, <1>4, <1>5
<1>7. PICK n : n = IF k.actual = 0 THEN HeapsSize ELSE k.actual
  OBVIOUS
<1>8. n \in Nat
  BY <1>1, <1>3, <1>7
<1>9. g = [k EXCEPT !.actual = n, !.heaps = hs]
  <2>1. "heaps" \in DOMAIN k /\ "actual" \in DOMAIN k
    BY DEF Managers
  <2>. QED
    BY <1>2, <1>5, <1>7, <2>1 DEF Prepared, First
<1>10. /\ g \in Managers /\ g.actual = n /\ g.heaps = hs
       /\ g.active = k.active /\ g.pages = k.pages /\ g.mem = k.mem
  BY <1>6, <1>8, <1>9 DEF Managers
<1>11. hs[0] = h /\ \A j \in 0 .. HeapsSize : j # 0 => hs[j] = k.heaps[j]
  BY <1>1, <1>3, <1>5
<1>. QED
  BY <1>2, <1>7, <1>10, <1>11

\* The beginning of malloc sets the first heap up.
LEMMA PreparedMoves ==
    ASSUME NEW k, Layout(k), NEW H, Divided(k.mem, k.heaps, H), NEW g, g = Prepared(k)
    PROVE  Moves(k, H, g, H, {}) /\ Open(g)
<1>1. /\ k \in Managers /\ HeapsSize \in Nat /\ HeapsSize >= 2 /\ k.actual \in Nat
      /\ InitPages <= k.pages /\ k.pages <= MaxPages
  BY LayoutTypes
<1>2. /\ g \in Managers
      /\ g.active = k.active /\ g.pages = k.pages /\ g.mem = k.mem
      /\ g.actual = IF k.actual = 0 THEN HeapsSize ELSE k.actual
      /\ \A j \in 0 .. HeapsSize : j # 0 => g.heaps[j] = k.heaps[j]
      /\ g.heaps[0] = IF k.active = 0 /\ k.heaps[0].base = 0 THEN First ELSE k.heaps[0]
  BY <1>1, PreparedFields
<1>3. 0 \in 0 .. HeapsSize /\ 1 \in 0 .. HeapsSize /\ 2 .. HeapsSize \subseteq 0 .. HeapsSize
  BY <1>1
<1>4. /\ \A i \in 2 .. HeapsSize : k.heaps[i] = NoHeap
      /\ \A i \in 0 .. HeapsSize : k.heaps[i].off <= k.heaps[i].size
      /\ Fresh(k) \/ InFirst(k) \/ InSecond(k)
  BY DEF Layout
<1>5. InitialHeap \in Nat /\ InitialHeap # 0 /\ InitialSize \in Nat
  BY UnitsAssumption
<1>. HIDE DEF First
<1>6. CASE Fresh(k)
  <2>1. g.heaps[0] = First /\ g.heaps[1] = NoHeap /\ g.actual = HeapsSize
    BY <1>2, <1>3, <1>6 DEF Fresh, NoHeap
  <2>2. InFirst(g)
    BY <1>2, <1>6, <2>1, FirstFields DEF Fresh, InFirst, IsFirst
  <2>3. \A i \in 2 .. HeapsSize : g.heaps[i] = NoHeap
    BY <1>2, <1>3, <1>4
  <2>4. \A i \in 0 .. HeapsSize : g.heaps[i].off <= g.heaps[i].size
    BY <1>2, <1>4, <1>5, <2>1, FirstFields
  <2>5. Layout(g)
    BY <1>1, <1>2, <2>2, <2>3, <2>4 DEF Layout
  <2>6. Divided(g.mem, g.heaps, H)
    <3>1. H[0] = {}
      BY <1>3, <1>6, NoHeapEmpty DEF Divided, Fresh
    <3>2. Tiled(k.mem, InitialHeap, InitialHeap, {})
      BY <1>5, NoBlocks
    <3>3. g.heaps[0].base = InitialHeap /\ Carvings(g.heaps[0]) = InitialHeap
      BY <1>5, <2>1, FirstFields DEF Carvings
    <3>. QED
      BY <1>2, <3>1, <3>2, <3>3 DEF Divided
  <2>. QED
    BY <1>2, <2>2, <2>5, <2>6, Unmoved DEF Moves, Open
<1>7. CASE ~Fresh(k)
  <2>1. /\ k.actual # 0 /\ k.heaps[0].base # 0
        /\ InFirst(k) \/ InSecond(k)
    BY <1>1, <1>4, <1>5, <1>7 DEF InFirst, InSecond, IsFirst
  <2>2. g.actual = k.actual /\ \A j \in 0 .. HeapsSize : g.heaps[j] = k.heaps[j]
    BY <1>2, <2>1
  <2>3. InFirst(g) \/ InSecond(g)
    BY <1>2, <1>3, <2>1, <2>2 DEF InFirst, InSecond
  <2>4. Layout(g)
    BY <1>1, <1>2, <1>3, <1>4, <2>2, <2>3 DEF Layout
  <2>5. Divided(g.mem, g.heaps, H)
    BY <1>2, <2>2 DEF Divided
  <2>. QED
    BY <1>2, <2>3, <2>4, <2>5, Unmoved DEF Moves, Open
<1>. QED
  BY <1>6, <1>7

\* An open manager's active heap.
LEMMA OpenActive ==
    ASSUME NEW k, Layout(k), Open(k)
    PROVE  /\ k.active \in {0, 1} /\ k.active \in 0 .. HeapsSize /\ k.active < k.actual
           /\ k.heaps[k.active] # NoHeap /\ IsHeap(k.heaps[k.active])
<1>1. Placed(k.heaps) /\ HeapsSize \in Nat /\ HeapsSize >= 2
  BY LayoutTypes
<1>2. k.active \in {0, 1} /\ k.actual = HeapsSize
  BY DEF Open, InFirst, InSecond
<1>3. k.active \in 0 .. HeapsSize /\ k.active < k.actual
  BY <1>1, <1>2
<1>4. k.heaps[k.active].base # 0
  <2>1. InitialHeap # 0
    BY UnitsAssumption
  <2>2. InitPages * PageUnits + 1 # 0
    <3>1. InitPages \in Nat
      BY UnitsAssumption
    <3>2. InitPages * PageUnits \in Nat
      BY <3>1, PageProduct
    <3>. QED
      BY <3>2
  <2>. QED
    BY <2>1, <2>2 DEF Open, InFirst, InSecond, IsFirst, IsSecond
<1>5. k.heaps[k.active] # NoHeap
  BY <1>4 DEF NoHeap
<1>. QED
  BY <1>1, <1>2, <1>3, <1>5 DEF Placed

\* What a manager has.
Has(k, hs, actual, active, pages, mem) ==
    /\ k \in Managers
    /\ k.heaps = hs /\ k.actual = actual /\ k.active = active
    /\ k.pages = pages /\ k.mem = mem

Carvable(hs) == hs \in [0 .. HeapsSize -> Heap]

LEMMA ChangeHeaps ==
    ASSUME NEW k \in Managers, NEW hs, Carvable(hs), NEW n \in Nat
    PROVE  /\ Has([k EXCEPT !.active = n, !.heaps = hs], hs, k.actual, n, k.pages, k.mem)
           /\ Has([k EXCEPT !.pages = n, !.heaps = hs], hs, k.actual, k.active, n, k.mem)
  BY DEF Managers, Has, Carvable

LEMMA ChangeMemory ==
    ASSUME NEW k \in Managers, NEW mem \in Memories, NEW hs, Carvable(hs), NEW n \in Nat
    PROVE  /\ Has([k EXCEPT !.mem = mem], k.heaps, k.actual, k.active, k.pages, mem)
           /\ Has([k EXCEPT !.heaps = hs, !.mem = mem], hs, k.actual, k.active, k.pages, mem)
  BY DEF Managers, Has, Carvable

LEMMA ChangeNumbers ==
    ASSUME NEW k \in Managers, NEW n \in Nat, NEW l \in Nat
    PROVE  /\ Has([k EXCEPT !.active = n, !.actual = l], k.heaps, l, n, k.pages, k.mem)
           /\ Has([k EXCEPT !.pages = n], k.heaps, k.actual, k.active, n, k.mem)
  BY DEF Managers, Has

\* A heap at the cell start with room for units cells.
HeapAt(start, units) == [base |-> start, size |-> units, off |-> 0]

LEMMA HeapAtFields ==
    ASSUME NEW start \in Nat, NEW units \in Nat
    PROVE  /\ HeapAt(start, units).base = start /\ HeapAt(start, units).size = units
           /\ HeapAt(start, units).off = 0 /\ HeapAt(start, units) \in Heap
  BY DEF HeapAt, Heap

\* The host grants j pages, with which a second heap begins.
LEMMA SecondFields ==
    ASSUME NEW k, Layout(k), InFirst(k), NEW j \in Nat, j > 0,
           NEW start, start = k.pages * PageUnits + 1,
           NEW c, c = CleanupRemaining([k EXCEPT !.pages = k.pages + j]),
           c \in Managers, c.active = k.active,
           NEW g, g = NextActiveHeap(k, j)
    PROVE  /\ g \in Managers
           /\ g.actual = c.actual /\ g.active = 1 /\ g.pages = c.pages
           /\ g.mem = c.mem
           /\ \A i \in 0 .. HeapsSize : i # 1 => g.heaps[i] = c.heaps[i]
           /\ g.heaps[1] = HeapAt(start, j * PageUnits)
<1>1. /\ k \in Managers /\ k.pages \in Nat /\ k.active = 0
      /\ HeapsSize \in Nat /\ HeapsSize >= 2
      /\ InitPages <= k.pages /\ k.pages <= MaxPages
  BY LayoutTypes DEF InFirst
<1>2. PICK h : h = HeapAt(start, j * PageUnits)
  OBVIOUS
<1>3. h \in Heap
  <2>1. k.pages * PageUnits \in Nat /\ j * PageUnits \in Nat
    BY <1>1, PageProduct
  <2>2. start \in Nat
    BY <2>1
  <2>. QED
    BY <1>2, <2>1, <2>2, HeapAtFields
<1>4. EndOf(k.heaps[k.active]) # start
  <2>1. EndOf(k.heaps[0]) = InitialHeap + InitialSize
    BY DEF InFirst, IsFirst, EndOf
  <2>2. /\ InitialHeap + InitialSize < InitPages * PageUnits
        /\ InitPages * PageUnits <= k.pages * PageUnits
        /\ InitPages * PageUnits \in Nat /\ k.pages * PageUnits \in Nat
        /\ InitialHeap \in Nat /\ InitialSize \in Nat
    BY <1>1, HeapOrder
  <2>. QED
    BY <1>1, <2>1, <2>2
<1>5. PICK hs : hs = [c.heaps EXCEPT ![1] = h]
  OBVIOUS
<1>6. g = [c EXCEPT !.active = 1, !.heaps = hs]
  <2>1. k.active + 1 = 1 /\ j # 0
    BY <1>1
  <2>2. [k EXCEPT !.pages = @ + j] = [k EXCEPT !.pages = k.pages + j]
    BY <1>1 DEF Managers
  <2>3. g = [c EXCEPT !.active = 1, !.heaps[1] = h]
    BY <1>2, <1>4, <2>1, <2>2 DEF NextActiveHeap, HeapAt
  <2>4. "heaps" \in DOMAIN c /\ "active" \in DOMAIN c
    BY DEF Managers
  <2>. QED
    BY <1>5, <2>3, <2>4
<1>7. c.heaps \in [0 .. HeapsSize -> Heap] /\ 1 \in 0 .. HeapsSize
  <2>1. \A x \in Managers : x.heaps \in [0 .. HeapsSize -> Heap]
    BY DEF Managers
  <2>. QED
    BY <1>1, <2>1
<1>8. hs \in [0 .. HeapsSize -> Heap]
  BY <1>3, <1>5, <1>7
<1>9. /\ g \in Managers /\ g.heaps = hs
      /\ g.actual = c.actual /\ g.active = 1 /\ g.pages = c.pages
      /\ g.mem = c.mem
  <2>1. Has([c EXCEPT !.active = 1, !.heaps = hs], hs, c.actual, 1, c.pages, c.mem)
    BY <1>8, ChangeHeaps DEF Carvable
  <2>2. Has(g, hs, c.actual, 1, c.pages, c.mem)
    BY <1>6, <2>1, Zenon
  <2>. QED
    BY <2>2, Zenon DEF Has
<1>10. hs[1] = h /\ \A i \in 0 .. HeapsSize : i # 1 => hs[i] = c.heaps[i]
  BY <1>5, <1>7
<1>. QED
  BY <1>2, <1>9, <1>10

\* ... or the second heap grows.
LEMMA GrowsFields ==
    ASSUME NEW k, Layout(k), InSecond(k), NEW j \in Nat, j > 0, NEW g, g = NextActiveHeap(k, j)
    PROVE  /\ g \in Managers
           /\ g.actual = k.actual /\ g.active = 1 /\ g.pages = k.pages + j
           /\ g.mem = k.mem
           /\ \A i \in 0 .. HeapsSize : i # 1 => g.heaps[i] = k.heaps[i]
           /\ g.heaps[1].base = k.heaps[1].base /\ g.heaps[1].off = k.heaps[1].off
           /\ g.heaps[1].size = k.heaps[1].size + j * PageUnits
<1>1. /\ k \in Managers /\ k.pages \in Nat /\ k.active = 1
      /\ HeapsSize \in Nat /\ HeapsSize >= 2 /\ k.heaps \in [0 .. HeapsSize -> Heap]
  BY LayoutTypes DEF InSecond
<1>2. PICK h, u : h = k.heaps[1] /\ u = k.heaps[1].size + j * PageUnits
  OBVIOUS
<1>3. h \in Heap /\ 1 \in 0 .. HeapsSize
  BY <1>1, <1>2
<1>4. u \in Nat
  <2>1. j * PageUnits \in Nat
    BY PageProduct
  <2>. QED
    BY <1>2, <1>3, <2>1 DEF Heap
<1>5. PICK h2 : h2 = [h EXCEPT !.size = u]
  OBVIOUS
<1>6. h2 \in Heap /\ h2.base = h.base /\ h2.off = h.off /\ h2.size = u
  BY <1>3, <1>4, <1>5 DEF Heap
<1>7. PICK hs : hs = [k.heaps EXCEPT ![1] = h2]
  OBVIOUS
<1>8. g = [k EXCEPT !.pages = k.pages + j, !.heaps = hs]
  <2>1. EndOf(k.heaps[k.active]) = k.pages * PageUnits + 1 /\ j # 0
    BY <1>1 DEF InSecond, IsSecond
  <2>2. PICK grown : grown = [k EXCEPT !.pages = @ + j]
    OBVIOUS
  <2>3. g = [grown EXCEPT !.heaps[k.active].size = @ + j * PageUnits]
    BY <2>1, <2>2 DEF NextActiveHeap
  <2>4. /\ grown = [k EXCEPT !.pages = k.pages + j] /\ grown.heaps = k.heaps
        /\ "heaps" \in DOMAIN grown /\ "heaps" \in DOMAIN k
    BY <1>1, <2>2 DEF Managers
  <2>5. g = [grown EXCEPT !.heaps = [k.heaps EXCEPT ![1].size = k.heaps[1].size + j * PageUnits]]
    BY <1>1, <1>3, <2>3, <2>4 DEF Heap
  <2>6. [k.heaps EXCEPT ![1].size = k.heaps[1].size + j * PageUnits] = hs
    BY <1>1, <1>2, <1>3, <1>5, <1>7
  <2>7. g = [grown EXCEPT !.heaps = hs]
    BY <2>5, <2>6
  <2>. QED
    BY <2>4, <2>7
<1>9. hs \in [0 .. HeapsSize -> Heap]
  BY <1>1, <1>6, <1>7
<1>10. /\ g \in Managers /\ g.heaps = hs
       /\ g.actual = k.actual /\ g.active = 1 /\ g.pages = k.pages + j
       /\ g.mem = k.mem
  <2>1. k.pages + j \in Nat
    BY <1>1
  <2>2. Has([k EXCEPT !.pages = k.pages + j, !.heaps = hs],
            hs, k.actual, k.active, k.pages + j, k.mem)
    BY <1>1, <1>9, <2>1, ChangeHeaps DEF Carvable
  <2>3. Has(g, hs, k.actual, k.active, k.pages + j, k.mem)
    BY <1>8, <2>2, Zenon
  <2>. QED
    BY <1>1, <2>3, Zenon DEF Has
<1>11. hs[1] = h2 /\ \A i \in 0 .. HeapsSize : i # 1 => hs[i] = k.heaps[i]
  BY <1>1, <1>3, <1>7
<1>. QED
  BY <1>2, <1>6, <1>10, <1>11

\* next_active_heap while the host grants pages.
LEMMA NextMoves ==
    ASSUME NEW k, Layout(k), Open(k), NEW H, Divided(k.mem, k.heaps, H),
           NEW j \in Nat, k.pages + j <= MaxPages
    PROVE  /\ \E G : Moves(k, H, NextActiveHeap(k, j), G, {})
           /\ Open(NextActiveHeap(k, j))
<1>1. /\ k \in Managers /\ k.mem \in Memories /\ k.heaps \in [0 .. HeapsSize -> Heap]
      /\ k.actual \in Nat /\ k.active \in Nat /\ k.pages \in Nat
      /\ InitPages <= k.pages /\ k.pages <= MaxPages
      /\ \A i \in 0 .. HeapsSize : /\ k.heaps[i].base \in Nat /\ k.heaps[i].size \in Nat
                                   /\ k.heaps[i].off \in Nat
                                   /\ k.heaps[i].off <= k.heaps[i].size
      /\ Placed(k.heaps)
      /\ HeapsSize \in Nat /\ HeapsSize >= 2
  BY LayoutTypes
<1>2. PICK g : g = NextActiveHeap(k, j)
  OBVIOUS
<1>3. 0 \in 0 .. HeapsSize /\ 1 \in 0 .. HeapsSize /\ 2 .. HeapsSize \subseteq 0 .. HeapsSize
      /\ 0 \notin 2 .. HeapsSize /\ 1 \notin 2 .. HeapsSize
  BY <1>1
<1>4. \A i \in 2 .. HeapsSize : k.heaps[i] = NoHeap
  BY DEF Layout
<1>5. /\ InitPages * PageUnits \in Nat /\ k.pages * PageUnits \in Nat /\ j * PageUnits \in Nat
      /\ (k.pages + j) * PageUnits = k.pages * PageUnits + j * PageUnits
      /\ InitPages \in Nat
  BY <1>1, PageProduct, UnitsAssumption
<1>6. PICK units, u, v : /\ units = k.pages * PageUnits /\ u = j * PageUnits
                         /\ v = (k.pages + j) * PageUnits
  OBVIOUS
<1>7. units \in Nat /\ u \in Nat /\ v = units + u
  BY <1>5, <1>6
<1>8. CASE j = 0
  <2>1. g = k
    BY <1>2, <1>8 DEF NextActiveHeap
  <2>. QED
    BY <1>2, <2>1, Unmoved DEF Moves
<1>9. CASE j > 0 /\ InFirst(k)
  <2>1. PICK gr : gr = [k EXCEPT !.pages = k.pages + j]
    OBVIOUS
  <2>2. Has(gr, k.heaps, k.actual, k.active, k.pages + j, k.mem)
    <3>1. k.pages + j \in Nat
      BY <1>1
    <3>2. Has([k EXCEPT !.pages = k.pages + j], k.heaps, k.actual, k.active, k.pages + j, k.mem)
      BY <1>1, <3>1, ChangeNumbers
    <3>. QED
      BY <2>1, <3>2, Zenon
  <2>3. /\ gr \in Managers /\ gr.heaps = k.heaps /\ gr.mem = k.mem /\ gr.active = 0
        /\ gr.actual = HeapsSize /\ gr.pages = k.pages + j
    BY <1>9, <2>2 DEF Has, InFirst
  <2>4. PICK c : c = CleanupRemaining(gr)
    OBVIOUS
  <2>5. /\ Closed(gr, 0, c)
        /\ \E G : Divided(c.mem, c.heaps, G) /\ KeptAll(k.mem, Heads(H), c.mem, Heads(G), {})
    <3>1. IsHeap(gr.heaps[0]) /\ Placed(gr.heaps) /\ Divided(gr.mem, gr.heaps, H) /\ 0 = gr.active
      BY <1>1, <1>9, <2>3, OpenActive DEF InFirst
    <3>2. /\ Closed(gr, 0, CleanupRemaining(gr))
          /\ \E G : /\ Divided(CleanupRemaining(gr).mem, CleanupRemaining(gr).heaps, G)
                    /\ KeptAll(gr.mem, Heads(H), CleanupRemaining(gr).mem, Heads(G), {})
      BY <1>3, <2>3, <3>1, Cleaned
    <3>. QED
      BY <2>3, <2>4, <3>2
  <2>6. PICK G : Divided(c.mem, c.heaps, G) /\ KeptAll(k.mem, Heads(H), c.mem, Heads(G), {})
    BY <2>5
  <2>7. /\ c \in Managers /\ c.actual = HeapsSize /\ c.active = 0
        /\ c.pages = k.pages + j
        /\ \A i \in 0 .. HeapsSize : i # 0 => c.heaps[i] = k.heaps[i]
        /\ c.heaps[0].base = k.heaps[0].base /\ c.heaps[0].size = k.heaps[0].size
        /\ IsFull(c.heaps[0])
    BY <2>3, <2>5 DEF Closed
  <2>8. PICK start : start = k.pages * PageUnits + 1
    OBVIOUS
  <2>9. /\ g \in Managers
        /\ g.actual = c.actual /\ g.active = 1 /\ g.pages = c.pages
        /\ g.mem = c.mem
        /\ \A i \in 0 .. HeapsSize : i # 1 => g.heaps[i] = c.heaps[i]
        /\ g.heaps[1] = HeapAt(start, j * PageUnits)
    <3>1. c.active = k.active
      BY <1>9, <2>7 DEF InFirst
    <3>. QED
      BY <1>2, <1>9, <2>1, <2>4, <2>7, <2>8, <3>1, SecondFields
  <2>10. g.heaps[1].base = start /\ g.heaps[1].size = u /\ g.heaps[1].off = 0
    BY <1>6, <1>7, <2>8, <2>9, HeapAtFields
  <2>11. g.heaps[0] = c.heaps[0] /\ c.heaps[1] = NoHeap
    BY <1>3, <1>9, <2>7, <2>9 DEF InFirst
  <2>12. InSecond(g)
    <3>1. IsFirst(g.heaps[0]) /\ IsFull(g.heaps[0])
      BY <1>9, <2>7, <2>11 DEF InFirst, IsFirst
    <3>2. g.heaps[1].base = InitPages * PageUnits + 1
      BY <1>9, <2>8, <2>10 DEF InFirst
    <3>3. EndOf(g.heaps[1]) = g.pages * PageUnits + 1
      <4>1. EndOf(g.heaps[1]) = units + 1 + u
        BY <1>6, <2>8, <2>10 DEF EndOf
      <4>2. g.pages * PageUnits = v
        BY <1>6, <2>7, <2>9
      <4>. QED
        BY <1>7, <4>1, <4>2
    <3>. QED
      BY <2>7, <2>9, <3>1, <3>2, <3>3 DEF InSecond, IsSecond
  <2>13. Layout(g)
    <3>1. \A i \in 2 .. HeapsSize : g.heaps[i] = NoHeap
      BY <1>3, <1>4, <2>7, <2>9
    <3>2. \A i \in 0 .. HeapsSize : g.heaps[i].off <= g.heaps[i].size
      BY <1>1, <1>3, <1>7, <2>7, <2>9, <2>10, <2>11 DEF IsFull
    <3>3. InitPages <= g.pages /\ g.pages <= MaxPages
      BY <1>1, <1>5, <2>7, <2>9
    <3>. QED
      BY <2>9, <2>12, <3>1, <3>2, <3>3 DEF Layout
  <2>14. Divided(g.mem, g.heaps, G)
    <3>1. G[1] = {}
      BY <1>3, <2>6, <2>11, NoHeapEmpty DEF Divided
    <3>2. g.heaps[1].base = start /\ Carvings(g.heaps[1]) = start /\ start \in Nat
      BY <1>6, <1>7, <2>8, <2>10 DEF Carvings
    <3>3. Tiled(c.mem, start, start, {})
      BY <3>2, NoBlocks
    <3>. QED
      BY <2>6, <2>9, <3>1, <3>2, <3>3 DEF Divided
  <2>. QED
    BY <1>2, <2>6, <2>9, <2>12, <2>13, <2>14 DEF Moves, Open
<1>10. CASE j > 0 /\ InSecond(k)
  <2>1. /\ g \in Managers
        /\ g.actual = k.actual /\ g.active = 1 /\ g.pages = k.pages + j
        /\ g.mem = k.mem
        /\ \A i \in 0 .. HeapsSize : i # 1 => g.heaps[i] = k.heaps[i]
        /\ g.heaps[1].base = k.heaps[1].base /\ g.heaps[1].off = k.heaps[1].off
        /\ g.heaps[1].size = k.heaps[1].size + j * PageUnits
    BY <1>2, <1>10, GrowsFields
  <2>2. InSecond(g)
    <3>1. IsFirst(g.heaps[0]) /\ IsFull(g.heaps[0])
      BY <1>3, <1>10, <2>1 DEF InSecond
    <3>2. g.heaps[1].base = InitPages * PageUnits + 1
      BY <1>10, <2>1 DEF InSecond, IsSecond
    <3>3. EndOf(g.heaps[1]) = g.pages * PageUnits + 1
      <4>1. EndOf(k.heaps[1]) = units + 1
        BY <1>6, <1>10 DEF InSecond, IsSecond
      <4>2. EndOf(g.heaps[1]) = EndOf(k.heaps[1]) + u
        BY <1>1, <1>3, <1>6, <1>7, <2>1 DEF EndOf
      <4>3. g.pages * PageUnits = v
        BY <1>6, <2>1
      <4>. QED
        BY <1>7, <4>1, <4>2, <4>3
    <3>. QED
      BY <1>10, <2>1, <3>1, <3>2, <3>3 DEF InSecond, IsSecond
  <2>3. Layout(g)
    <3>1. \A i \in 2 .. HeapsSize : g.heaps[i] = NoHeap
      BY <1>3, <1>4, <2>1
    <3>2. g.heaps[1].off <= g.heaps[1].size
      BY <1>1, <1>3, <1>6, <1>7, <2>1
    <3>3. \A i \in 0 .. HeapsSize : g.heaps[i].off <= g.heaps[i].size
      BY <1>1, <2>1, <3>2
    <3>4. InitPages <= g.pages /\ g.pages <= MaxPages
      BY <1>1, <1>5, <2>1
    <3>. QED
      BY <2>1, <2>2, <3>1, <3>3, <3>4 DEF Layout
  <2>4. Divided(g.mem, g.heaps, H)
    <3>1. \A i \in 0 .. HeapsSize : /\ g.heaps[i].base = k.heaps[i].base
                                    /\ Carvings(g.heaps[i]) = Carvings(k.heaps[i])
      BY <2>1 DEF Carvings
    <3>. QED
      BY <2>1, <3>1 DEF Divided
  <2>. QED
    BY <1>2, <2>1, <2>2, <2>3, <2>4, Unmoved DEF Moves, Open
<1>. QED
  BY <1>8, <1>9, <1>10 DEF Open

\* ... and what it does before the program traps when the host refuses.
LEMMA CleanupMoves ==
    ASSUME NEW k, Layout(k), Open(k), NEW H, Divided(k.mem, k.heaps, H)
    PROVE  \E G : Moves(k, H, CleanupRemaining(k), G, {})
<1>1. /\ k \in Managers /\ k.mem \in Memories /\ k.heaps \in [0 .. HeapsSize -> Heap]
      /\ k.actual \in Nat /\ k.active \in Nat /\ k.pages \in Nat
      /\ InitPages <= k.pages /\ k.pages <= MaxPages
      /\ \A i \in 0 .. HeapsSize : /\ k.heaps[i].base \in Nat /\ k.heaps[i].size \in Nat
                                   /\ k.heaps[i].off \in Nat
                                   /\ k.heaps[i].off <= k.heaps[i].size
      /\ Placed(k.heaps)
      /\ HeapsSize \in Nat /\ HeapsSize >= 2
  BY LayoutTypes
<1>2. PICK i : i = k.active
  OBVIOUS
<1>3. i \in {0, 1} /\ i \in 0 .. HeapsSize /\ IsHeap(k.heaps[i])
  BY <1>2, OpenActive
<1>4. PICK c : c = CleanupRemaining(k)
  OBVIOUS
<1>5. /\ Closed(k, i, c)
      /\ \E G : Divided(c.mem, c.heaps, G) /\ KeptAll(k.mem, Heads(H), c.mem, Heads(G), {})
  BY <1>1, <1>2, <1>3, <1>4, Cleaned
<1>6. PICK G : Divided(c.mem, c.heaps, G) /\ KeptAll(k.mem, Heads(H), c.mem, Heads(G), {})
  BY <1>5
<1>7. /\ c \in Managers /\ c.actual = k.actual /\ c.active = k.active
      /\ c.pages = k.pages
      /\ \A j \in 0 .. HeapsSize : j # i => c.heaps[j] = k.heaps[j]
      /\ c.heaps[i].base = k.heaps[i].base /\ c.heaps[i].size = k.heaps[i].size
      /\ IsFull(c.heaps[i])
  BY <1>5 DEF Closed
<1>8. 0 \in 0 .. HeapsSize /\ 1 \in 0 .. HeapsSize /\ 2 .. HeapsSize \subseteq 0 .. HeapsSize
  BY <1>1
<1>9. \A j \in 2 .. HeapsSize : c.heaps[j] = NoHeap
  <2>1. \A j \in 2 .. HeapsSize : j # i /\ k.heaps[j] = NoHeap
    BY <1>3 DEF Layout
  <2>. QED
    BY <1>7, <1>8, <2>1
<1>10. \A j \in 0 .. HeapsSize : c.heaps[j].off <= c.heaps[j].size
  <2>1. c.heaps[i].off = c.heaps[i].size /\ c.heaps[i].size \in Nat
    BY <1>1, <1>3, <1>7 DEF IsFull
  <2>2. \A j \in 0 .. HeapsSize : j # i => c.heaps[j].off <= c.heaps[j].size
    BY <1>1, <1>7
  <2>. QED
    BY <2>1, <2>2
<1>11. CASE i = 0
  <2>1. InFirst(k)
    BY <1>2, <1>11 DEF Open, InSecond
  <2>2. InFirst(c)
    BY <1>7, <1>8, <1>11, <2>1 DEF InFirst, IsFirst
  <2>3. Layout(c)
    BY <1>1, <1>7, <1>9, <1>10, <2>2 DEF Layout
  <2>. QED
    BY <1>4, <1>6, <2>3 DEF Moves
<1>12. CASE i = 1
  <2>1. InSecond(k)
    BY <1>2, <1>12 DEF Open, InFirst
  <2>2. IsSecond(c.heaps[1], c.pages)
    BY <1>7, <1>8, <1>12, <2>1 DEF InSecond, IsSecond, EndOf
  <2>3. InSecond(c)
    BY <1>7, <1>8, <1>12, <2>1, <2>2 DEF InSecond
  <2>4. Layout(c)
    BY <1>1, <1>7, <1>9, <1>10, <2>3 DEF Layout
  <2>. QED
    BY <1>4, <1>6, <2>4 DEF Moves
<1>. QED
  BY <1>3, <1>11, <1>12

\* Going from k to g provides the block p of n cells, which was not allocated.
Provides(k, H, g, p, n) ==
    /\ p \in Nat /\ p # Null
    /\ \E G : /\ Moves(k, H, g, G, {p - 1})
              /\ p - 1 \in Heads(G) /\ g.mem[p - 1].alloc /\ g.mem[p - 1].size = n
    /\ p - 1 \in Heads(H) => ~k.mem[p - 1].alloc

\* The offset of heap i moves.
Shifted(k, i, off, k2) ==
    /\ k2 \in Managers
    /\ k2.actual = k.actual /\ k2.active = k.active /\ k2.pages = k.pages
    /\ \A j \in 0 .. HeapsSize : j # i => k2.heaps[j] = k.heaps[j]
    /\ k2.heaps[i].base = k.heaps[i].base /\ k2.heaps[i].size = k.heaps[i].size
    /\ k2.heaps[i].off = off

Shift(k, i, off, mem) == [k EXCEPT !.heaps[i].off = off, !.mem = mem]

LEMMA ShiftedFields ==
    ASSUME NEW k \in Managers, NEW i \in 0 .. HeapsSize, NEW off \in Nat, NEW mem \in Memories
    PROVE  Shifted(k, i, off, Shift(k, i, off, mem)) /\ Shift(k, i, off, mem).mem = mem
<1>1. k.heaps \in [0 .. HeapsSize -> Heap]
  BY DEF Managers
<1>2. PICK h : h = [k.heaps[i] EXCEPT !.off = off]
  OBVIOUS
<1>3. h \in Heap /\ h.base = k.heaps[i].base /\ h.size = k.heaps[i].size /\ h.off = off
  BY <1>1, <1>2 DEF Heap
<1>4. PICK hs : hs = [k.heaps EXCEPT ![i] = h]
  OBVIOUS
<1>5. /\ Carvable(hs) /\ hs[i] = h
      /\ \A j \in 0 .. HeapsSize : j # i => hs[j] = k.heaps[j]
  BY <1>1, <1>3, <1>4 DEF Carvable
<1>6. PICK k2 : k2 = [k EXCEPT !.heaps[i].off = off, !.mem = mem]
  OBVIOUS
<1>7. k2 = [k EXCEPT !.heaps = hs, !.mem = mem]
  BY <1>1, <1>2, <1>4, <1>6 DEF Managers
<1>8. Has([k EXCEPT !.heaps = hs, !.mem = mem], hs, k.actual, k.active, k.pages, mem)
  BY <1>5, ChangeMemory
<1>9. Has(k2, hs, k.actual, k.active, k.pages, mem)
  BY <1>7, <1>8, Zenon
<1>10. Shifted(k, i, off, k2) /\ k2.mem = mem
  BY <1>3, <1>5, <1>9 DEF Has, Shifted
<1>. QED
  BY <1>6, <1>10 DEF Shift

\* A move of the offset of the active heap keeps the layout.
LEMMA ShiftedLayout ==
    ASSUME NEW k, Layout(k), Open(k), NEW off \in Nat, off <= k.heaps[k.active].size,
           NEW g, Shifted(k, k.active, off, g)
    PROVE  Layout(g) /\ Open(g)
<1>1. /\ k.actual \in Nat /\ HeapsSize \in Nat /\ HeapsSize >= 2
      /\ InitPages <= k.pages /\ k.pages <= MaxPages
      /\ \A i \in 0 .. HeapsSize : k.heaps[i].off <= k.heaps[i].size
  BY LayoutTypes
<1>2. PICK i : i = k.active
  OBVIOUS
<1>3. i \in {0, 1} /\ i \in 0 .. HeapsSize
  BY <1>2, OpenActive
<1>4. /\ g \in Managers
      /\ g.actual = k.actual /\ g.active = k.active /\ g.pages = k.pages
      /\ \A j \in 0 .. HeapsSize : j # i => g.heaps[j] = k.heaps[j]
      /\ g.heaps[i].base = k.heaps[i].base /\ g.heaps[i].size = k.heaps[i].size
      /\ g.heaps[i].off = off
  BY <1>2 DEF Shifted
<1>5. 0 \in 0 .. HeapsSize /\ 1 \in 0 .. HeapsSize /\ 2 .. HeapsSize \subseteq 0 .. HeapsSize
  BY <1>1
<1>6. \A j \in 2 .. HeapsSize : g.heaps[j] = NoHeap
  <2>1. \A j \in 2 .. HeapsSize : j # i /\ k.heaps[j] = NoHeap
    BY <1>3 DEF Layout
  <2>. QED
    BY <1>4, <1>5, <2>1
<1>7. \A j \in 0 .. HeapsSize : g.heaps[j].off <= g.heaps[j].size
  BY <1>1, <1>2, <1>4
<1>8. CASE InFirst(k)
  <2>1. i = 0
    BY <1>2, <1>8 DEF InFirst
  <2>2. InFirst(g)
    BY <1>4, <1>5, <1>8, <2>1 DEF InFirst, IsFirst
  <2>. QED
    BY <1>1, <1>4, <1>6, <1>7, <2>2 DEF Layout, Open
<1>9. CASE InSecond(k)
  <2>1. i = 1
    BY <1>2, <1>9 DEF InSecond
  <2>2. InSecond(g)
    BY <1>4, <1>5, <1>9, <2>1 DEF InSecond, IsSecond, EndOf
  <2>. QED
    BY <1>1, <1>4, <1>6, <1>7, <2>2 DEF Layout, Open
<1>. QED
  BY <1>8, <1>9 DEF Open

\* memory::malloc in the active heap.
LEMMA CarveMoves ==
    ASSUME NEW k, Layout(k), Open(k), NEW H, Divided(k.mem, k.heaps, H), NEW n \in Nat,
           HasRoom(k, n)
    PROVE  Provides(k, H, Carve(k, n), Carved(k), n)
<1>1. /\ k \in Managers /\ k.mem \in Memories /\ Placed(k.heaps)
      /\ \A i \in 0 .. HeapsSize : /\ k.heaps[i].base \in Nat /\ k.heaps[i].size \in Nat
                                   /\ k.heaps[i].off \in Nat
  BY LayoutTypes
<1>2. PICK i : i = k.active
  OBVIOUS
<1>3. i \in {0, 1} /\ i \in 0 .. HeapsSize /\ IsHeap(k.heaps[i])
  BY <1>2, OpenActive
<1>4. PICK h, hs, mem : h = k.heaps[i] /\ hs = k.heaps /\ mem = k.mem
  OBVIOUS
<1>5. PICK a, off : a = Carvings(hs[i]) /\ off = h.off + n + 1
  OBVIOUS
<1>6. /\ h.base \in Nat /\ h.base >= 1 /\ h.size \in Nat /\ h.off \in Nat /\ h = hs[i]
      /\ off \in Nat /\ off <= h.size /\ a = h.base + h.off /\ a \in Nat
      /\ EndOf(hs[i]) = h.base + h.size /\ EndOf(hs[i]) <= Top + 1
  BY <1>1, <1>2, <1>3, <1>4, <1>5 DEF HasRoom, Carvings, EndOf, IsHeap
<1>7. a \in 1 .. Top /\ a + n + 1 <= EndOf(hs[i]) /\ a + 1 = Carved(k)
  BY <1>2, <1>4, <1>5, <1>6, TopType DEF Carved
<1>8. PICK mem2 : mem2 = Mark(mem, a + 1, n, TRUE)
  OBVIOUS
<1>9. Marked(mem, a, n, TRUE, mem2)
  <2>1. \A p : p = a + 1 => Marked(mem, a, n, TRUE, Mark(mem, p, n, TRUE))
    BY <1>1, <1>4, <1>7, Marks
  <2>. QED
    BY <1>8, <2>1
<1>10. mem2 \in Memories /\ mem2[a].alloc = TRUE /\ mem2[a].size = n
  BY <1>9 DEF Marked
<1>11. PICK g : g = Carve(k, n)
  OBVIOUS
<1>12. Shifted(k, i, off, g) /\ g.mem = mem2
  <2>1. g = Shift(k, i, off, mem2)
    BY <1>2, <1>4, <1>5, <1>6, <1>8, <1>11 DEF Carve, Shift
  <2>. HIDE <1>11
  <2>2. Shifted(k, i, off, Shift(k, i, off, mem2)) /\ Shift(k, i, off, mem2).mem = mem2
    <3>1. k \in Managers /\ i \in 0 .. HeapsSize /\ off \in Nat /\ mem2 \in Memories
      BY <1>1, <1>3, <1>6, <1>10
    <3>. QED
      BY <3>1, ShiftedFields
  <2>. QED
    BY <2>1, <2>2
<1>13. Layout(g) /\ Open(g)
  BY <1>2, <1>4, <1>6, <1>12, ShiftedLayout
<1>14. Adds(i, n, TRUE, mem, hs, g.mem, g.heaps)
  <2>1. /\ \A j \in 0 .. HeapsSize : j # i => g.heaps[j] = hs[j]
        /\ g.heaps[i].base = h.base /\ g.heaps[i].off = off
    BY <1>4, <1>12 DEF Shifted
  <2>2. Carvings(g.heaps[i]) = a + n + 1
    BY <1>5, <1>6, <2>1 DEF Carvings
  <2>3. IsHeap(hs[i])
    BY <1>3, <1>4
  <2>. QED
    BY <1>3, <1>5, <1>6, <1>7, <1>9, <1>12, <2>1, <2>2, <2>3 DEF Adds
<1>15. Placed(hs) /\ Divided(mem, hs, H) /\ mem \in Memories
  BY <1>1, <1>4
<1>16. PICK G : /\ Divided(g.mem, g.heaps, G)
                /\ KeptAll(mem, Heads(H), g.mem, Heads(G), {a})
                /\ a \in Heads(G) /\ a \notin Heads(H)
  BY <1>5, <1>14, <1>15, Added
<1>17. Moves(k, H, g, G, {a})
  BY <1>4, <1>13, <1>16 DEF Moves
<1>18. PICK p : p = Carved(k)
  OBVIOUS
<1>19. p \in Nat /\ p # Null /\ p - 1 = a
  BY <1>6, <1>7, <1>18 DEF Null
<1>20. Provides(k, H, g, p, n)
  BY <1>10, <1>12, <1>16, <1>17, <1>19 DEF Provides
<1>. QED
  BY <1>11, <1>18, <1>20

-----------------------------------------------------------------------------
(* The manager and the program.                                            *)

\* The blocks of manager k have the headers H, those allocated belong to the
\* program, but for the ones in X.
Sound(k, H, L, X) ==
    Layout(k) /\ Divided(k.mem, k.heaps, H) /\ Holds(k.mem, Heads(H), L, X)

LEMMA SoundApart ==
    ASSUME NEW k, NEW H, NEW L, NEW X, Sound(k, H, L, X)
    PROVE  Apart(k.mem, Heads(H)) /\ Placed(k.heaps) /\ k.mem \in Memories /\ k \in Managers
<1>1. Placed(k.heaps) /\ k.mem \in Memories /\ k \in Managers
  BY LayoutTypes DEF Sound
<1>2. Divided(k.mem, k.heaps, H)
  BY DEF Sound
<1>. QED
  BY <1>1, <1>2, DividedApart

LEMMA SoundMoves ==
    ASSUME NEW k, NEW H, NEW L, Sound(k, H, L, {}), NEW g, NEW G, Moves(k, H, g, G, {})
    PROVE  Sound(g, G, L, {})
<1>1. Holds(g.mem, Heads(G), L, {})
  <2>1. Apart(k.mem, Heads(H)) /\ Holds(k.mem, Heads(H), L, {})
    BY SoundApart DEF Sound
  <2>2. KeptAll(k.mem, Heads(H), g.mem, Heads(G), {})
    BY DEF Moves
  <2>. QED
    BY <2>1, <2>2, HoldsKept
<1>. QED
  BY <1>1 DEF Sound, Moves

\* The block p can be handed to the program, for n cells at least.
Ready(k, L, p, n) ==
    /\ p \in Nat /\ p # Null
    /\ \E H : Sound(k, H, L, {p - 1}) /\ n <= k.mem[p - 1].size

LEMMA SoundProvided ==
    ASSUME NEW k, NEW H, NEW L, Sound(k, H, L, {}), NEW g, NEW p, NEW n \in Nat,
           Provides(k, H, g, p, n)
    PROVE  Ready(g, L, p, n)
<1>1. PICK G : /\ Moves(k, H, g, G, {p - 1})
               /\ p - 1 \in Heads(G) /\ g.mem[p - 1].alloc /\ g.mem[p - 1].size = n
  BY DEF Provides
<1>2. p \in Nat /\ p # Null /\ (p - 1 \in Heads(H) => ~k.mem[p - 1].alloc)
  BY DEF Provides
<1>3. Apart(k.mem, Heads(H)) /\ Holds(k.mem, Heads(H), L, {})
  BY SoundApart DEF Sound
<1>4. KeptAll(k.mem, Heads(H), g.mem, Heads(G), {p - 1})
  BY <1>1 DEF Moves
<1>5. \A b \in L : b.ptr - 1 \notin {p - 1}
  BY <1>2, <1>3 DEF Holds
<1>6. \A a \in {p - 1} : a \in Heads(G) /\ g.mem[a].alloc
  BY <1>1
<1>7. Holds(g.mem, Heads(G), L, {p - 1})
  BY <1>3, <1>4, <1>5, <1>6, HoldsKept
<1>8. Sound(g, G, L, {p - 1})
  BY <1>1, <1>7 DEF Sound, Moves
<1>. QED
  BY <1>1, <1>2, <1>8 DEF Ready

\* A change of memory only.
LEMMA LayoutMemory ==
    ASSUME NEW k, Layout(k), NEW mem \in Memories, NEW g, g = [k EXCEPT !.mem = mem]
    PROVE  Layout(g) /\ g.mem = mem /\ g.heaps = k.heaps /\ g.actual = k.actual
<1>1. k \in Managers /\ k.heaps \in [0 .. HeapsSize -> Heap]
  BY LayoutTypes
<1>2. Has([k EXCEPT !.mem = mem], k.heaps, k.actual, k.active, k.pages, mem)
  <2>1. 0 \in Nat /\ Carvable(k.heaps)
    BY <1>1 DEF Carvable
  <2>. QED
    BY <1>1, <2>1, ChangeMemory
<1>3. Has(g, k.heaps, k.actual, k.active, k.pages, mem)
  BY <1>2, Zenon
<1>4. /\ g \in Managers /\ g.heaps = k.heaps /\ g.actual = k.actual /\ g.active = k.active
      /\ g.pages = k.pages /\ g.mem = mem
  BY <1>3, Zenon DEF Has
<1>5. \A x \in Managers : (x.heaps = k.heaps /\ x.actual = k.actual /\ x.active = k.active
                           /\ x.pages = k.pages) => Layout(x)
  BY DEF Layout, Fresh, InFirst, InSecond
<1>. QED
  BY <1>4, <1>5, Zenon

LEMMA FreeInNull ==
    ASSUME NEW k, Layout(k)
    PROVE  FreeIn(k, Null) = k
<1>1. \A i \in 0 .. HeapsSize : ~(Null >= k.heaps[i].base + 1)
  BY LayoutTypes DEF Null
<1>2. ~\E i \in 0 .. HeapsSize : IsHeapOf(k, i, Null)
  BY <1>1 DEF IsHeapOf, IsInHeap
<1>. QED
  BY <1>2 DEF FreeIn

\* free and realloc find the heap of a block the program holds.
LEMMA HeapFound ==
    ASSUME NEW k, NEW H, NEW L, NEW X, Sound(k, H, L, X), NEW d \in L, NEW p, p = d.ptr
    PROVE  \E i \in 0 .. HeapsSize : IsHeapOf(k, i, p) /\ p - 1 \in H[i]
<1>1. /\ Layout(k) /\ Placed(k.heaps) /\ k.mem \in Memories /\ Divided(k.mem, k.heaps, H)
      /\ Holds(k.mem, Heads(H), L, X)
  BY SoundApart DEF Sound
<1>2. /\ HeapsSize \in Nat /\ HeapsSize >= 2 /\ k.actual \in Nat
      /\ \A i \in 0 .. HeapsSize : k.heaps[i].base \in Nat
  BY <1>1, LayoutTypes
<1>3. PICK a : a = p - 1
  OBVIOUS
<1>4. /\ p \in Nat /\ a \in Heads(H) /\ d.size \in Nat \ {0} /\ d.size <= k.mem[a].size
  BY <1>1, <1>3 DEF Holds
<1>5. PICK i \in 0 .. HeapsSize : a \in H[i]
  BY <1>4, HeadsOf
<1>6. /\ a \in Nat /\ k.mem[a].size \in Nat /\ k.heaps[i].base <= a
      /\ After(k.mem, a) <= Carvings(k.heaps[i]) /\ Carvings(k.heaps[i]) <= EndOf(k.heaps[i])
      /\ Carvings(k.heaps[i]) \in Nat /\ EndOf(k.heaps[i]) \in Nat /\ k.heaps[i] # NoHeap
      /\ k.heaps[i].base \in Nat
  BY <1>1, <1>5, BlockOf
<1>7. p = a + 1
  BY <1>3, <1>4, <1>6
<1>8. IsInHeap(k.heaps[i], p)
  BY <1>4, <1>6, <1>7 DEF IsInHeap, After
<1>9. i \in {0, 1} /\ i < k.actual /\ (i = 1 => k.heaps[0].base # 0)
  <2>1. i = 0 \/ i = 1 \/ i \in 2 .. HeapsSize
    BY <1>2
  <2>2. i \notin 2 .. HeapsSize
    BY <1>1, <1>6 DEF Layout
  <2>3. InitialHeap # 0
    BY UnitsAssumption
  <2>4. Fresh(k) \/ InFirst(k) \/ InSecond(k)
    BY <1>1 DEF Layout
  <2>5. ~Fresh(k)
    BY <1>6, <2>1, <2>2 DEF Fresh
  <2>6. CASE InFirst(k) \/ InSecond(k)
    BY <1>2, <2>1, <2>2, <2>3, <2>6 DEF InFirst, InSecond, IsFirst
  <2>. QED
    BY <2>4, <2>5, <2>6
<1>10. ASSUME NEW j \in 0 .. i - 1
       PROVE  k.heaps[j].base # 0 /\ ~IsInHeap(k.heaps[j], p)
  <2>1. j = 0 /\ i = 1
    BY <1>9
  <2>2. j \in 0 .. HeapsSize /\ j < i
    BY <1>2, <2>1
  <2>3. EndOf(k.heaps[j]) < k.heaps[i].base
    BY <1>1, <1>5, <1>6, <2>2 DEF Placed
  <2>4. EndOf(k.heaps[j]) \in Nat
    BY <1>1, <2>2, LayoutTypes DEF EndOf
  <2>. QED
    BY <1>6, <1>7, <1>9, <2>1, <2>3, <2>4 DEF IsInHeap
<1>. QED
  BY <1>3, <1>5, <1>8, <1>9, <1>10 DEF IsHeapOf

LEMMA SoundFreed ==
    ASSUME NEW k, NEW H, NEW L, NEW X, Sound(k, H, L, X), NEW d \in L, NEW p, p = d.ptr,
           NEW g, g = FreeIn(k, p)
    PROVE  /\ Sound(g, H, Without(L, p), X)
           /\ \A x \in Heads(H) : g.mem[x].size = k.mem[x].size
<1>1. /\ Layout(k) /\ Placed(k.heaps) /\ k.mem \in Memories /\ Divided(k.mem, k.heaps, H)
      /\ Holds(k.mem, Heads(H), L, X) /\ Apart(k.mem, Heads(H))
  BY SoundApart DEF Sound
<1>2. PICK a, mem2 : a = p - 1 /\ mem2 = MarkFree(k.mem, p)
  OBVIOUS
<1>3. \E i \in 0 .. HeapsSize : IsHeapOf(k, i, p)
  BY HeapFound
<1>4. g = [k EXCEPT !.mem = mem2]
  BY <1>2, <1>3 DEF FreeIn
<1>5. p \in Nat /\ a \in Heads(H)
  BY <1>1, <1>2 DEF Holds
<1>6. /\ a \in Nat /\ a \in 1 .. Top /\ k.mem[a] \in Word /\ p = a + 1 /\ k.mem[a].size \in Nat
  BY <1>1, <1>2, <1>5 DEF Apart, Word
<1>7. Marked(k.mem, a, k.mem[a].size, FALSE, mem2)
  <2>1. Header(k.mem, p) = k.mem[a]
    BY <1>6, HeaderOf
  <2>2. mem2 = Mark(k.mem, p, k.mem[a].size, FALSE)
    BY <1>2, <2>1 DEF MarkFree
  <2>3. \A n \in Nat : Marked(k.mem, a, n, FALSE, Mark(k.mem, p, n, FALSE))
    BY <1>1, <1>6, Marks
  <2>. QED
    BY <1>6, <2>2, <2>3
<1>. HIDE <1>2
<1>8. /\ mem2 \in Memories
      /\ mem2[a] \in Word /\ mem2[a].size = k.mem[a].size /\ mem2[a].alloc = FALSE
      /\ \A c \in 1 .. Top : c # a => mem2[c] = k.mem[c]
  BY <1>7 DEF Marked
<1>9. Layout(g) /\ g.mem = mem2 /\ g.heaps = k.heaps
  BY <1>1, <1>4, <1>8, LayoutMemory
<1>10. Holds(mem2, Heads(H), Without(L, d.ptr), X)
  <2>1. a = d.ptr - 1
    BY <1>2
  <2>. QED
    BY <1>1, <1>7, <2>1, HoldsFreed
<1>11. ASSUME NEW i \in 0 .. HeapsSize, NEW x \in H[i]
       PROVE  mem2[x] \in Word /\ mem2[x].size = k.mem[x].size
  <2>1. x \in 1 .. Top /\ k.mem[x] \in Word
    BY <1>1, <1>11, BlockOf
  <2>. QED
    BY <1>8, <2>1
<1>12. Divided(mem2, k.heaps, H)
  <2>1. ASSUME NEW i \in 0 .. HeapsSize
        PROVE  Tiled(mem2, k.heaps[i].base, Carvings(k.heaps[i]), H[i])
    <3>1. Tiled(k.mem, k.heaps[i].base, Carvings(k.heaps[i]), H[i])
      BY <1>1 DEF Divided
    <3>. QED
      BY <1>11, <3>1, SameSizes
  <2>. QED
    BY <1>1, <2>1 DEF Divided
<1>13. Sound(g, H, Without(L, d.ptr), X)
  BY <1>9, <1>10, <1>12, Zenon DEF Sound
<1>14. \A x \in Heads(H) : mem2[x].size = k.mem[x].size
  BY <1>11, HeadsOf
<1>. QED
  BY <1>9, <1>13, <1>14, Zenon

LEMMA SoundWritten ==
    ASSUME NEW k, NEW H, NEW L, NEW p \in Nat, p # Null, Sound(k, H, L, {p - 1}),
           NEW n \in Nat \ {0}, n <= k.mem[p - 1].size
    PROVE  Sound(Written(k, p, n), H, L \cup {Block(p, n)}, {})
<1>1. /\ Layout(k) /\ k.mem \in Memories /\ Divided(k.mem, k.heaps, H)
      /\ Holds(k.mem, Heads(H), L, {p - 1}) /\ Apart(k.mem, Heads(H)) /\ Placed(k.heaps)
  BY SoundApart DEF Sound
<1>2. PICK a, mem : a = p - 1 /\ mem = k.mem
  OBVIOUS
<1>3. PICK mem2 : mem2 = [c \in 1 .. Top |-> IF c \in p .. p + n - 1 THEN Data ELSE mem[c]]
  OBVIOUS
<1>4. mem2 \in Memories /\ DOMAIN mem = 1 .. Top
  BY <1>1, <1>2, <1>3 DEF Memories
<1>5. PICK g : g = Written(k, p, n)
  OBVIOUS
<1>6. g = [k EXCEPT !.mem = mem2]
  <2>1. "mem" \in DOMAIN k
    BY <1>1 DEF Layout, Managers
  <2>. QED
    BY <1>2, <1>3, <1>4, <1>5, <2>1 DEF Written
<1>7. \A c \in 1 .. Top : mem2[c] = IF c \in p .. p + n - 1 THEN Data ELSE mem[c]
  BY <1>3
<1>. HIDE <1>3, <1>5
<1>8. Layout(g) /\ g.mem = mem2 /\ g.heaps = k.heaps
  BY <1>1, <1>4, <1>6, LayoutMemory
<1>. HIDE <1>6
<1>9. /\ Holds(mem2, Heads(H), L \cup {Block(p, n)}, {})
      /\ \A x \in Heads(H) : mem2[x] = mem[x]
  <2>1. p = a + 1 /\ n <= mem[a].size
    BY <1>2 DEF Null
  <2>2. Apart(mem, Heads(H)) /\ Holds(mem, Heads(H), L, {a})
    BY <1>1, <1>2
  <2>. QED
    BY <1>7, <2>1, <2>2, HoldsWritten
<1>10. Divided(mem2, k.heaps, H)
  <2>1. ASSUME NEW i \in 0 .. HeapsSize
        PROVE  Tiled(mem2, k.heaps[i].base, Carvings(k.heaps[i]), H[i])
    <3>1. Tiled(mem, k.heaps[i].base, Carvings(k.heaps[i]), H[i])
      BY <1>1, <1>2 DEF Divided
    <3>2. \A x \in H[i] : mem2[x] = mem[x]
      BY <1>9, HeadsOf
    <3>3. \A x \in H[i] : mem2[x] \in Word /\ mem2[x].size = mem[x].size
      BY <3>1, <3>2 DEF Tiled
    <3>. QED
      BY <3>1, <3>3, SameSizes
  <2>. QED
    BY <1>1, <2>1 DEF Divided
<1>11. Sound(g, H, L \cup {Block(p, n)}, {})
  BY <1>8, <1>9, <1>10, Zenon DEF Sound
<1>. QED
  BY <1>5, <1>11

LEMMA Adjusted ==
    ASSUME NEW n \in Nat, n # 0
    PROVE  AdjustToMemBlock(n) \in Nat \ {0} /\ n <= AdjustToMemBlock(n)
<1>1. CASE MemBlock = 1
  BY <1>1 DEF AdjustToMemBlock
<1>2. CASE MemBlock = 2
  BY <1>2 DEF AdjustToMemBlock
<1>. QED
  BY <1>1, <1>2, UnitsAssumption

\* The program holds what the manager has handed out, and nothing else.
Owns(k, L) == \E H : Sound(k, H, L, {})

LEMMA WithoutNull ==
    ASSUME NEW k, NEW H, NEW L, NEW X, Sound(k, H, L, X)
    PROVE  Without(L, Null) = L
  BY DEF Sound, Holds, Without, Null

\* The program gets the block p for n units and gives the block old back.
LEMMA OwnsAllocated ==
    ASSUME NEW k, NEW L, NEW p, NEW n \in Nat, n # 0, Ready(k, L, p, AdjustToMemBlock(n)),
           NEW old, old = Null \/ \E d \in L : d.ptr = old
    PROVE  Owns(Written(FreeIn(k, old), p, n), Without(L, old) \cup {Block(p, n)})
<1>1. p \in Nat /\ p # Null
  BY DEF Ready
<1>2. PICK H : Sound(k, H, L, {p - 1}) /\ AdjustToMemBlock(n) <= k.mem[p - 1].size
  BY DEF Ready
<1>3. Layout(k) /\ p - 1 \in Heads(H) /\ k.mem[p - 1].size \in Nat
  <2>1. Holds(k.mem, Heads(H), L, {p - 1}) /\ Apart(k.mem, Heads(H)) /\ Layout(k)
    BY <1>2, SoundApart DEF Sound
  <2>2. p - 1 \in Heads(H)
    BY <2>1 DEF Holds
  <2>. QED
    BY <2>1, <2>2 DEF Apart, Word
<1>4. n <= k.mem[p - 1].size
  BY <1>2, <1>3, Adjusted
<1>5. PICK g : g = FreeIn(k, old)
  OBVIOUS
<1>6. Sound(g, H, Without(L, old), {p - 1}) /\ g.mem[p - 1].size = k.mem[p - 1].size
  <2>1. CASE old = Null
    <3>1. g = k
      BY <1>3, <1>5, <2>1, FreeInNull
    <3>2. Without(L, old) = L
      BY <1>2, <2>1, WithoutNull
    <3>. QED
      BY <1>2, <3>1, <3>2
  <2>2. CASE \E d \in L : d.ptr = old
    <3>1. PICK d \in L : d.ptr = old
      BY <2>2
    <3>. QED
      BY <1>2, <1>3, <1>5, <3>1, SoundFreed
  <2>. QED
    BY <2>1, <2>2
<1>7. Sound(Written(g, p, n), H, Without(L, old) \cup {Block(p, n)}, {})
  BY <1>1, <1>4, <1>6, SoundWritten
<1>. QED
  BY <1>5, <1>7 DEF Owns

LEMMA OwnsFreed ==
    ASSUME NEW k, NEW L, Owns(k, L), NEW p, p = Null \/ \E d \in L : d.ptr = p
    PROVE  Owns(FreeIn(k, p), Without(L, p))
<1>1. PICK H : Sound(k, H, L, {})
  BY DEF Owns
<1>2. CASE p = Null
  <2>1. FreeIn(k, p) = k /\ Without(L, p) = L
    BY <1>1, <1>2, FreeInNull, WithoutNull DEF Sound
  <2>. QED
    BY <2>1
<1>3. CASE \E d \in L : d.ptr = p
  <2>1. PICK d \in L : d.ptr = p
    BY <1>3
  <2>2. PICK g : g = FreeIn(k, p)
    OBVIOUS
  <2>3. Sound(g, H, Without(L, p), {})
    BY <1>1, <2>1, <2>2, SoundFreed
  <2>. QED
    BY <2>2, <2>3 DEF Owns
<1>. QED
  BY <1>2, <1>3

-----------------------------------------------------------------------------
(* realloc_in_place.                                                       *)

\* A move of the offset of heap i keeps the layout when a full heap stays
\* full.
LEMMA ShiftedKeeps ==
    ASSUME NEW k, Layout(k), NEW i \in 0 .. HeapsSize, k.heaps[i] # NoHeap, NEW off \in Nat,
           off <= k.heaps[i].size, IsFull(k.heaps[i]) => off = k.heaps[i].size,
           NEW g, Shifted(k, i, off, g)
    PROVE  Layout(g)
<1>1. /\ HeapsSize \in Nat /\ HeapsSize >= 2
      /\ InitPages <= k.pages /\ k.pages <= MaxPages
      /\ \A j \in 0 .. HeapsSize : k.heaps[j].off <= k.heaps[j].size
      /\ \A j \in 2 .. HeapsSize : k.heaps[j] = NoHeap
      /\ Fresh(k) \/ InFirst(k) \/ InSecond(k)
  BY LayoutTypes DEF Layout
<1>2. /\ g \in Managers
      /\ g.actual = k.actual /\ g.active = k.active /\ g.pages = k.pages
      /\ \A j \in 0 .. HeapsSize : j # i => g.heaps[j] = k.heaps[j]
      /\ g.heaps[i].base = k.heaps[i].base /\ g.heaps[i].size = k.heaps[i].size
      /\ g.heaps[i].off = off
  BY DEF Shifted
<1>3. i = 0 \/ i = 1
  BY <1>1
<1>4. 0 \in 0 .. HeapsSize /\ 1 \in 0 .. HeapsSize /\ 2 .. HeapsSize \subseteq 0 .. HeapsSize
  BY <1>1
<1>5. \A j \in 2 .. HeapsSize : g.heaps[j] = NoHeap
  <2>1. \A j \in 2 .. HeapsSize : j # i /\ j \in 0 .. HeapsSize
    BY <1>3, <1>4
  <2>. QED
    BY <1>1, <1>2, <2>1
<1>6. \A j \in 0 .. HeapsSize : g.heaps[j].off <= g.heaps[j].size
  BY <1>1, <1>2
<1>7. \A j \in 0 .. HeapsSize : /\ k.heaps[j] = NoHeap => g.heaps[j] = NoHeap
                                /\ IsFirst(k.heaps[j]) => IsFirst(g.heaps[j])
                                /\ IsFull(k.heaps[j]) => IsFull(g.heaps[j])
                                /\ IsSecond(k.heaps[j], k.pages) => IsSecond(g.heaps[j], k.pages)
  BY <1>2 DEF IsFirst, IsFull, IsSecond, EndOf
<1>8. Fresh(g) \/ InFirst(g) \/ InSecond(g)
  <2>1. CASE Fresh(k)
    BY <1>2, <1>4, <1>7, <2>1 DEF Fresh
  <2>2. CASE InFirst(k)
    BY <1>2, <1>4, <1>7, <2>2 DEF InFirst
  <2>3. CASE InSecond(k)
    BY <1>2, <1>4, <1>7, <2>3 DEF InSecond
  <2>. QED
    BY <1>1, <2>1, <2>2, <2>3
<1>. QED
  BY <1>1, <1>2, <1>5, <1>6, <1>8 DEF Layout

\* Heap i changes but for its allocated blocks other than a.
Changes(i, lo, end, hs, mem, H, hs2, mem2, G, a) ==
    /\ \A j \in 0 .. HeapsSize : j # i => hs2[j] = hs[j]
    /\ Tiled(mem2, hs2[i].base, Carvings(hs2[i]), G)
    /\ lo = hs[i].base /\ end = EndOf(hs[i])
    /\ Kept(lo, end, mem, H[i], mem2, G, {a})
    /\ G \in SUBSET Nat
    /\ a \in G

LEMMA Changed ==
    ASSUME NEW hs, Placed(hs), NEW mem \in Memories, NEW H, Divided(mem, hs, H),
           NEW i \in 0 .. HeapsSize, IsHeap(hs[i]), NEW lo, NEW end, NEW hs2, NEW mem2,
           NEW G, NEW a, Changes(i, lo, end, hs, mem, H, hs2, mem2, G, a)
    PROVE  \E H2 : /\ Divided(mem2, hs2, H2)
                   /\ KeptAll(mem, Heads(H), mem2, Heads(H2), {a})
                   /\ a \in Heads(H2)
<1>1. G \in SUBSET Nat /\ a \in G /\ Kept(lo, end, mem, H[i], mem2, G, {a})
  BY DEF Changes
<1>2. Only(i, hs, mem, hs2, mem2, G)
  <2>1. \A c \in 1 .. Top : c \notin hs[i].base .. EndOf(hs[i]) - 1 => mem2[c] = mem[c]
    BY DEF Changes, Kept
  <2>. QED
    BY <2>1 DEF Only, Changes
<1>3. Divided(mem2, hs2, [H EXCEPT ![i] = G]) /\ Elsewhere(i, H, mem, mem2)
  BY <1>1, <1>2, OneHeap
<1>4. KeptAll(mem, Heads(H), mem2, Heads([H EXCEPT ![i] = G]), {a})
  BY <1>1, <1>3, OneHeapKept
<1>5. [H EXCEPT ![i] = G][i] = G
  BY DEF Divided
<1>6. a \in Heads([H EXCEPT ![i] = G])
  BY <1>1, <1>5, HeadsOf
<1>. QED
  BY <1>3, <1>4, <1>6

\* Writing into the cells of the block a.
LEMMA KeptInside ==
    ASSUME NEW lo, NEW hi, Bounds(lo, hi), NEW end \in Nat, hi <= end, end <= Top + 1,
           NEW mem \in Memories, NEW H, Tiled(mem, lo, hi, H), NEW a \in H,
           NEW mem1, NEW G, Kept(lo, end, mem, H, mem1, G, {a}), G \subseteq 1 .. Top,
           NEW mem2, NEW x \in Nat, a <= x, x < After(mem, a), x = a \/ x \notin G,
           \A c \in 1 .. Top : c # x => mem2[c] = mem1[c]
    PROVE  Kept(lo, end, mem, H, mem2, G, {a})
<1>1. /\ a \in Nat /\ a \in 1 .. Top /\ lo <= a /\ a < hi /\ After(mem, a) \in Nat
      /\ After(mem, a) <= hi /\ lo \in Nat /\ hi \in Nat
  BY Ends DEF Bounds
<1>2. ASSUME NEW b \in H \ {a}, mem[b].alloc
      PROVE  b \in G /\ \A c \in b .. b + mem[b].size : mem2[c] = mem[c]
  <2>1. b \in G /\ \A c \in b .. b + mem[b].size : mem1[c] = mem[c]
    BY <1>2 DEF Kept
  <2>2. b \in Nat /\ b >= 1 /\ mem[b].size \in Nat /\ After(mem, b) <= hi
    BY Ends
  <2>3. (b < a => After(mem, b) <= a) /\ (a < b => After(mem, a) <= b)
    BY <1>2 DEF Tiled
  <2>4. \A c \in b .. b + mem[b].size : c \in 1 .. Top /\ c # x
    BY <1>1, <1>2, <2>2, <2>3, TopType DEF After
  <2>. QED
    BY <2>1, <2>4
<1>3. \A b \in G \ {a} : mem2[b].alloc => b \in H /\ mem[b].alloc
  BY DEF Kept
<1>4. \A c \in 1 .. Top : c \notin lo .. end - 1 => mem2[c] = mem[c]
  BY <1>1 DEF Kept
<1>. QED
  BY <1>2, <1>3, <1>4 DEF Kept

\* The header a of an allocated block in heap i.
Lies(k, H, i, a) ==
    /\ Layout(k) /\ Divided(k.mem, k.heaps, H)
    /\ i \in 0 .. HeapsSize /\ a \in H[i] /\ k.mem[a].alloc

\* The block with the header a gets n cells at least.
Resizes(k, H, g, a, n) ==
    \E G : /\ Moves(k, H, g, G, {a})
           /\ a \in Heads(G) /\ g.mem[a].alloc /\ n <= g.mem[a].size

LEMMA LiesFacts ==
    ASSUME NEW k, NEW H, NEW i, NEW a, Lies(k, H, i, a)
    PROVE  /\ Layout(k) /\ Divided(k.mem, k.heaps, H) /\ Placed(k.heaps)
           /\ k.mem \in Memories /\ k \in Managers
           /\ i \in 0 .. HeapsSize /\ a \in H[i] /\ k.mem[a].alloc
           /\ IsHeap(k.heaps[i]) /\ Bounds(k.heaps[i].base, Carvings(k.heaps[i]))
           /\ Carvings(k.heaps[i]) \in Nat /\ EndOf(k.heaps[i]) \in Nat
           /\ k.heaps[i].base \in Nat /\ EndOf(k.heaps[i]) <= Top + 1
           /\ k.heaps[i].off \in Nat /\ k.heaps[i].size \in Nat
           /\ Carvings(k.heaps[i]) <= EndOf(k.heaps[i]) /\ k.heaps[i] # NoHeap
           /\ Tiled(k.mem, k.heaps[i].base, Carvings(k.heaps[i]), H[i])
           /\ a \in Nat /\ a \in 1 .. Top /\ k.mem[a] \in Word /\ k.mem[a].size \in Nat
           /\ After(k.mem, a) \in Nat /\ a < After(k.mem, a)
           /\ After(k.mem, a) <= Carvings(k.heaps[i])
           /\ Header(k.mem, a + 1) = k.mem[a]
<1>1. /\ Layout(k) /\ Divided(k.mem, k.heaps, H) /\ Placed(k.heaps)
      /\ k.mem \in Memories /\ k \in Managers
      /\ i \in 0 .. HeapsSize /\ a \in H[i] /\ k.mem[a].alloc
      /\ k.heaps[i].off \in Nat /\ k.heaps[i].size \in Nat
  BY LayoutTypes DEF Lies
<1>2. /\ IsHeap(k.heaps[i]) /\ Bounds(k.heaps[i].base, Carvings(k.heaps[i]))
      /\ Carvings(k.heaps[i]) \in Nat /\ EndOf(k.heaps[i]) \in Nat
      /\ k.heaps[i].base \in Nat
      /\ Carvings(k.heaps[i]) <= EndOf(k.heaps[i]) /\ k.heaps[i] # NoHeap
      /\ Tiled(k.mem, k.heaps[i].base, Carvings(k.heaps[i]), H[i])
      /\ a \in Nat /\ a \in 1 .. Top /\ k.mem[a] \in Word /\ k.mem[a].size \in Nat
      /\ After(k.mem, a) \in Nat /\ a < After(k.mem, a)
      /\ After(k.mem, a) <= Carvings(k.heaps[i])
  BY <1>1, BlockOf
<1>3. EndOf(k.heaps[i]) <= Top + 1
  BY <1>2 DEF IsHeap
<1>4. Header(k.mem, a + 1) = k.mem[a]
  BY <1>2, HeaderOf
<1>. QED
  BY <1>1, <1>2, <1>3, <1>4

\* The memory of heap i changes.
Rewrites(k, H, i, a, n, mem2, G) ==
    /\ Lies(k, H, i, a)
    /\ mem2 \in Memories
    /\ Tiled(mem2, k.heaps[i].base, Carvings(k.heaps[i]), G)
    /\ a \in G
    /\ Kept(k.heaps[i].base, EndOf(k.heaps[i]), k.mem, H[i], mem2, G, {a})
    /\ mem2[a].alloc /\ n <= mem2[a].size

LEMMA Rewritten ==
    ASSUME NEW k, NEW H, NEW i, NEW a, NEW n, NEW mem2, NEW G, Rewrites(k, H, i, a, n, mem2, G)
    PROVE  Resizes(k, H, [k EXCEPT !.mem = mem2], a, n)
<1>1. /\ Lies(k, H, i, a) /\ mem2 \in Memories
      /\ Tiled(mem2, k.heaps[i].base, Carvings(k.heaps[i]), G) /\ a \in G
      /\ Kept(k.heaps[i].base, EndOf(k.heaps[i]), k.mem, H[i], mem2, G, {a})
      /\ mem2[a].alloc /\ n <= mem2[a].size
  BY DEF Rewrites
<1>2. /\ Layout(k) /\ Divided(k.mem, k.heaps, H) /\ Placed(k.heaps)
      /\ k.mem \in Memories /\ i \in 0 .. HeapsSize /\ IsHeap(k.heaps[i])
      /\ Bounds(k.heaps[i].base, Carvings(k.heaps[i]))
  BY <1>1, LiesFacts
<1>3. PICK lo, end : lo = k.heaps[i].base /\ end = EndOf(k.heaps[i])
  OBVIOUS
<1>4. G \in SUBSET Nat
  BY <1>1, <1>2, Inside
<1>5. Changes(i, lo, end, k.heaps, k.mem, H, k.heaps, mem2, G, a)
  BY <1>1, <1>3, <1>4 DEF Changes
<1>6. PICK H2 : /\ Divided(mem2, k.heaps, H2)
                /\ KeptAll(k.mem, Heads(H), mem2, Heads(H2), {a})
                /\ a \in Heads(H2)
  BY <1>2, <1>5, Changed
<1>7. PICK g : g = [k EXCEPT !.mem = mem2]
  OBVIOUS
<1>8. Layout(g) /\ g.mem = mem2 /\ g.heaps = k.heaps
  BY <1>1, <1>2, <1>7, LayoutMemory
<1>. HIDE <1>7
<1>9. Resizes(k, H, g, a, n)
  BY <1>1, <1>6, <1>8 DEF Resizes, Moves
<1>. QED
  BY <1>7, <1>9

\* The block shrinks: the header of the excess is written into it.
LEMMA ShrinkMoves ==
    ASSUME NEW k, NEW H, NEW i, NEW a, Lies(k, H, i, a), NEW p, p = a + 1,
           NEW n \in Nat, n < k.mem[a].size
    PROVE  Resizes(k, H, [k EXCEPT !.mem = Mark(k.mem, p + n + 1, k.mem[a].size - n, FALSE)], a, n)
<1>1. PICK hs, mem, lo, hi, end : /\ hs = k.heaps /\ mem = k.mem
                                  /\ lo = k.heaps[i].base /\ hi = Carvings(k.heaps[i])
                                  /\ end = EndOf(k.heaps[i])
  OBVIOUS
<1>2. /\ mem \in Memories /\ Bounds(lo, hi) /\ hi \in Nat /\ end \in Nat /\ hi <= end
      /\ end <= Top + 1 /\ lo \in Nat /\ Tiled(mem, lo, hi, H[i]) /\ a \in H[i]
      /\ a \in Nat /\ a \in 1 .. Top /\ mem[a] \in Word /\ mem[a].size \in Nat
      /\ After(mem, a) \in Nat /\ After(mem, a) <= hi /\ mem[a].alloc
  BY <1>1, LiesFacts
<1>3. PICK x, s : x = p + n /\ s = mem[a].size - n
  OBVIOUS
<1>4. x \in Nat /\ a < x /\ x < After(mem, a) /\ s \in Nat /\ x \in 1 .. Top
  BY <1>1, <1>2, <1>3, TopType DEF After
<1>5. PICK mem2 : mem2 = Mark(mem, x + 1, s, FALSE)
  OBVIOUS
<1>6. Marked(mem, x, s, FALSE, mem2)
  <2>1. \A q : q = x + 1 => Marked(mem, x, s, FALSE, Mark(mem, q, s, FALSE))
    BY <1>2, <1>4, Marks
  <2>. QED
    BY <1>5, <2>1
<1>7. mem2 \in Memories /\ \A c \in 1 .. Top : c # x => mem2[c] = mem[c]
  BY <1>6 DEF Marked
<1>8. \A b \in H[i] : b \in Nat /\ b \in 1 .. Top
  BY <1>2, Inside
<1>9. x \notin H[i]
  BY <1>2, <1>4 DEF Tiled
<1>10. Kept(lo, end, mem, H[i], mem, H[i], {a})
  BY DEF Kept
<1>11. Kept(lo, end, mem, H[i], mem2, H[i], {a})
  <2>1. H[i] \subseteq 1 .. Top /\ a <= x
    BY <1>2, <1>4, <1>8
  <2>. QED
    BY <1>2, <1>4, <1>7, <1>9, <1>10, <2>1, KeptInside
<1>12. Tiled(mem2, lo, hi, H[i])
  <2>1. \A b \in H[i] : mem2[b] \in Word /\ mem2[b].size = mem[b].size
    BY <1>2, <1>7, <1>8, <1>9 DEF Tiled
  <2>. QED
    BY <1>2, <2>1, SameSizes
<1>13. mem2[a].alloc /\ n <= mem2[a].size
  BY <1>1, <1>2, <1>4, <1>7
<1>14. Rewrites(k, H, i, a, n, mem2, H[i])
  BY <1>1, <1>2, <1>7, <1>11, <1>12, <1>13 DEF Rewrites
<1>15. Resizes(k, H, [k EXCEPT !.mem = mem2], a, n)
  BY <1>14, Rewritten
<1>. QED
  BY <1>1, <1>3, <1>5, <1>15

\* The last block of a heap grows, and the offset with it.
LEMMA StretchMoves ==
    ASSUME NEW k, NEW H, NEW i, NEW a, Lies(k, H, i, a), NEW p, p = a + 1,
           NEW n \in Nat, k.mem[a].size <= n, p + n <= EndOf(k.heaps[i]),
           p + k.mem[a].size = Carvings(k.heaps[i])
    PROVE  Resizes(k, H, Shift(k, i, k.heaps[i].off + n - k.mem[a].size, Mark(k.mem, p, n, TRUE)), a, n)
<1>1. PICK hs, mem, lo, hi, end : /\ hs = k.heaps /\ mem = k.mem
                                  /\ lo = k.heaps[i].base /\ hi = Carvings(k.heaps[i])
                                  /\ end = EndOf(k.heaps[i])
  OBVIOUS
<1>2. /\ mem \in Memories /\ Bounds(lo, hi) /\ hi \in Nat /\ end \in Nat /\ hi <= end
      /\ end <= Top + 1 /\ lo \in Nat /\ Tiled(mem, lo, hi, H[i]) /\ a \in H[i]
      /\ a \in Nat /\ a \in 1 .. Top /\ mem[a] \in Word /\ mem[a].size \in Nat
      /\ After(mem, a) \in Nat /\ a < After(mem, a) /\ After(mem, a) <= hi /\ mem[a].alloc
      /\ i \in 0 .. HeapsSize /\ IsHeap(hs[i]) /\ hs[i] # NoHeap
      /\ Layout(k) /\ k \in Managers /\ Placed(hs) /\ Divided(mem, hs, H)
      /\ hs[i].off \in Nat /\ hs[i].size \in Nat
  BY <1>1, LiesFacts
<1>3. PICK off, mem2 : off = hs[i].off + n - mem[a].size /\ mem2 = Mark(mem, p, n, TRUE)
  OBVIOUS
<1>4. /\ hi = lo + hs[i].off /\ end = lo + hs[i].size /\ After(mem, a) = hi
      /\ mem[a].size <= n /\ a + 1 + n <= end
  BY <1>1, <1>2 DEF Carvings, EndOf, After
<1>5. /\ off \in Nat /\ off <= hs[i].size
      /\ lo + off = a + n + 1 /\ (IsFull(hs[i]) => off = hs[i].size)
  BY <1>2, <1>3, <1>4 DEF IsFull, After
<1>6. Marked(mem, a, n, TRUE, mem2)
  BY <1>2, <1>3, Marks
<1>7. /\ mem2 \in Memories /\ mem2[a] \in Word /\ mem2[a].size = n /\ mem2[a].alloc = TRUE
      /\ \A c \in 1 .. Top : c # a => mem2[c] = mem[c]
  BY <1>6 DEF Marked
<1>8. PICK g : g = Shift(k, i, off, mem2)
  OBVIOUS
<1>9. Shifted(k, i, off, g) /\ g.mem = mem2
  BY <1>2, <1>5, <1>7, <1>8, ShiftedFields
<1>. HIDE <1>8
<1>10. Layout(g)
  BY <1>1, <1>2, <1>5, <1>9, ShiftedKeeps
<1>11. \A b \in H[i] : b \in Nat /\ b \in 1 .. Top
  BY <1>2, Inside
<1>12. Kept(lo, end, mem, H[i], mem, H[i], {a})
  BY DEF Kept
<1>13. Kept(lo, end, mem, H[i], mem2, H[i], {a})
  <2>1. H[i] \subseteq 1 .. Top /\ a <= a
    BY <1>2, <1>11
  <2>. QED
    BY <1>2, <1>7, <1>12, <2>1, KeptInside
<1>14. Tiled(mem2, lo, lo + off, H[i])
  <2>1. After(mem2, a) = lo + off /\ lo + off \in Nat /\ hi <= lo + off
    BY <1>2, <1>4, <1>5, <1>7 DEF After
  <2>2. \A b \in H[i] : b # a => mem2[b] = mem[b]
    BY <1>7, <1>11
  <2>. QED
    BY <1>2, <1>4, <1>7, <2>1, <2>2, Stretch
<1>15. Changes(i, lo, end, hs, mem, H, g.heaps, mem2, H[i], a)
  <2>1. /\ \A j \in 0 .. HeapsSize : j # i => g.heaps[j] = hs[j]
        /\ g.heaps[i].base = lo /\ g.heaps[i].off = off
    BY <1>1, <1>9 DEF Shifted
  <2>2. Carvings(g.heaps[i]) = lo + off
    BY <2>1 DEF Carvings
  <2>3. H[i] \in SUBSET Nat
    BY <1>11
  <2>. QED
    BY <1>1, <1>2, <1>13, <1>14, <2>1, <2>2, <2>3 DEF Changes
<1>16. PICK H2 : /\ Divided(mem2, g.heaps, H2)
                 /\ KeptAll(mem, Heads(H), mem2, Heads(H2), {a})
                 /\ a \in Heads(H2)
  BY <1>2, <1>15, Changed
<1>17. Moves(k, H, g, H2, {a})
  BY <1>1, <1>9, <1>10, <1>16 DEF Moves
<1>18. Resizes(k, H, g, a, n)
  BY <1>7, <1>9, <1>16, <1>17 DEF Resizes
<1>. QED
  BY <1>1, <1>3, <1>8, <1>18

\* Free blocks behind the block are joined with it.
LEMMA MergeMoves ==
    ASSUME NEW k, NEW H, NEW i, NEW a, Lies(k, H, i, a), NEW p, p = a + 1,
           NEW n \in Nat, p + n <= Carvings(k.heaps[i]),
           NEW r, r = Merge(k.mem, p, EndOf(k.heaps[i]), n), r.ok
    PROVE  Resizes(k, H, [k EXCEPT !.mem = MarkAlloc(r.mem, p)], a, n)
<1>1. PICK mem, lo, hi, end : /\ mem = k.mem
                              /\ lo = k.heaps[i].base /\ hi = Carvings(k.heaps[i])
                              /\ end = EndOf(k.heaps[i])
  OBVIOUS
<1>2. /\ mem \in Memories /\ Bounds(lo, hi) /\ hi \in Nat /\ end \in Nat /\ hi <= end
      /\ end <= Top + 1 /\ lo \in Nat /\ Tiled(mem, lo, hi, H[i]) /\ a \in H[i]
      /\ a \in Nat /\ a \in 1 .. Top /\ mem[a] \in Word /\ mem[a].size \in Nat
      /\ After(mem, a) \in Nat /\ a < After(mem, a) /\ After(mem, a) <= hi /\ mem[a].alloc
  BY <1>1, LiesFacts
<1>3. Limited(hi, end, p, n)
  BY <1>1, <1>2 DEF Limited
<1>4. PICK mem1 : mem1 = r.mem
  OBVIOUS
<1>5. ~GivesUp(mem, p, end, n)
  <2>1. ASSUME GivesUp(mem, p, end, n)
        PROVE  Merge(mem, p, end, n) = [ok |-> FALSE, mem |-> mem]
    BY <2>1 DEF GivesUp, Merge
  <2>2. [ok |-> FALSE, mem |-> mem].ok = FALSE
    BY Fields
  <2>. QED
    BY <1>1, <2>1, <2>2
<1>6. MergesTo(lo, hi, mem, H[i], a, n, mem1)
  <2>1. r = Merge(mem, p, end, n)
    BY <1>1
  <2>. QED
    BY <1>2, <1>3, <1>4, <1>5, <2>1, Merged, Zenon
<1>. HIDE <1>4
<1>7. PICK G : Redivided(lo, hi, mem, H[i], mem1, G, a)
  BY <1>6 DEF MergesTo
<1>8. mem1 \in Memories /\ mem1[a] \in Word /\ mem1[a].size = n
  BY <1>6 DEF MergesTo
<1>9. /\ Tiled(mem1, lo, hi, G) /\ Kept(lo, hi, mem, H[i], mem1, G, {a})
      /\ SameTo(a, H[i], G)
  BY <1>7 DEF Redivided
<1>10. a \in G
  BY <1>2, <1>9 DEF SameTo
<1>11. PICK mem2 : mem2 = MarkAlloc(mem1, p)
  OBVIOUS
<1>12. Marked(mem1, a, n, TRUE, mem2)
  <2>1. Header(mem1, p) = mem1[a]
    BY <1>2, <1>8, HeaderOf
  <2>2. mem2 = Mark(mem1, p, n, TRUE)
    BY <1>8, <1>11, <2>1 DEF MarkAlloc
  <2>. QED
    BY <1>2, <1>8, <2>2, Marks
<1>13. /\ mem2 \in Memories /\ mem2[a] \in Word /\ mem2[a].size = n /\ mem2[a].alloc = TRUE
       /\ \A c \in 1 .. Top : c # a => mem2[c] = mem1[c]
  BY <1>12 DEF Marked
<1>14. \A b \in G : b \in 1 .. Top
  BY <1>2, <1>9, Inside
<1>15. Kept(lo, end, mem, H[i], mem1, G, {a})
  <2>1. \A c \in 1 .. Top : c \notin lo .. end - 1 => mem1[c] = mem[c]
    BY <1>2, <1>9 DEF Kept
  <2>. QED
    BY <1>9, <2>1 DEF Kept
<1>16. Kept(lo, end, mem, H[i], mem2, G, {a})
  <2>1. G \subseteq 1 .. Top /\ a <= a
    BY <1>2, <1>14
  <2>. QED
    BY <1>2, <1>13, <1>15, <2>1, KeptInside
<1>17. Tiled(mem2, lo, hi, G)
  <2>1. \A b \in G : mem2[b] \in Word /\ mem2[b].size = mem1[b].size
    BY <1>8, <1>9, <1>13, <1>14 DEF Tiled
  <2>. QED
    BY <1>9, <2>1, SameSizes
<1>18. Rewrites(k, H, i, a, n, mem2, G)
  BY <1>1, <1>10, <1>13, <1>16, <1>17 DEF Rewrites
<1>19. Resizes(k, H, [k EXCEPT !.mem = mem2], a, n)
  BY <1>18, Rewritten
<1>. QED
  BY <1>4, <1>11, <1>19, Zenon

LEMMA SameMoves ==
    ASSUME NEW k, NEW H, NEW i, NEW a, Lies(k, H, i, a)
    PROVE  Resizes(k, H, k, a, k.mem[a].size)
<1>1. Layout(k) /\ Divided(k.mem, k.heaps, H) /\ a \in H[i] /\ i \in 0 .. HeapsSize /\ k.mem[a].alloc
      /\ k.mem[a].size \in Nat
  BY LiesFacts
<1>2. KeptAll(k.mem, Heads(H), k.mem, Heads(H), {a})
  BY DEF KeptAll
<1>3. a \in Heads(H)
  BY <1>1, HeadsOf
<1>. QED
  BY <1>1, <1>2, <1>3 DEF Resizes, Moves

\* realloc_in_place, when it does not let a block grow past what was carved
\* off its heap.
LEMMA ReallocMoves ==
    ASSUME NEW k, NEW H, NEW i, NEW a, Lies(k, H, i, a), NEW p, p = a + 1, NEW n \in Nat,
           p + k.mem[a].size = Carvings(k.heaps[i]) \/ p + n <= Carvings(k.heaps[i]),
           NEW r, r = ReallocInPlace(k, i, p, n), r.ok
    PROVE  Resizes(k, H, r.k, a, n)
<1>1. PICK h, orig, q : /\ h = k.heaps[i] /\ orig = k.mem[a].size
                        /\ q = Merge(k.mem, p, EndOf(k.heaps[i]), n)
  OBVIOUS
<1>2. /\ Header(k.mem, p) = k.mem[a] /\ k.mem[a].size \in Nat /\ a \in Nat /\ k \in Managers
      /\ k.heaps \in [0 .. HeapsSize -> Heap] /\ i \in 0 .. HeapsSize /\ EndOf(h) \in Nat
      /\ Carvings(h) \in Nat
  BY <1>1, LiesFacts DEF Managers
<1>3. PICK k1, k2, k3 : /\ k1 = [k EXCEPT !.mem = Mark(k.mem, p + n + 1, orig - n, FALSE)]
                        /\ k2 = Shift(k, i, h.off + n - orig, Mark(k.mem, p, n, TRUE))
                        /\ k3 = [k EXCEPT !.mem = MarkAlloc(q.mem, p)]
  OBVIOUS
<1>4. r = IF p + orig > EndOf(h) \/ p + n > EndOf(h) THEN [ok |-> FALSE, k |-> k]
          ELSE IF orig > n THEN [ok |-> TRUE, k |-> k1]
          ELSE IF p + orig = h.base + h.off THEN [ok |-> TRUE, k |-> k2]
          ELSE IF orig = n THEN [ok |-> TRUE, k |-> k]
          ELSE IF q.ok THEN [ok |-> TRUE, k |-> k3]
          ELSE [ok |-> FALSE, k |-> k]
  <2>1. "heaps" \in DOMAIN k /\ "mem" \in DOMAIN k
    BY <1>2 DEF Managers
  <2>2. k1 = [k EXCEPT !.mem = Mark(@, p + n + 1, orig - n, FALSE)]
    BY <1>3, <2>1
  <2>3. k2 = [k EXCEPT !.mem = Mark(@, p, n, TRUE), !.heaps[i].off = @ + n - orig]
    BY <1>1, <1>2, <1>3, <2>1 DEF Shift
  <2>. QED
    BY <1>1, <1>2, <1>3, <2>2, <2>3, Zenon DEF ReallocInPlace
<1>5. \A x, y : [ok |-> x, k |-> y].ok = x /\ [ok |-> x, k |-> y].k = y
  OBVIOUS
<1>6. p + orig <= EndOf(h) /\ p + n <= EndOf(h)
  <2>1. p + orig \in Nat /\ p + n \in Nat
    BY <1>1, <1>2
  <2>2. ~(p + orig > EndOf(h) \/ p + n > EndOf(h))
    BY <1>4, <1>5, Zenon
  <2>. QED
    BY <1>2, <2>1, <2>2
<1>7. \/ orig > n /\ r.k = k1
      \/ ~(orig > n) /\ p + orig = h.base + h.off /\ r.k = k2
      \/ orig = n /\ r.k = k
      \/ ~(p + orig = h.base + h.off) /\ q.ok /\ r.k = k3
  <2>1. ~(p + orig > EndOf(h) \/ p + n > EndOf(h))
    BY <1>4, <1>5, Zenon
  <2>2. CASE orig > n
    <3>1. r = [ok |-> TRUE, k |-> k1]
      BY <1>4, <2>1, <2>2
    <3>. QED
      BY <2>2, <3>1
  <2>3. CASE ~(orig > n) /\ p + orig = h.base + h.off
    <3>1. r = [ok |-> TRUE, k |-> k2]
      BY <1>4, <2>1, <2>3
    <3>2. r.k = k2
      BY <3>1
    <3>. QED
      BY <2>3, <3>2
  <2>4. CASE ~(orig > n) /\ ~(p + orig = h.base + h.off) /\ orig = n
    <3>1. r = [ok |-> TRUE, k |-> k]
      BY <1>4, <2>1, <2>4
    <3>2. r.k = k
      BY <3>1
    <3>. QED
      BY <2>4, <3>2
  <2>5. CASE ~(orig > n) /\ ~(p + orig = h.base + h.off) /\ ~(orig = n) /\ q.ok
    <3>1. r = [ok |-> TRUE, k |-> k3]
      BY <1>4, <2>1, <2>5
    <3>2. r.k = k3
      BY <3>1
    <3>. QED
      BY <2>5, <3>2
  <2>6. CASE ~(orig > n) /\ ~(p + orig = h.base + h.off) /\ ~(orig = n) /\ ~q.ok
    <3>1. r = [ok |-> FALSE, k |-> k]
      BY <1>4, <2>1, <2>6
    <3>2. r.ok = FALSE
      BY <3>1
    <3>. QED
      BY <3>2
  <2>. QED
    BY <2>2, <2>3, <2>4, <2>5, <2>6
<1>8. CASE orig > n /\ r.k = k1
  <2>1. n < k.mem[a].size
    BY <1>1, <1>2, <1>8
  <2>2. Resizes(k, H, [k EXCEPT !.mem = Mark(k.mem, p + n + 1, k.mem[a].size - n, FALSE)], a, n)
    BY <2>1, ShrinkMoves
  <2>. QED
    BY <1>1, <1>3, <1>8, <2>2, Zenon
<1>9. CASE ~(orig > n) /\ p + orig = h.base + h.off /\ r.k = k2
  <2>1. k.mem[a].size <= n /\ p + k.mem[a].size = Carvings(k.heaps[i]) /\ p + n <= EndOf(k.heaps[i])
    BY <1>1, <1>2, <1>6, <1>9 DEF Carvings
  <2>2. Resizes(k, H, Shift(k, i, k.heaps[i].off + n - k.mem[a].size, Mark(k.mem, p, n, TRUE)), a, n)
    BY <2>1, StretchMoves
  <2>. QED
    BY <1>1, <1>3, <1>9, <2>2, Zenon
<1>10. CASE orig = n /\ r.k = k
  BY <1>1, <1>10, SameMoves
<1>11. CASE ~(p + orig = h.base + h.off) /\ q.ok /\ r.k = k3
  <2>1. p + n <= Carvings(k.heaps[i])
    BY <1>1, <1>11 DEF Carvings
  <2>2. Resizes(k, H, [k EXCEPT !.mem = MarkAlloc(q.mem, p)], a, n)
    BY <1>1, <1>11, <2>1, MergeMoves
  <2>. QED
    BY <1>3, <1>11, <2>2, Zenon
<1>. QED
  BY <1>7, <1>8, <1>9, <1>10, <1>11

LEMMA HeapUnique ==
    ASSUME NEW k, NEW i \in 0 .. HeapsSize, NEW j \in 0 .. HeapsSize, NEW p,
           IsHeapOf(k, i, p), IsHeapOf(k, j, p)
    PROVE  i = j
<1>1. ASSUME NEW x \in 0 .. HeapsSize, NEW y \in 0 .. HeapsSize, x < y,
             IsHeapOf(k, x, p), IsHeapOf(k, y, p)
      PROVE  FALSE
  <2>1. x \in 0 .. y - 1
    BY <1>1
  <2>. QED
    BY <1>1, <2>1 DEF IsHeapOf
<1>2. i < j \/ j < i \/ i = j
  OBVIOUS
<1>. QED
  BY <1>1, <1>2

\* The call of realloc for the block p stays within what was carved off heap
\* i, or p is the last block of it.
Within(k, i, p, n) ==
    LET carved == k.heaps[i].base + k.heaps[i].off IN
    p + Header(k.mem, p).size = carved \/ p + AdjustToMemBlock(n) <= carved

LEMMA OwnsResized ==
    ASSUME NEW k, NEW L, Owns(k, L), NEW p, \E d \in L : d.ptr = p, NEW n \in Nat, n # 0,
           NEW i \in 0 .. HeapsSize, IsHeapOf(k, i, p), Within(k, i, p, n),
           NEW r, r = ReallocInPlace(k, i, p, AdjustToMemBlock(n)), r.ok
    PROVE  Owns(Written(r.k, p, n), Without(L, p) \cup {Block(p, n)})
<1>1. PICK H : Sound(k, H, L, {})
  BY DEF Owns
<1>2. PICK d \in L : d.ptr = p
  OBVIOUS
<1>3. PICK j \in 0 .. HeapsSize : IsHeapOf(k, j, p) /\ p - 1 \in H[j]
  BY <1>1, <1>2, HeapFound
<1>4. p - 1 \in H[i]
  BY <1>3, HeapUnique
<1>5. /\ Layout(k) /\ Divided(k.mem, k.heaps, H) /\ Holds(k.mem, Heads(H), L, {})
      /\ Apart(k.mem, Heads(H))
  BY <1>1, SoundApart DEF Sound
<1>6. PICK a : a = p - 1
  OBVIOUS
<1>7. p \in Nat /\ p # Null /\ p = a + 1 /\ a \in H[i] /\ k.mem[a].alloc
  BY <1>2, <1>4, <1>5, <1>6 DEF Holds, Null
<1>8. Lies(k, H, i, a)
  BY <1>5, <1>7 DEF Lies
<1>9. PICK N : N = AdjustToMemBlock(n)
  OBVIOUS
<1>10. N \in Nat \ {0} /\ n <= N
  BY <1>9, Adjusted
<1>11. p + k.mem[a].size = Carvings(k.heaps[i]) \/ p + N <= Carvings(k.heaps[i])
  <2>1. Header(k.mem, p) = k.mem[a]
    BY <1>7, <1>8, LiesFacts
  <2>. QED
    BY <1>9, <2>1 DEF Within, Carvings
<1>12. PICK g : g = r.k
  OBVIOUS
<1>13. Resizes(k, H, g, a, N)
  <2>1. r = ReallocInPlace(k, i, p, N)
    BY <1>9
  <2>2. Resizes(k, H, r.k, a, N)
    BY <1>7, <1>8, <1>10, <1>11, <2>1, ReallocMoves
  <2>. QED
    BY <1>12, <2>2
<1>. HIDE <1>12
<1>14. PICK G : /\ Moves(k, H, g, G, {a})
                /\ a \in Heads(G) /\ g.mem[a].alloc /\ N <= g.mem[a].size
  BY <1>13 DEF Resizes
<1>15. Holds(k.mem, Heads(H), Without(L, p), {a})
  BY <1>2, <1>5, <1>6, HoldsDropped
<1>16. Holds(g.mem, Heads(G), Without(L, p), {a})
  <2>1. KeptAll(k.mem, Heads(H), g.mem, Heads(G), {a})
    BY <1>14 DEF Moves
  <2>2. \A b \in Without(L, p) : b.ptr - 1 \notin {a}
    BY <1>15 DEF Holds
  <2>3. \A x \in {a} : x \in Heads(G) /\ g.mem[x].alloc
    BY <1>14
  <2>. QED
    BY <1>5, <1>15, <2>1, <2>2, <2>3, HoldsKept
<1>17. Sound(g, G, Without(L, p), {p - 1})
  BY <1>6, <1>14, <1>16 DEF Sound, Moves
<1>18. n <= g.mem[p - 1].size
  <2>1. g.mem[a].size \in Nat
    BY <1>14, <1>17, SoundApart DEF Apart, Word
  <2>. QED
    BY <1>6, <1>10, <1>14, <2>1
<1>19. Sound(Written(g, p, n), G, Without(L, p) \cup {Block(p, n)}, {})
  BY <1>7, <1>17, <1>18, SoundWritten
<1>. QED
  BY <1>12, <1>19 DEF Owns

-----------------------------------------------------------------------------
(* The calls of the program.                                               *)

\* The inductive invariant.
Inv == Owns(m, live)

LEMMA AllocatesInv ==
    ASSUME NEW k, NEW p, NEW n \in Nat, n # 0, Ready(k, live, p, AdjustToMemBlock(n)),
           NEW old, old = Null \/ \E d \in live : d.ptr = old, Allocates(k, p, n, old)
    PROVE  Inv'
<1>1. Owns(Written(FreeIn(k, old), p, n), Without(live, old) \cup {Block(p, n)})
  BY OwnsAllocated
<1>2. /\ m' = Written(FreeIn(k, old), p, n)
      /\ live' = Without(live, old) \cup {Block(p, n)}
      /\ state' = "ok" /\ failed' = 0
  BY DEF Allocates, Without
<1>3. Owns(m', live')
  BY <1>1, <1>2
<1>. QED
  BY <1>2, <1>3 DEF Inv

LEMMA MallocsInv ==
    ASSUME Inv, NEW n \in Nat, n # 0, NEW old, old = Null \/ \E d \in live : d.ptr = old,
           Mallocs(n, old)
    PROVE  Inv'
<1>1. PICK H : Sound(m, H, live, {})
  BY DEF Inv, Owns
<1>2. PICK k : k = Prepared(m)
  OBVIOUS
<1>3. Sound(k, H, live, {}) /\ Open(k)
  <2>1. Layout(m) /\ Divided(m.mem, m.heaps, H)
    BY <1>1 DEF Sound
  <2>2. Moves(m, H, k, H, {}) /\ Open(k)
    BY <1>2, <2>1, PreparedMoves
  <2>. QED
    BY <1>1, <2>2, SoundMoves
<1>4. Layout(k) /\ Divided(k.mem, k.heaps, H) /\ k.pages \in Nat /\ k.pages <= MaxPages
  BY <1>3, LayoutTypes DEF Sound
<1>5. PICK N : N = AdjustToMemBlock(n)
  OBVIOUS
<1>6. N \in Nat
  BY <1>5, Adjusted
<1>7. PICK j \in 0 .. MaxPages :
             /\ PagesTaken(k, N, j)
             /\ \E g \in {NextActiveHeap(k, j)} :
                  IF HasRoom(g, N)
                    THEN Allocates(Carve(g, N), Carved(g), n, old)
                    ELSE Traps(CleanupRemaining(g), n)
  BY <1>2, <1>5 DEF Mallocs
<1>8. j \in Nat /\ k.pages + j <= MaxPages
  <2>1. j \in 0 .. MaxPages - k.pages /\ MaxPages \in Nat
    BY <1>7, UnitsAssumption DEF PagesTaken
  <2>. QED
    BY <1>4, <2>1
<1>9. PICK g : g = NextActiveHeap(k, j)
  OBVIOUS
<1>10. Open(g) /\ \E G : Moves(k, H, g, G, {})
  BY <1>3, <1>4, <1>8, <1>9, NextMoves
<1>11. PICK G : Sound(g, G, live, {})
  BY <1>3, <1>10, SoundMoves
<1>12. Layout(g) /\ Divided(g.mem, g.heaps, G)
  BY <1>11 DEF Sound
<1>13. IF HasRoom(g, N)
         THEN Allocates(Carve(g, N), Carved(g), n, old)
         ELSE Traps(CleanupRemaining(g), n)
  BY <1>7, <1>9
<1>. HIDE <1>9
<1>14. CASE HasRoom(g, N)
  <2>1. Provides(g, G, Carve(g, N), Carved(g), N)
    BY <1>6, <1>10, <1>12, <1>14, CarveMoves
  <2>2. Ready(Carve(g, N), live, Carved(g), N)
    BY <1>6, <1>11, <2>1, SoundProvided
  <2>3. Allocates(Carve(g, N), Carved(g), n, old)
    BY <1>13, <1>14
  <2>. QED
    BY <1>5, <2>2, <2>3, AllocatesInv
<1>15. CASE ~HasRoom(g, N)
  <2>1. PICK c : c = CleanupRemaining(g)
    OBVIOUS
  <2>2. \E F : Moves(g, G, c, F, {})
    BY <1>10, <1>12, <2>1, CleanupMoves
  <2>3. \E F : Sound(c, F, live, {})
    BY <1>11, <2>2, SoundMoves
  <2>4. m' = c /\ live' = live
    BY <1>13, <1>15, <2>1 DEF Traps
  <2>. QED
    BY <2>3, <2>4 DEF Inv, Owns
<1>. QED
  BY <1>14, <1>15

LEMMA OwnsStart == Owns(Start, {})
<1>1. PICK k : k = Start
  OBVIOUS
<1>2. /\ InitPages \in Nat /\ InitPages <= MaxPages /\ HeapsSize \in Nat /\ HeapsSize >= 2
  BY UnitsAssumption
<1>3. /\ k.heaps = [i \in 0 .. HeapsSize |-> NoHeap]
      /\ k.actual = 0 /\ k.active = 0 /\ k.pages = InitPages
      /\ k.mem = [a \in 1 .. Top |-> Zero]
  BY <1>1 DEF Start
<1>4. NoHeap \in Heap /\ Zero \in Word
  BY DEF NoHeap, Heap, Zero, Word
<1>5. k \in Managers
  <2>1. [i \in 0 .. HeapsSize |-> NoHeap] \in [0 .. HeapsSize -> Heap]
    BY <1>4
  <2>2. [a \in 1 .. Top |-> Zero] \in Memories
    BY <1>4 DEF Memories
  <2>. QED
    BY <1>1, <1>2, <2>1, <2>2, Zenon DEF Start, Managers
<1>. HIDE <1>1
<1>6. \A i \in 0 .. HeapsSize : k.heaps[i] = NoHeap
  BY <1>3
<1>7. NoHeap.base = 0 /\ NoHeap.off = 0 /\ NoHeap.size = 0 /\ Carvings(NoHeap) = 0
  BY DEF NoHeap, Carvings
<1>8. Layout(k)
  <2>1. Fresh(k)
    BY <1>2, <1>3, <1>6 DEF Fresh
  <2>2. \A i \in 2 .. HeapsSize : k.heaps[i] = NoHeap
    BY <1>2, <1>6
  <2>3. \A i \in 0 .. HeapsSize : k.heaps[i].off <= k.heaps[i].size
    BY <1>6, <1>7
  <2>. QED
    BY <1>2, <1>3, <1>5, <2>1, <2>2, <2>3 DEF Layout
<1>9. PICK H : H = [i \in 0 .. HeapsSize |-> {}]
  OBVIOUS
<1>10. \A i \in 0 .. HeapsSize : H[i] = {}
  BY <1>9
<1>11. Divided(k.mem, k.heaps, H)
  <2>1. H \in [0 .. HeapsSize -> SUBSET Nat]
    BY <1>9
  <2>2. Tiled(k.mem, 0, 0, {})
    BY DEF Tiled
  <2>. QED
    BY <1>6, <1>7, <1>10, <2>1, <2>2 DEF Divided
<1>12. Heads(H) = {}
  BY <1>10, HeadsOf
<1>13. Sound(k, H, {}, {})
  BY <1>8, <1>11, <1>12 DEF Sound, Holds
<1>. QED
  BY <1>1, <1>13 DEF Owns

LEMMA InitInv == Init => Inv
  BY OwnsStart DEF Init, Inv

LEMMA RestartInv == Restart => Inv'
<1>1. SUFFICES ASSUME Restart
               PROVE  Inv'
  OBVIOUS
<1>2. m' = Start /\ live' = {} /\ state' = "ok" /\ failed' = 0
  BY <1>1 DEF Restart
<1>3. Owns(m', live')
  BY <1>2, OwnsStart
<1>. QED
  BY <1>2, <1>3 DEF Inv

LEMMA FreeInv ==
    ASSUME Inv, NEW p \in {Null} \cup Ptrs, Free(p)
    PROVE  Inv'
<1>1. p = Null \/ \E d \in live : d.ptr = p
  BY DEF Ptrs
<1>2. Owns(FreeIn(m, p), Without(live, p))
  BY <1>1, OwnsFreed DEF Inv
<1>3. m' = FreeIn(m, p) /\ live' = Without(live, p) /\ failed' = 0 /\ state' = state
  BY DEF Free, Without
<1>4. Owns(m', live')
  BY <1>2, <1>3
<1>. QED
  BY <1>3, <1>4 DEF Inv

LEMMA ReallocInv ==
    ASSUME Inv, NEW p \in {Null} \cup Ptrs, NEW n \in Nat, ~CrossesEnd(p, n), Realloc(p, n)
    PROVE  Inv'
<1>1. CASE n # 0 /\ Mallocs(n, Null)
  BY <1>1, MallocsInv
<1>2. CASE p # Null /\ n # 0 /\ \E i \in 0 .. HeapsSize :
             /\ IsHeapOf(m, i, p)
             /\ \E r \in {ReallocInPlace(m, i, p, AdjustToMemBlock(n))} :
                  \/ /\ r.ok
                     /\ m' = Written(r.k, p, n)
                     /\ live' = {b \in live : b.ptr # p} \cup {Block(p, n)}
                     /\ failed' = 0
                     /\ UNCHANGED state
                  \/ ~r.ok /\ Mallocs(n, p)
  <2>1. PICK i, r :
             /\ i \in 0 .. HeapsSize
             /\ IsHeapOf(m, i, p) /\ r = ReallocInPlace(m, i, p, AdjustToMemBlock(n))
             /\ \/ /\ r.ok
                   /\ m' = Written(r.k, p, n)
                   /\ live' = {b \in live : b.ptr # p} \cup {Block(p, n)}
                   /\ failed' = 0
                   /\ UNCHANGED state
                \/ ~r.ok /\ Mallocs(n, p)
    BY <1>2
  <2>2. \E d \in live : d.ptr = p
    BY <1>2 DEF Ptrs
  <2>3. CASE ~r.ok /\ Mallocs(n, p)
    BY <1>2, <2>2, <2>3, MallocsInv
  <2>4. CASE /\ r.ok
             /\ m' = Written(r.k, p, n)
             /\ live' = {b \in live : b.ptr # p} \cup {Block(p, n)}
             /\ failed' = 0
             /\ UNCHANGED state
    <3>1. PICK H : Sound(m, H, live, {})
      BY DEF Inv, Owns
    <3>2. m.heaps[i].base + m.heaps[i].off \in Nat
      BY <2>1, <3>1, LayoutTypes DEF Sound
    <3>3. p \in Nat
      BY <2>2, <3>1 DEF Sound, Holds
    <3>4. Within(m, i, p, n)
      <4>1. AdjustToMemBlock(n) \in Nat
        BY <1>2, Adjusted
      <4>2. p + AdjustToMemBlock(n) \in Nat
        BY <3>3, <4>1
      <4>. QED
        BY <2>1, <3>2, <4>2 DEF CrossesEnd, Within
    <3>5. Owns(Written(r.k, p, n), Without(live, p) \cup {Block(p, n)})
      BY <1>2, <2>1, <2>2, <2>4, <3>4, OwnsResized DEF Inv
    <3>6. live' = Without(live, p) \cup {Block(p, n)}
      BY <2>4 DEF Without
    <3>7. Owns(m', live')
      BY <2>4, <3>5, <3>6, Zenon
    <3>. QED
      BY <2>4, <3>7 DEF Inv
  <2>. QED
    BY <2>1, <2>3, <2>4
<1>3. CASE n = 0 /\ Free(p)
  BY <1>3, FreeInv
<1>. QED
  BY <1>1, <1>2, <1>3 DEF Realloc

LEMMA NextInv ==
    ASSUME Tame, Inv, [Next]_vars
    PROVE  Inv'
<1>1. Sizes \subseteq Nat /\ ReallocSizes \subseteq Nat
  BY UnitsAssumption
<1>2. ASSUME NEW n \in Sizes, Malloc(n)
      PROVE  Inv'
  <2>1. CASE n = 0
    BY <1>2, <2>1 DEF Malloc, Inv
  <2>2. CASE n # 0
    BY <1>1, <1>2, <2>2, MallocsInv DEF Malloc
  <2>. QED
    BY <2>1, <2>2
<1>3. ASSUME NEW n \in Sizes, Calloc(n)
      PROVE  Inv'
  BY <1>2, <1>3 DEF Calloc
<1>4. ASSUME NEW p \in {Null} \cup Ptrs, Free(p)
      PROVE  Inv'
  BY <1>4, FreeInv
<1>5. ASSUME NEW p \in {Null} \cup Ptrs, NEW n \in ReallocSizes, Tame => ~CrossesEnd(p, n),
             Realloc(p, n)
      PROVE  Inv'
  BY <1>1, <1>5, ReallocInv
<1>6. CASE Restart
  BY <1>6, RestartInv
<1>7. CASE UNCHANGED vars
  BY <1>7 DEF vars, Inv
<1>. QED
  BY <1>2, <1>3, <1>4, <1>5, <1>6, <1>7 DEF Next

LEMMA Invariant ==
    ASSUME Tame
    PROVE  Spec => []Inv
<1>1. Inv /\ [Next]_vars => Inv'
  BY NextInv
<1>. QED
  BY <1>1, InitInv, PTL DEF Spec

-----------------------------------------------------------------------------
(* What the properties say, which walk over the headers.                   *)

\* A loop that collects where it comes by has a value.
LEMMA LoopCollects ==
    ASSUME NEW X, NEW Stop, NEW step, NEW rank, NEW B, Loop(X, Stop, step, rank, B)
    PROVE  \E f : f = [x \in X |-> IF x \in Stop THEN {x} ELSE {x} \cup f[step[x]]]
<1>. USE DEF Loop
<1>. DEFINE U(n) == {x \in X : rank[x] >= n}
            P(n) == \E f : f = [x \in U(n) |-> IF x \in Stop THEN {x} ELSE {x} \cup f[step[x]]]
            Bad  == {d \in 0 .. B : ~P(B - d)}
<1>1. P(B)
  <2>1. \A x \in U(B) : x \in Stop
    OBVIOUS
  <2>. DEFINE g == [x \in U(B) |-> {x}]
  <2>2. g = [x \in U(B) |-> IF x \in Stop THEN {x} ELSE {x} \cup g[step[x]]]
    BY <2>1
  <2>. QED
    BY <2>2
<1>2. ASSUME NEW n \in Nat, P(n + 1)
      PROVE  P(n)
  <2>1. PICK f : f = [x \in U(n + 1) |-> IF x \in Stop THEN {x} ELSE {x} \cup f[step[x]]]
    BY <1>2
  <2>. DEFINE g == [x \in U(n) |-> IF x \in Stop THEN {x} ELSE {x} \cup f[step[x]]]
  <2>2. ASSUME NEW x \in U(n), x \notin Stop
        PROVE  g[step[x]] = f[step[x]]
    <3>1. step[x] \in U(n + 1) /\ step[x] \in U(n)
      BY <2>2
    <3>2. f[step[x]] = IF step[x] \in Stop THEN {step[x]} ELSE {step[x]} \cup f[step[step[x]]]
      BY <2>1, <3>1
    <3>. QED
      BY <3>1, <3>2
  <2>3. g = [x \in U(n) |-> IF x \in Stop THEN {x} ELSE {x} \cup g[step[x]]]
    BY <2>2
  <2>. QED
    BY <2>3
<1>. HIDE DEF P
<1>3. Bad = {}
  <2>1. Bad \in SUBSET Nat
    OBVIOUS
  <2>2. SUFFICES ASSUME Bad # {}
                 PROVE  FALSE
    OBVIOUS
  <2>3. PICK e \in Bad : \A c \in Bad : e <= c
    <3>. HIDE DEF Bad
    <3>. QED
      BY <2>1, <2>2, Smallest
  <2>4. e # 0
    BY <1>1, <2>3
  <2>5. e - 1 \in 0 .. B /\ e - 1 \notin Bad
    BY <2>3, <2>4
  <2>6. P(B - (e - 1)) /\ B - (e - 1) = (B - e) + 1 /\ B - e \in Nat
    BY <2>5
  <2>. QED
    BY <1>2, <2>3, <2>6
<1>4. P(0)
  BY <1>3
<1>5. U(0) = X
  OBVIOUS
<1>. QED
  BY <1>4, <1>5 DEF P

\* Walk comes by the headers a heap is divided by.
LEMMA WalkTiles ==
    ASSUME NEW h, Bounds(h.base, Carvings(h)), m.mem \in Memories,
           NEW G, Tiled(m.mem, h.base, Carvings(h), G)
    PROVE  Walk(h) = G \cup {Carvings(h)}
<1>. DEFINE from == CHOOSE from : from = [a \in Nat \ {0} |->
                      IF a >= h.base + h.off \/ m.mem[a] = Data
                        THEN {a} ELSE {a} \cup from[a + m.mem[a].size + 1]]
            X == Nat \ {0}
<1>1. PICK hi, mem : hi = Carvings(h) /\ mem = m.mem
  OBVIOUS
<1>2. PICK Stop, step, rank : /\ Stop = {a \in X : a >= hi \/ mem[a] = Data}
                              /\ step = [a \in X |-> After(mem, a)]
                              /\ rank = [a \in X |-> a]
  OBVIOUS
<1>3. hi \in Nat /\ hi <= Top + 1 /\ h.base \in Nat \ {0} /\ h.base <= hi /\ mem \in Memories
      /\ Tiled(mem, h.base, hi, G)
  BY <1>1 DEF Bounds
<1>4. ASSUME NEW a \in X, a \notin Stop
      PROVE  /\ a < hi /\ mem[a] # Data /\ mem[a] \in Word /\ mem[a].size \in Nat
             /\ step[a] = After(mem, a) /\ step[a] \in X /\ a < step[a]
  <2>1. a < hi /\ mem[a] # Data /\ step[a] = After(mem, a)
    BY <1>2, <1>3, <1>4
  <2>2. a \in 1 .. Top
    BY <1>3, <2>1, TopType
  <2>3. mem[a] \in Word
    BY <1>3, <2>1, <2>2 DEF Memories
  <2>4. mem[a].size \in Nat
    BY <2>3 DEF Word
  <2>. QED
    BY <2>1, <2>3, <2>4 DEF After
<1>5. Loop(X, Stop, step, rank, hi)
  <2>1. Stop \in SUBSET X /\ rank \in [X -> Nat] /\ \A a \in X : rank[a] = a
    BY <1>2
  <2>. QED
    BY <1>3, <1>4, <2>1 DEF Loop
<1>6. PICK f : f = [a \in X |-> IF a \in Stop THEN {a} ELSE {a} \cup f[step[a]]]
  BY <1>5, LoopCollects
<1>7. \A f1 : [a \in X |-> IF a \in Stop THEN {a} ELSE {a} \cup f1[step[a]]]
            = [a \in X |-> IF a >= h.base + h.off \/ m.mem[a] = Data
                             THEN {a} ELSE {a} \cup f1[a + m.mem[a].size + 1]]
  BY <1>1, <1>2 DEF After, Carvings
<1>8. from = [a \in X |-> IF a \in Stop THEN {a} ELSE {a} \cup from[step[a]]]
  <2>1. f = [a \in Nat \ {0} |->
               IF a >= h.base + h.off \/ m.mem[a] = Data
                 THEN {a} ELSE {a} \cup f[a + m.mem[a].size + 1]]
    BY <1>6, <1>7
  <2>2. from = [a \in Nat \ {0} |->
                  IF a >= h.base + h.off \/ m.mem[a] = Data
                    THEN {a} ELSE {a} \cup from[a + m.mem[a].size + 1]]
    BY <2>1, Zenon
  <2>. QED
    BY <1>7, <2>2
<1>9. Walk(h) = from[h.base]
  BY Zenon DEF Walk
<1>. HIDE DEF from
<1>10. PICK W : W = from
  OBVIOUS
<1>11. \A a \in X : W[a] = IF a \in Stop THEN {a} ELSE {a} \cup W[step[a]]
  BY <1>8, <1>10
<1>. HIDE <1>1
<1>. DEFINE E == G \cup {hi}
            Rest(a) == {b \in E : a <= b}
            Q == {a \in X : a \in E => W[a] = Rest(a)}
<1>12. /\ G \subseteq h.base .. hi - 1 /\ h.base \in E
       /\ \A a \in G : mem[a] \in Word /\ After(mem, a) \in E
       /\ \A a, b \in G : a < b => After(mem, a) <= b
  BY <1>3 DEF Tiled
<1>13. \A a \in E : a \in Nat /\ a <= hi /\ h.base <= a
  BY <1>3, <1>12
<1>14. Data \notin Word
  BY DataAssumption DEF Word
<1>15. \A a \in Stop : a \in Q
  <2>1. ASSUME NEW a \in Stop, a \in E
        PROVE  W[a] = Rest(a)
    <3>1. a = hi
      <4>1. a >= hi \/ mem[a] = Data
        BY <1>2, <2>1
      <4>2. a \notin G
        <5>1. SUFFICES ASSUME a \in G
                       PROVE  FALSE
          OBVIOUS
        <5>2. a \in h.base .. hi - 1 /\ mem[a] # Data
          BY <1>12, <1>14, <5>1
        <5>. QED
          BY <1>3, <4>1, <5>2
      <4>. QED
        BY <2>1, <4>2
    <3>2. W[a] = {a}
      BY <1>2, <1>11, <2>1
    <3>3. Rest(a) = {a}
      BY <1>13, <2>1, <3>1
    <3>. QED
      BY <3>2, <3>3
  <2>. QED
    BY <1>2, <2>1
<1>16. \A a \in X \ Stop : step[a] \in Q => a \in Q
  <2>1. ASSUME NEW a \in X, a \notin Stop, step[a] \in Q, a \in E
        PROVE  W[a] = Rest(a)
    <3>1. a < hi /\ step[a] = After(mem, a) /\ a < step[a] /\ step[a] \in Nat
      BY <1>4, <2>1
    <3>2. a \in G
      BY <1>3, <2>1, <3>1
    <3>3. step[a] \in E
      BY <1>12, <3>1, <3>2
    <3>4. W[a] = {a} \cup Rest(step[a])
      BY <1>11, <2>1, <3>3
    <3>5. \A b \in E : a < b => step[a] <= b
      BY <1>3, <1>12, <1>13, <3>1, <3>2, <3>3
    <3>6. Rest(a) = {a} \cup Rest(step[a])
      <4>1. \A b \in E : b \in Nat
        BY <1>13
      <4>2. a \in Nat
        BY <2>1, <4>1
      <4>3. \A b \in E : a <= b <=> b = a \/ step[a] <= b
        BY <3>1, <3>5, <4>1, <4>2
      <4>. HIDE DEF E
      <4>. QED
        BY <2>1, <4>3
    <3>. QED
      BY <3>4, <3>6
  <2>. QED
    BY <2>1
<1>17. \A a \in X : a \in Q
  <2>. HIDE DEF Q, X
  <2>. QED
    BY <1>5, <1>15, <1>16, LoopInduction
<1>18. W[h.base] = Rest(h.base)
  BY <1>3, <1>12, <1>17
<1>19. Rest(h.base) = E
  BY <1>13
<1>. QED
  BY <1>1, <1>9, <1>10, <1>18, <1>19

\* Of a heap that is initialised.
LEMMA HeadersAre ==
    ASSUME NEW H, NEW L, NEW X, Sound(m, H, L, X),
           NEW i \in 0 .. HeapsSize, m.heaps[i].base # 0
    PROVE  /\ Carvings(m.heaps[i]) \in Walk(m.heaps[i])
           /\ Headers(m.heaps[i]) = H[i]
           /\ \A a \in H[i] : a < Carvings(m.heaps[i]) /\ m.mem[a] # Data
<1>1. Placed(m.heaps) /\ m.mem \in Memories /\ Divided(m.mem, m.heaps, H)
  BY SoundApart DEF Sound
<1>2. PICK h, hi : h = m.heaps[i] /\ hi = Carvings(h)
  OBVIOUS
<1>3. Bounds(h.base, hi) /\ Tiled(m.mem, h.base, hi, H[i])
  BY <1>1, <1>2 DEF Placed, Divided, NoHeap
<1>4. Walk(h) = H[i] \cup {hi}
  BY <1>1, <1>2, <1>3, WalkTiles
<1>5. hi \in Nat /\ h.base \in Nat /\ H[i] \subseteq h.base .. hi - 1 /\ \A a \in H[i] : m.mem[a] \in Word
  BY <1>3 DEF Bounds, Tiled
<1>6. hi \notin H[i] /\ \A a \in H[i] : a < hi /\ m.mem[a] # Data
  BY <1>5, DataAssumption DEF Word
<1>7. Headers(h) = Walk(h) \ {hi}
  BY <1>2 DEF Headers, Carvings
<1>. QED
  BY <1>2, <1>4, <1>6, <1>7

LEMMA HeadersAll ==
    ASSUME NEW H, NEW L, NEW X, Sound(m, H, L, X)
    PROVE  UNION {Headers(h) : h \in InitHeaps} = Heads(H)
<1>1. ASSUME NEW i \in 0 .. HeapsSize, NEW a \in H[i]
      PROVE  m.heaps[i].base # 0
  <2>1. Placed(m.heaps) /\ m.mem \in Memories /\ Divided(m.mem, m.heaps, H)
    BY SoundApart DEF Sound
  <2>. QED
    BY <1>1, <2>1, BlockOf DEF IsHeap
<1>2. \A h \in InitHeaps : \E i \in 0 .. HeapsSize : h = m.heaps[i] /\ m.heaps[i].base # 0
  BY DEF InitHeaps
<1>3. \A i \in 0 .. HeapsSize : m.heaps[i].base # 0 => m.heaps[i] \in InitHeaps
  BY DEF InitHeaps
<1>4. \A i \in 0 .. HeapsSize : m.heaps[i].base # 0 => Headers(m.heaps[i]) = H[i]
  BY HeadersAre
<1>5. ASSUME NEW a
      PROVE  a \in UNION {Headers(h) : h \in InitHeaps} <=> a \in Heads(H)
  <2>1. a \in UNION {Headers(h) : h \in InitHeaps} <=> \E h \in InitHeaps : a \in Headers(h)
    OBVIOUS
  <2>. QED
    BY <1>1, <1>2, <1>3, <1>4, <2>1, HeadsOf
<1>. QED
  BY <1>5

LEMMA TiledInv == Inv => HeapTiled
<1>1. SUFFICES ASSUME Inv
               PROVE  HeapTiled
  OBVIOUS
<1>2. PICK H : Sound(m, H, live, {})
  BY <1>1 DEF Inv, Owns
<1>3. Holds(m.mem, Heads(H), live, {})
  BY <1>2 DEF Sound
<1>4. ASSUME NEW h \in InitHeaps
      PROVE  /\ h.base + h.off \in Walk(h)
             /\ \A a \in Headers(h) : a < h.base + h.off /\ m.mem[a] # Data
  <2>1. PICK i \in 0 .. HeapsSize : h = m.heaps[i] /\ m.heaps[i].base # 0
    BY DEF InitHeaps
  <2>2. /\ Carvings(m.heaps[i]) \in Walk(m.heaps[i])
        /\ Headers(m.heaps[i]) = H[i]
        /\ \A a \in H[i] : a < Carvings(m.heaps[i]) /\ m.mem[a] # Data
    BY <1>2, <2>1, HeadersAre
  <2>3. Carvings(h) = h.base + h.off
    BY DEF Carvings
  <2>. QED
    BY <2>1, <2>2, <2>3
<1>5. {a \in UNION {Headers(h) : h \in InitHeaps} : m.mem[a].alloc} = {b.ptr - 1 : b \in live}
  <2>1. {a \in Heads(H) : m.mem[a].alloc} = {b.ptr - 1 : b \in live}
    BY <1>3 DEF Holds
  <2>. QED
    BY <1>2, <2>1, HeadersAll, Zenon
<1>6. \A b \in live : m.mem[b.ptr - 1].size >= b.size
  <2>1. ASSUME NEW b \in live
        PROVE  m.mem[b.ptr - 1].size >= b.size
    <3>1. b.size <= m.mem[b.ptr - 1].size /\ b.size \in Nat /\ b.ptr - 1 \in Heads(H)
      BY <1>3 DEF Holds
    <3>2. m.mem[b.ptr - 1].size \in Nat
      BY <1>2, <3>1, SoundApart DEF Apart, Word
    <3>. QED
      BY <3>1, <3>2
  <2>. QED
    BY <2>1
<1>. QED
  BY <1>4, <1>5, <1>6 DEF HeapTiled

LEMMA DisjointInv == Inv => BlocksDisjoint
<1>1. SUFFICES ASSUME Inv
               PROVE  BlocksDisjoint
  OBVIOUS
<1>2. PICK H : Sound(m, H, live, {})
  BY <1>1 DEF Inv, Owns
<1>3. Apart(m.mem, Heads(H)) /\ Holds(m.mem, Heads(H), live, {})
  BY <1>2, SoundApart DEF Sound
<1>. QED
  BY <1>3, HoldsDisjoint DEF BlocksDisjoint

LEMMA ContentsInv == Inv => ContentsKept
  BY DEF Inv, Owns, Sound, Holds, ContentsKept

-----------------------------------------------------------------------------
(* The theorems.                                                           *)

\* As long as realloc does not take a block past the end of what was carved
\* off its heap, the headers of every heap divide it without a gap, and the
\* allocated ones are those of the blocks malloc, calloc and realloc returned
\* and free did not take back.
THEOREM HeadersDivideHeaps ==
    ASSUME Tame
    PROVE  Spec => []HeapTiled
  BY Invariant, TiledInv, PTL

\* malloc, calloc and realloc never hand out cells of a block the program
\* still holds.
THEOREM BlocksNeverOverlap ==
    ASSUME Tame
    PROVE  Spec => []BlocksDisjoint
  BY Invariant, DisjointInv, PTL

\* No header is ever written into a block the program holds, not by
\* merge_contiguous, cleanup_remaining or realloc_in_place either.
THEOREM DataSurvives ==
    ASSUME Tame
    PROVE  Spec => []ContentsKept
  BY Invariant, ContentsInv, PTL
=============================================================================
