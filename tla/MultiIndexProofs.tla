-------------------------- MODULE MultiIndexProofs --------------------------
(***************************************************************************)
(* multi_index for every set of keys, secondary keys and objects.          *)
(*                                                                         *)
(* First what holds for any number of objects on one table: types, and     *)
(* that rows and index entries have the same keys.  Then what holds when   *)
(* there is one object: its cache is the table.  Then what the steps look  *)
(* like from outside: with several objects a row and its index entry come  *)
(* apart only through an item that was stale, and with one object they are *)
(* steps of an ordered table with an exact index.                          *)
(***************************************************************************)
EXTENDS MultiIndex, TLAPS

Caches == [Itrs -> Items \cup {Absent}]

(***************************************************************************)
(* Types of the lookups.                                                   *)
(***************************************************************************)

\* What the assumptions say about the values that are told apart by #.
LEMMA Distinct ==
    /\ Absent \notin Secs /\ Absent \notin Items
    /\ End \notin Keys /\ End \notin Itrs
    /\ Keys \subseteq Nat /\ Secs \subseteq Nat
    /\ KeyMax \in Nat /\ KeyMax >= 2 /\ MaxGen \in Nat
<1>1. Items \subseteq [sec : Secs, sit : Int]
  BY KeysAssumption DEF Items, Unknown, NoEntry, Gens
<1>. QED
  BY <1>1, KeysAssumption DEF Itrs, Gens

\* The iterator of a stored row and the item read through it.
LEMMA LoadType ==
    ASSUME DbTypeOK, NEW c \in Caches, NEW k \in Keys, tbl[k] # Absent
    PROVE  /\ Load(c, k) \in Caches
           /\ <<k, gen[k]>> \in Itrs
           /\ <<k, gen[k]>> \in Cached(Load(c, k))
<1>1. gen[k] \in Gens /\ <<k, gen[k]>> \in Itrs /\ tbl[k] \in Secs
  BY DEF DbTypeOK, Itrs
<1>2. [sec |-> tbl[k], sit |-> Unknown] \in Items
  BY <1>1 DEF Items
<1>3. [sec |-> tbl[k], sit |-> Unknown] # Absent
  BY <1>2, Distinct
<1>. QED
  BY <1>1, <1>2, <1>3 DEF Load, Caches, Cached

\* find() of a stored row gives one of its items.
LEMMA FindsType ==
    ASSUME DbTypeOK, NEW c \in Caches, NEW k \in Keys,
           NEW o, NEW d, Finds(c, k, o, d)
    PROVE  /\ d \in Caches
           /\ o = End \/ (o \in Cached(d) /\ o[1] = k)
           /\ tbl[k] # Absent => o # End
<1>1. CASE \A g \in Gens : c[<<k, g>>] = Absent
  <2>1. CASE tbl[k] = Absent
    BY <1>1, <2>1 DEF Finds
  <2>2. CASE tbl[k] # Absent
    <3>1. o = <<k, gen[k]>> /\ d = Load(c, k)
      BY <1>1, <2>2 DEF Finds
    <3>. QED
      BY <3>1, <2>2, LoadType, Distinct
  <2>. QED
    BY <2>1, <2>2
<1>2. CASE ~(\A g \in Gens : c[<<k, g>>] = Absent)
  <2>1. Newest(c, k, o) /\ d = c
    BY <1>2 DEF Finds
  <2>. QED
    BY <2>1, Distinct DEF Newest, Cached
<1>. QED
  BY <1>1, <1>2

\* Remembering the iterator of an index entry.
LEMMA SitType ==
    ASSUME NEW c \in Caches, NEW o \in Cached(c),
           NEW s \in {Unknown, NoEntry} \cup Gens
    PROVE  /\ [c EXCEPT ![o].sit = s] \in Caches
           /\ Cached([c EXCEPT ![o].sit = s]) = Cached(c)
<1>1. o \in Itrs /\ c[o] \in Items
  BY DEF Caches, Cached
<1>2. [c[o] EXCEPT !.sit = s] \in Items /\ [c[o] EXCEPT !.sit = s] # Absent
  BY <1>1, Distinct DEF Items
<1>. QED
  BY <1>1, <1>2 DEF Caches, Cached

LEMMA ResolveType ==
    ASSUME DbTypeOK, NEW c \in Caches, NEW o \in Cached(c)
    PROVE  /\ Resolve(c, o) \in Caches
           /\ Cached(Resolve(c, o)) = Cached(c)
<1>1. o \in Itrs /\ o[1] \in Keys /\ gen[o[1]] \in Gens
  BY DEF Cached, Itrs, DbTypeOK
<1>. QED
  BY <1>1, SitType DEF Resolve

(***************************************************************************)
(* Any number of objects.                                                  *)
(***************************************************************************)

\* Rows and entries have the same keys, in the tables an abort restores too.
GInv ==
    /\ TypeOK
    /\ SameKeys
    /\ \A k \in Keys : saved.tbl[k] = Absent <=> saved.idx[k] = Absent

LEMMA GFresh ==
    ASSUME FreshObjects
    PROVE  /\ own' \in BOOLEAN
           /\ cache' \in [Insts -> Caches]
           /\ nextpk' \in [Insts -> 0 .. KeyMax]
           /\ cur' \in [Insts -> Cursors]
<1>1. EmptyCache \in Caches
  BY DEF EmptyCache, Caches
<1>2. Unset \in 0 .. KeyMax
  BY Distinct DEF Unset
<1>3. [ix |-> "pri", at |-> End] \in Cursors
  BY DEF Cursors
<1>. QED
  BY <1>1, <1>2, <1>3 DEF FreshObjects

\* An abort restores tables of the right types and leaves no objects.
LEMMA GAbort ==
    ASSUME GInv, NEW why \in {"check", "exists", "dead"}, Abort(why)
    PROVE  GInv'
<1>1. DbTypeOK' /\ SameKeys'
  <2>1. tbl' = saved.tbl /\ idx' = saved.idx /\ gen' = [k \in Keys |-> 0]
        /\ saved' = saved
    BY DEF Abort, DbRollback
  <2>2. 0 \in Gens
    BY Distinct DEF Gens
  <2>. QED
    BY <2>1, <2>2 DEF GInv, TypeOK, DbTypeOK, SameKeys, Rows, Entries
<1>2. last' \in {"ok", "check", "exists", "dead"} /\ saved' = saved
  BY DEF Abort, DbRollback
<1>. QED
  BY <1>1, <1>2, GFresh DEF Abort, GInv, TypeOK, Caches

\* A lookup changes the cache and the iterator of one object.
LEMMA GReads ==
    ASSUME GInv, NEW i \in Insts, NEW ix \in {"pri", "sec"},
           NEW o \in Itrs \cup {End}, NEW d \in Caches, Reads(i, ix, o, d)
    PROVE  GInv'
<1>1. [ix |-> ix, at |-> o] \in Cursors
  BY DEF Cursors
<1>. QED
  BY <1>1 DEF GInv, TypeOK, DbTypeOK, SameKeys, Rows, Entries, Reads,
     DbUnchanged, dbVars, Caches

LEMMA GReadsRow ==
    ASSUME GInv, NEW i \in Insts, NEW k \in Rows \cup {End}, ReadsRow(i, k)
    PROVE  GInv'
<1>1. cache[i] \in Caches /\ DbTypeOK
  BY DEF GInv, TypeOK, Caches
<1>2. CASE k = End
  BY <1>1, <1>2, GReads DEF ReadsRow
<1>3. CASE k # End
  <2>1. k \in Keys /\ tbl[k] # Absent
    BY <1>3 DEF Rows
  <2>2. Load(cache[i], k) \in Caches /\ <<k, gen[k]>> \in Itrs
    BY <1>1, <2>1, LoadType
  <2>. QED
    BY <1>3, <2>2, GReads DEF ReadsRow
<1>. QED
  BY <1>2, <1>3

LEMMA GReadsEntry ==
    ASSUME GInv, NEW i \in Insts, NEW c \in Caches, NEW k \in Entries \cup {End},
           ReadsEntry(i, c, k)
    PROVE  GInv'
<1>1. DbTypeOK
  BY DEF GInv, TypeOK
<1>2. CASE k = End
  BY <1>2, GReads DEF ReadsEntry
<1>3. CASE k # End
  <2>1. k \in Keys /\ gen[k] \in Gens
    BY <1>1, <1>3 DEF Entries, DbTypeOK
  <2>2. PICK o \in Itrs, d \in {c, Load(c, k)} :
          /\ Finds(c, k, o, d)
          /\ Reads(i, "sec", o, [d EXCEPT ![o].sit = gen[k]])
    BY <1>3 DEF ReadsEntry
  <2>3. d \in Caches /\ o \in Cached(d)
    BY <1>1, <2>1, <2>2, FindsType, Distinct
  <2>4. [d EXCEPT ![o].sit = gen[k]] \in Caches
    BY <2>1, <2>3, SitType
  <2>. QED
    BY <2>2, <2>4, GReads
<1>. QED
  BY <1>2, <1>3

\* Every const member function of an object.
LEMMA GReading ==
    ASSUME GInv, NEW i \in Insts, Reading(i)
    PROVE  GInv'
<1>1. cache[i] \in Caches /\ DbTypeOK
  BY DEF GInv, TypeOK, Caches
<1>2. ASSUME NEW k \in Keys, Find(i, k) PROVE GInv'
  <2>1. PICK o \in Itrs \cup {End}, d \in {cache[i], Load(cache[i], k)} :
          Finds(cache[i], k, o, d) /\ Reads(i, "pri", o, d)
    BY <1>2 DEF Find
  <2>. QED
    BY <1>1, <2>1, FindsType, GReads
<1>3. ASSUME NEW k \in Keys, RequireFind(i, k) PROVE GInv'
  <2>1. PICK o \in Itrs \cup {End}, d \in {cache[i], Load(cache[i], k)} :
          /\ Finds(cache[i], k, o, d)
          /\ IF o = End THEN Abort("check") ELSE Reads(i, "pri", o, d)
    BY <1>3 DEF RequireFind
  <2>. QED
    BY <1>1, <2>1, FindsType, GReads, GAbort
<1>4. ASSUME NEW k \in Keys, LowerBound(i, k) \/ UpperBound(i, k) PROVE GInv'
  BY <1>4, GReadsRow DEF LowerBound, UpperBound
<1>5. ASSUME NEW o \in Itrs, IteratorTo(i, o) PROVE GInv'
  BY <1>1, <1>5, GReads DEF IteratorTo
<1>6. ASSUME NEW ix \in {"pri", "sec"}, EndIterator(i, ix) PROVE GInv'
  BY <1>1, <1>6, GReads DEF EndIterator
<1>7. CASE Increment(i)
  BY <1>7, GReadsRow, GAbort DEF Increment
<1>8. CASE Decrement(i)
  BY <1>8, GReadsRow, GAbort DEF Decrement
<1>9. ASSUME NEW s \in Secs, SecLowerBound(i, s) \/ SecUpperBound(i, s)
      PROVE  GInv'
  BY <1>1, <1>9, GReadsEntry DEF SecLowerBound, SecUpperBound
<1>10. ASSUME NEW s \in Secs, NEW required \in BOOLEAN, SecFind(i, s, required)
       PROVE  GInv'
  <2>1. PICK j \in Entries \cup {End} :
          \/ j = End /\ IF required THEN Abort("check")
                                    ELSE Reads(i, "sec", End, cache[i])
          \/ /\ j # End
             /\ \E o \in Itrs, d \in {cache[i], Load(cache[i], j)} :
                  /\ Finds(cache[i], j, o, d)
                  /\ LET e == [d EXCEPT ![o].sit = gen[j]]
                     IN  \/ Matches(d[o], s) /\ Reads(i, "sec", o, e)
                         \/ ~Matches(d[o], s) /\ required /\ Abort("check")
                         \/ ~Matches(d[o], s) /\ ~required /\ Reads(i, "sec", End, e)
    BY <1>10 DEF SecFind
  <2>2. CASE j = End
    BY <1>1, <2>1, <2>2, GReads, GAbort
  <2>3. CASE j # End
    <3>1. j \in Keys /\ gen[j] \in Gens
      BY <1>1, <2>3 DEF Entries, DbTypeOK
    <3>2. PICK o \in Itrs, d \in {cache[i], Load(cache[i], j)} :
            /\ Finds(cache[i], j, o, d)
            /\ LET e == [d EXCEPT ![o].sit = gen[j]]
               IN  \/ Matches(d[o], s) /\ Reads(i, "sec", o, e)
                   \/ ~Matches(d[o], s) /\ required /\ Abort("check")
                   \/ ~Matches(d[o], s) /\ ~required /\ Reads(i, "sec", End, e)
      BY <2>1, <2>3
    <3>3. d \in Caches /\ o \in Cached(d)
      BY <1>1, <3>1, <3>2, FindsType, Distinct
    <3>4. [d EXCEPT ![o].sit = gen[j]] \in Caches
      BY <3>1, <3>3, SitType
    <3>. QED
      BY <3>2, <3>4, GReads, GAbort
  <2>. QED
    BY <2>2, <2>3
<1>11. ASSUME NEW o \in Itrs, SecIteratorTo(i, o) PROVE GInv'
  BY <1>1, <1>11, GReads, ResolveType DEF SecIteratorTo
<1>12. CASE SecIncrement(i)
  <2>1. CASE AtEnd(i, "sec") /\ Abort("check")
    BY <2>1, GAbort
  <2>2. CASE At(i, "sec")
    <3>. DEFINE o == cur[i].at
                c == Resolve(cache[i], o)
    <3>1. c \in Caches
      BY <1>1, <2>2, ResolveType DEF At
    <3>2. AtEnd(i, "sec") => FALSE
      BY <2>2, Distinct DEF At, AtEnd, Cached
    <3>3. \/ c[o].sit = NoEntry /\ Reads(i, "sec", End, c)
          \/ \E j \in Entries \cup {End} : ReadsEntry(i, c, j)
          \/ Abort("dead")
      BY <1>12, <3>2 DEF SecIncrement
    <3>. QED
      BY <3>1, <3>3, GReads, GReadsEntry, GAbort
  <2>. QED
    BY <1>12, <2>1, <2>2 DEF SecIncrement
<1>13. CASE SecDecrement(i)
  <2>1. CASE AtEnd(i, "sec")
    <3>1. ~At(i, "sec")
      BY <2>1, Distinct DEF At, AtEnd, Cached
    <3>2. \E j \in Entries \cup {End} :
            IF j = End THEN Abort("check") ELSE ReadsEntry(i, cache[i], j)
      BY <1>13, <3>1 DEF SecDecrement
    <3>. QED
      BY <1>1, <3>2, GReadsEntry, GAbort
  <2>2. CASE At(i, "sec")
    <3>. DEFINE o == cur[i].at
                c == Resolve(cache[i], o)
    <3>1. c \in Caches
      BY <1>1, <2>2, ResolveType DEF At
    <3>2. AtEnd(i, "sec") => FALSE
      BY <2>2, Distinct DEF At, AtEnd, Cached
    <3>3. \/ \E j \in Entries \cup {End} :
                IF j = End THEN Abort("check") ELSE ReadsEntry(i, c, j)
          \/ Abort("dead")
      BY <1>13, <3>2 DEF SecDecrement
    <3>. QED
      BY <3>1, <3>3, GReadsEntry, GAbort
  <2>. QED
    BY <1>13, <2>1, <2>2 DEF SecDecrement
<1>14. CASE AvailablePrimaryKey(i)
  <2>1. PICK lo \in Rows \cup {End}, hi \in Rows \cup {End} :
          /\ DbLowerBound(0, lo) /\ DbLast(hi)
          /\ LET n == IF nextpk[i] # Unset THEN nextpk[i]
                      ELSE IF lo = End THEN 0
                      ELSE IF hi >= NoAvailable THEN NoAvailable ELSE hi + 1
                 c == IF nextpk[i] # Unset \/ lo = End THEN cache[i]
                      ELSE Load(Load(cache[i], lo), hi)
             IN  \/ n >= NoAvailable /\ Abort("check")
                 \/ /\ n < NoAvailable
                    /\ nextpk' = [nextpk EXCEPT ![i] = n]
                    /\ cache' = [cache EXCEPT ![i] = c]
                    /\ last' = "ok"
                    /\ UNCHANGED <<own, cur>>
                    /\ DbUnchanged
    BY <1>14 DEF AvailablePrimaryKey
  <2>. DEFINE n == IF nextpk[i] # Unset THEN nextpk[i]
                   ELSE IF lo = End THEN 0
                   ELSE IF hi >= NoAvailable THEN NoAvailable ELSE hi + 1
              c == IF nextpk[i] # Unset \/ lo = End THEN cache[i]
                   ELSE Load(Load(cache[i], lo), hi)
  <2>2. lo # End => hi # End
    BY <2>1, Distinct DEF DbLast, IsLast, Rows
  <2>3. c \in Caches
    <3>1. CASE nextpk[i] # Unset \/ lo = End
      BY <1>1, <3>1
    <3>2. CASE ~(nextpk[i] # Unset \/ lo = End)
      <4>1. lo \in Keys /\ tbl[lo] # Absent /\ hi \in Keys /\ tbl[hi] # Absent
        BY <2>2, <3>2 DEF Rows
      <4>2. Load(cache[i], lo) \in Caches
        BY <1>1, <4>1, LoadType
      <4>3. Load(Load(cache[i], lo), hi) \in Caches
        BY <1>1, <4>1, <4>2, LoadType
      <4>. QED
        BY <4>3, <3>2
    <3>. QED
      BY <3>1, <3>2
  <2>4. ASSUME n < NoAvailable PROVE n \in 0 .. KeyMax
    <3>1. nextpk[i] \in 0 .. KeyMax
      BY DEF GInv, TypeOK
    <3>2. lo # End => hi \in Nat
      BY <2>2, Distinct DEF Rows
    <3>. QED
      BY <2>4, <3>1, <3>2, Distinct DEF NoAvailable, Unset
  <2>5. CASE n >= NoAvailable /\ Abort("check")
    BY <2>5, GAbort
  <2>6. CASE /\ n < NoAvailable
             /\ nextpk' = [nextpk EXCEPT ![i] = n]
             /\ cache' = [cache EXCEPT ![i] = c]
             /\ last' = "ok"
             /\ UNCHANGED <<own, cur>>
             /\ DbUnchanged
    <3>. HIDE DEF n, c
    <3>. QED
      BY <2>3, <2>4, <2>6 DEF GInv, TypeOK, DbTypeOK, SameKeys, Rows, Entries,
         DbUnchanged, dbVars, Caches
  <2>. QED
    BY <2>1, <2>5, <2>6
<1>. QED
  BY <1>2, <1>3, <1>4, <1>5, <1>6, <1>7, <1>8, <1>9, <1>10, <1>11, <1>12,
     <1>13, <1>14 DEF Reading

LEMMA BumpType ==
    ASSUME NEW n \in 0 .. KeyMax, NEW k \in Keys
    PROVE  Bump(n, k) \in 0 .. KeyMax
BY KeysAssumption, Distinct DEF Bump, NoAvailable

\* erase(): the row goes and, because it has one, its entry goes too.
LEMMA GErases ==
    ASSUME GInv, NEW i \in Insts, NEW c \in Caches, NEW o \in Cached(c),
           NEW pos \in Cursors, Erases(i, c, o, pos)
    PROVE  GInv'
<1>1. o \in Itrs /\ o[1] \in Keys /\ DbTypeOK
  BY DEF Cached, Itrs, GInv, TypeOK
<1>2. CASE Abort("check") \/ Abort("dead")
  BY <1>2, GAbort
<1>3. CASE /\ own /\ Live(o) /\ gen[o[1]] < MaxGen
           /\ DbRemove(o[1], EntryFound(c, o))
           /\ \E n \in Itrs : /\ Newest(c, o[1], n)
                              /\ cache' = [cache EXCEPT ![i] = Forget(c, n)]
           /\ cur' = [cur EXCEPT ![i] = pos]
           /\ last' = "ok"
           /\ UNCHANGED <<own, nextpk>>
  <2>1. EntryFound(c, o)
    BY <1>1, <1>3 DEF GInv, SameKeys, Rows, Entries, Live, EntryFound
  <2>2. /\ tbl' = [tbl EXCEPT ![o[1]] = Absent]
        /\ idx' = [idx EXCEPT ![o[1]] = Absent]
        /\ gen' = [gen EXCEPT ![o[1]] = @ + 1]
        /\ saved' = saved
    BY <1>3, <2>1 DEF DbRemove
  <2>3. gen[o[1]] + 1 \in Gens
    <3>1. gen[o[1]] \in 0 .. MaxGen /\ MaxGen \in Nat
      BY <1>1, Distinct DEF DbTypeOK, Gens
    <3>2. gen[o[1]] < MaxGen
      BY <1>3
    <3>. QED
      BY <3>1, <3>2 DEF Gens
  <2>4. DbTypeOK'
    BY <1>1, <2>2, <2>3 DEF DbTypeOK
  <2>5. SameKeys'
    BY <1>1, <2>2 DEF GInv, SameKeys, Rows, Entries, DbTypeOK
  <2>6. cache' \in [Insts -> Caches]
    <3>1. PICK n \in Itrs : cache' = [cache EXCEPT ![i] = Forget(c, n)]
      BY <1>3
    <3>2. Forget(c, n) \in Caches
      BY DEF Forget, Caches
    <3>. QED
      BY <3>1, <3>2 DEF GInv, TypeOK, Caches
  <2>. QED
    BY <1>3, <2>2, <2>4, <2>5, <2>6 DEF GInv, TypeOK, Caches
<1>. QED
  BY <1>2, <1>3 DEF Erases

\* Every member function that writes.
LEMMA GWriting ==
    ASSUME GInv, NEW i \in Insts, Writing(i)
    PROVE  GInv'
<1>1. cache[i] \in Caches /\ DbTypeOK /\ nextpk[i] \in 0 .. KeyMax
      /\ cur[i] \in Cursors
  BY DEF GInv, TypeOK, Caches
<1>2. ASSUME NEW k \in Keys, NEW s \in Secs, Emplace(i, k, s) PROVE GInv'
  <2>1. CASE Abort("check") \/ Abort("exists")
    BY <2>1, GAbort
  <2>2. CASE own /\ DbCanStore(k)
    <3>1. gen[k] \in Gens /\ <<k, gen[k]>> \in Itrs
      BY <1>1 DEF DbTypeOK, Itrs
    <3>2. [sec |-> s, sit |-> gen[k]] \in Items
      BY <3>1 DEF Items
    <3>3. [ix |-> "pri", at |-> <<k, gen[k]>>] \in Cursors
      BY <3>1 DEF Cursors
    <3>4. \/ Abort("check") \/ Abort("exists")
          \/ /\ DbStore(k, s)
             /\ nextpk' = [nextpk EXCEPT ![i] = Bump(nextpk[i], k)]
             /\ cache' = [cache EXCEPT ![i][<<k, gen[k]>>] = [sec |-> s, sit |-> gen[k]]]
             /\ cur' = [cur EXCEPT ![i] = [ix |-> "pri", at |-> <<k, gen[k]>>]]
             /\ last' = "ok"
             /\ own' = own
      BY <1>2 DEF Emplace
    <3>5. CASE /\ DbStore(k, s)
               /\ nextpk' = [nextpk EXCEPT ![i] = Bump(nextpk[i], k)]
               /\ cache' = [cache EXCEPT ![i][<<k, gen[k]>>] = [sec |-> s, sit |-> gen[k]]]
               /\ cur' = [cur EXCEPT ![i] = [ix |-> "pri", at |-> <<k, gen[k]>>]]
               /\ last' = "ok"
               /\ own' = own
      <4>1. DbTypeOK' /\ SameKeys' /\ saved' = saved
        BY <3>5, <1>1, Distinct DEF GInv, DbStore, DbTypeOK, SameKeys, Rows, Entries
      <4>2. nextpk' \in [Insts -> 0 .. KeyMax]
        BY <1>1, <3>5, BumpType DEF GInv, TypeOK
      <4>3. cache' \in [Insts -> Caches]
        BY <3>1, <3>2, <3>5 DEF GInv, TypeOK, Caches
      <4>4. cur' \in [Insts -> Cursors]
        BY <3>3, <3>5 DEF GInv, TypeOK
      <4>. QED
        BY <3>5, <4>1, <4>2, <4>3, <4>4 DEF GInv, TypeOK, Caches
    <3>. QED
      BY <3>4, <3>5, GAbort
  <2>. QED
    BY <1>2, <2>1, <2>2 DEF Emplace
<1>3. ASSUME NEW o \in Itrs, NEW s \in Secs, Modify(i, o, s) PROVE GInv'
  <2>. DEFINE c == cache[i]
              k == o[1]
              diff == Differs(c[o], s)
              sit == IF diff /\ c[o].sit \in {Unknown, NoEntry}
                       THEN IF idx[k] = Absent THEN NoEntry ELSE gen[k]
                       ELSE c[o].sit
              good == Live(o) /\ (diff => SecLive(k, sit))
  <2>1. /\ o \in Cached(c)
        /\ \/ Abort("check")
           \/ Abort("dead")
           \/ /\ own /\ good
              /\ DbUpdate(k, s, diff)
              /\ nextpk' = [nextpk EXCEPT ![i] = Bump(nextpk[i], k)]
              /\ cache' = [cache EXCEPT ![i][o] = [sec |-> s, sit |-> sit]]
              /\ last' = "ok"
              /\ UNCHANGED <<own, cur>>
    BY <1>3 DEF Modify
  <2>2. CASE /\ own /\ good
             /\ DbUpdate(k, s, diff)
             /\ nextpk' = [nextpk EXCEPT ![i] = Bump(nextpk[i], k)]
             /\ cache' = [cache EXCEPT ![i][o] = [sec |-> s, sit |-> sit]]
             /\ last' = "ok"
             /\ UNCHANGED <<own, cur>>
    <3>1. k \in Keys /\ gen[k] \in Gens /\ c[o] \in Items
      BY <1>1, <2>1 DEF Itrs, DbTypeOK, Cached, Caches
    <3>2. sit \in {Unknown, NoEntry} \cup Gens
      BY <3>1 DEF Items
    <3>3. [sec |-> s, sit |-> sit] \in Items
      BY <3>2 DEF Items
    <3>4. tbl[k] # Absent /\ (diff => idx[k] # Absent)
      BY <2>2 DEF Live, SecLive
    <3>. HIDE DEF sit, diff, c
    <3>5. DbTypeOK' /\ SameKeys' /\ saved' = saved
      BY <2>2, <1>1, <3>1, <3>4, Distinct DEF GInv, DbUpdate, DbTypeOK,
         SameKeys, Rows, Entries
    <3>6. nextpk' \in [Insts -> 0 .. KeyMax]
      BY <1>1, <2>2, <3>1, BumpType DEF GInv, TypeOK
    <3>7. cache' \in [Insts -> Caches]
      BY <2>2, <3>3 DEF GInv, TypeOK, Caches
    <3>. QED
      BY <2>2, <3>5, <3>6, <3>7 DEF GInv, TypeOK, Caches
  <2>. QED
    BY <2>1, <2>2, GAbort
<1>4. ASSUME NEW o \in Itrs, ModifyKey(i, o) PROVE GInv'
  BY <1>4, GAbort DEF ModifyKey
<1>5. ASSUME NEW o \in Itrs, EraseObject(i, o) PROVE GInv'
  BY <1>1, <1>5, GErases DEF EraseObject
<1>6. CASE EraseIterator(i)
  <2>1. CASE Abort("check") \/ Abort("dead")
    BY <2>1, GAbort
  <2>2. CASE /\ At(i, "pri")
             /\ \E j \in Rows \cup {End} :
                  IF j = End
                    THEN Erases(i, cache[i], cur[i].at, [ix |-> "pri", at |-> End])
                    ELSE Erases(i, Load(cache[i], j), cur[i].at,
                                [ix |-> "pri", at |-> <<j, gen[j]>>])
    <3>1. cur[i].at \in Cached(cache[i])
      BY <2>2 DEF At
    <3>2. PICK j \in Rows \cup {End} :
                  IF j = End
                    THEN Erases(i, cache[i], cur[i].at, [ix |-> "pri", at |-> End])
                    ELSE Erases(i, Load(cache[i], j), cur[i].at,
                                [ix |-> "pri", at |-> <<j, gen[j]>>])
      BY <2>2
    <3>3. CASE j = End
      <4>1. [ix |-> "pri", at |-> End] \in Cursors
        BY DEF Cursors
      <4>. QED
        BY <1>1, <3>1, <3>2, <3>3, <4>1, GErases
    <3>4. CASE j # End
      <4>1. j \in Keys /\ tbl[j] # Absent
        BY <3>4 DEF Rows
      <4>2. Load(cache[i], j) \in Caches /\ <<j, gen[j]>> \in Itrs
        BY <1>1, <4>1, LoadType
      <4>3. [ix |-> "pri", at |-> <<j, gen[j]>>] \in Cursors
        BY <4>2 DEF Cursors
      <4>4. cur[i].at \in Cached(Load(cache[i], j))
        <5>1. [sec |-> tbl[j], sit |-> Unknown] # Absent
          BY <1>1, <4>1, Distinct DEF DbTypeOK, Items
        <5>. QED
          BY <1>1, <3>1, <4>2, <5>1 DEF Load, Cached, Caches
      <4>. QED
        BY <3>2, <3>4, <4>2, <4>3, <4>4, GErases
    <3>. QED
      BY <3>3, <3>4
  <2>. QED
    BY <1>6, <2>1, <2>2 DEF EraseIterator
<1>7. CASE SecEraseIterator(i)
  <2>. DEFINE o == cur[i].at
              c == Resolve(cache[i], o)
  <2>1. CASE Abort("check") \/ Abort("dead")
    BY <2>1, GAbort
  <2>2. CASE At(i, "sec") /\ Erases(i, c, o, [ix |-> "sec", at |-> End])
    <3>1. c \in Caches /\ o \in Cached(c)
      BY <1>1, <2>2, ResolveType DEF At
    <3>2. [ix |-> "sec", at |-> End] \in Cursors
      BY DEF Cursors
    <3>. QED
      BY <2>2, <3>1, <3>2, GErases
  <2>3. CASE /\ At(i, "sec")
             /\ \E j \in Entries : \E p \in Itrs, d \in {c, Load(c, j)} :
                  /\ Finds(c, j, p, d)
                  /\ Erases(i, [d EXCEPT ![p].sit = gen[j]], o,
                            [ix |-> "sec", at |-> p])
    <3>1. c \in Caches /\ o \in Cached(c)
      BY <1>1, <2>3, ResolveType DEF At
    <3>. PICK j \in Entries : \E p \in Itrs, d \in {c, Load(c, j)} :
                  /\ Finds(c, j, p, d)
                  /\ Erases(i, [d EXCEPT ![p].sit = gen[j]], o,
                            [ix |-> "sec", at |-> p])
      BY <2>3
    <3>2. PICK p \in Itrs, d \in {c, Load(c, j)} :
                  /\ Finds(c, j, p, d)
                  /\ Erases(i, [d EXCEPT ![p].sit = gen[j]], o,
                            [ix |-> "sec", at |-> p])
      OBVIOUS
    <3>3. j \in Keys /\ gen[j] \in Gens /\ tbl[j] # Absent
      BY <1>1 DEF Entries, DbTypeOK, GInv, SameKeys, Rows
    <3>. HIDE DEF c, o
    <3>4. d \in Caches /\ p \in Cached(d)
      BY <1>1, <3>1, <3>2, <3>3, FindsType, Distinct
    <3>5. o \in Cached(d)
      <4>1. [sec |-> tbl[j], sit |-> Unknown] # Absent
        BY <1>1, <3>3, Distinct DEF DbTypeOK, Items
      <4>. QED
        BY <1>1, <3>1, <3>2, <3>3, <4>1 DEF Load, Cached, Caches, DbTypeOK, Itrs
    <3>6. /\ [d EXCEPT ![p].sit = gen[j]] \in Caches
          /\ o \in Cached([d EXCEPT ![p].sit = gen[j]])
      BY <3>3, <3>4, <3>5, SitType
    <3>7. [ix |-> "sec", at |-> p] \in Cursors
      BY DEF Cursors
    <3>. QED
      BY <3>2, <3>6, <3>7, GErases
  <2>4. \/ Abort("check") \/ Abort("dead")
        \/ At(i, "sec") /\ Erases(i, c, o, [ix |-> "sec", at |-> End])
        \/ /\ At(i, "sec")
           /\ \E j \in Entries : \E p \in Itrs, d \in {c, Load(c, j)} :
                /\ Finds(c, j, p, d)
                /\ Erases(i, [d EXCEPT ![p].sit = gen[j]], o,
                          [ix |-> "sec", at |-> p])
    BY <1>7 DEF SecEraseIterator
  <2>. QED
    BY <2>1, <2>2, <2>3, <2>4
<1>. QED
  BY <1>2, <1>3, <1>4, <1>5, <1>6, <1>7 DEF Writing

LEMMA GNext ==
    ASSUME GInv, [Next]_vars
    PROVE  GInv'
<1>1. ASSUME NEW i \in Insts, Reading(i) PROVE GInv'
  BY <1>1, GReading
<1>2. ASSUME NEW i \in Insts, Writing(i) PROVE GInv'
  BY <1>2, GWriting
<1>3. CASE EndAction
  <2>1. 0 \in Gens
    BY Distinct DEF Gens
  <2>2. DbTypeOK' /\ SameKeys'
        /\ \A k \in Keys : saved'.tbl[k] = Absent <=> saved'.idx[k] = Absent
    BY <1>3, <2>1 DEF EndAction, DbCommit, GInv, TypeOK, DbTypeOK, SameKeys,
       Rows, Entries
  <2>. QED
    BY <1>3, <2>2, GFresh DEF EndAction, GInv, TypeOK, Caches
<1>4. CASE UNCHANGED vars
  BY <1>4 DEF vars, GInv, TypeOK, DbTypeOK, SameKeys, Rows, Entries
<1>. QED
  BY <1>1, <1>2, <1>3, <1>4 DEF Next

LEMMA GInit == Init => GInv
<1>. SUFFICES ASSUME Init PROVE GInv
  OBVIOUS
<1>1. 0 \in Gens /\ Unset \in 0 .. KeyMax
  BY Distinct DEF Gens, Unset
<1>2. EmptyCache \in Caches /\ [ix |-> "pri", at |-> End] \in Cursors
  BY DEF EmptyCache, Caches, Cursors
<1>. QED
  BY <1>1, <1>2 DEF Init, DbInit, GInv, TypeOK, DbTypeOK, SameKeys, Rows,
     Entries, Caches

\* The variables keep their types, for any number of objects on one table.
THEOREM TypeCorrect == Spec => []TypeOK
<1>1. GInv => TypeOK
  BY DEF GInv
<1>. QED
  BY <1>1, GInit, GNext, PTL DEF Spec

\* Whatever objects write to a table, each row has an index entry and each
\* index entry a row.
THEOREM RowsAndEntries == Spec => []SameKeys
<1>1. GInv => SameKeys
  BY DEF GInv
<1>. QED
  BY <1>1, GInit, GNext, PTL DEF Spec

(***************************************************************************)
(* One object per table.  Each item it holds is the stored row; that makes *)
(* the tests modify() does on the item tests on the index, and keeps every *)
(* host iterator it uses valid.                                            *)
(***************************************************************************)

SingleObject == \A i, j \in Insts : i = j

CacheOK(c) ==
    \A o \in Cached(c) : /\ Live(o)
                         /\ c[o].sec = tbl[o[1]]
                         /\ c[o].sit \in {Unknown, gen[o[1]]}

SInv ==
    /\ GInv
    /\ CacheCoherent
    /\ IndexMatchesTable
    /\ saved.idx = saved.tbl
    /\ AvailableKeyUnused
    /\ NoDeadIterator

LEMMA LoadOK ==
    ASSUME DbTypeOK, NEW c \in Caches, CacheOK(c), NEW k \in Keys, tbl[k] # Absent
    PROVE  CacheOK(Load(c, k))
<1>1. <<k, gen[k]>> \in Itrs /\ Live(<<k, gen[k]>>)
  BY LoadType DEF Live
<1>. QED
  BY <1>1 DEF Load, CacheOK, Cached, Caches

\* find() gives the item of the stored row and nothing else.
LEMMA FindsOK ==
    ASSUME DbTypeOK, NEW c \in Caches, CacheOK(c), NEW k \in Keys,
           NEW o, NEW d, Finds(c, k, o, d)
    PROVE  /\ d \in Caches /\ CacheOK(d)
           /\ o = IF tbl[k] = Absent THEN End ELSE <<k, gen[k]>>
           /\ tbl[k] # Absent => o \in Cached(d)
<1>1. d \in Caches
  BY FindsType
<1>2. CASE \A g \in Gens : c[<<k, g>>] = Absent
  BY <1>1, <1>2, LoadOK, LoadType DEF Finds
<1>3. CASE ~(\A g \in Gens : c[<<k, g>>] = Absent)
  <2>1. Newest(c, k, o) /\ d = c
    BY <1>3 DEF Finds
  <2>2. o \in Cached(c) /\ o[1] = k /\ Live(o) /\ o \in Itrs
    BY <2>1 DEF Newest, CacheOK, Cached
  <2>3. o = <<o[1], o[2]>>
    BY <2>2 DEF Itrs
  <2>. QED
    BY <2>1, <2>2, <2>3 DEF Live
<1>. QED
  BY <1>2, <1>3

LEMMA SitOK ==
    ASSUME NEW c \in Caches, CacheOK(c), NEW o \in Cached(c), DbTypeOK
    PROVE  CacheOK([c EXCEPT ![o].sit = gen[o[1]]])
<1>1. o \in Itrs /\ c[o] \in Items /\ gen[o[1]] \in Gens
  BY DEF Cached, Caches, Itrs, DbTypeOK
<1>2. Cached([c EXCEPT ![o].sit = gen[o[1]]]) = Cached(c)
  BY <1>1, SitType
<1>. QED
  BY <1>1, <1>2 DEF CacheOK, Caches, Items

\* The index entry of a cached row exists, so looking it up succeeds.
LEMMA ResolveOK ==
    ASSUME DbTypeOK, IndexMatchesTable, NEW c \in Caches, CacheOK(c),
           NEW o \in Cached(c)
    PROVE  /\ CacheOK(Resolve(c, o))
           /\ Resolve(c, o)[o].sit = gen[o[1]]
           /\ SecLive(o[1], Resolve(c, o)[o].sit)
           /\ gen[o[1]] \in Gens
<1>1. o \in Itrs /\ c[o] \in Items /\ gen[o[1]] \in Gens
      /\ Live(o) /\ idx[o[1]] # Absent
  BY DEF Cached, Caches, Itrs, DbTypeOK, CacheOK, Live, IndexMatchesTable
<1>2. c[o].sit \in {Unknown, gen[o[1]]}
  BY DEF CacheOK
<1>. QED
  BY <1>1, <1>2, SitOK DEF Resolve, SecLive, Caches, Items

\* The keys of available_primary_key() after an abort, a commit or a start.
LEMMA SFresh ==
    ASSUME FreshObjects
    PROVE  CacheCoherent' /\ AvailableKeyUnused'
<1>1. \A i \in Insts : Cached(cache'[i]) = {} /\ nextpk'[i] = Unset
  BY DEF FreshObjects, EmptyCache, Cached
<1>2. ~(Unset < NoAvailable)
  BY Distinct DEF Unset, NoAvailable
<1>. QED
  BY <1>1, <1>2 DEF CacheCoherent, AvailableKeyUnused

LEMMA SAbort ==
    ASSUME SInv, NEW why \in {"check", "exists"}, Abort(why)
    PROVE  SInv'
<1>1. GInv'
  BY GAbort DEF SInv
<1>2. CacheCoherent' /\ AvailableKeyUnused'
  BY SFresh DEF Abort
<1>. QED
  BY <1>1, <1>2 DEF SInv, Abort, DbRollback, IndexMatchesTable, NoDeadIterator

LEMMA SReads ==
    ASSUME SInv, NEW i \in Insts, NEW ix \in {"pri", "sec"},
           NEW o \in Itrs \cup {End}, NEW d \in Caches, CacheOK(d),
           Reads(i, ix, o, d)
    PROVE  SInv'
<1>1. GInv'
  BY GReads DEF SInv
<1>2. tbl' = tbl /\ idx' = idx /\ gen' = gen /\ saved' = saved /\ nextpk' = nextpk
      /\ last' = "ok"
  BY DEF Reads, DbUnchanged, dbVars
<1>3. CacheCoherent'
  <2>1. cache' = [cache EXCEPT ![i] = d]
    BY DEF Reads
  <2>2. cache \in [Insts -> Caches]
    BY DEF SInv, GInv, TypeOK, Caches
  <2>. QED
    BY <1>2, <2>1, <2>2 DEF SInv, CacheCoherent, CacheOK, Live, Cached
<1>. QED
  BY <1>1, <1>2, <1>3 DEF SInv, IndexMatchesTable, AvailableKeyUnused, Rows,
     NoDeadIterator

LEMMA SReadsRow ==
    ASSUME SInv, NEW i \in Insts, NEW k \in Rows \cup {End}, ReadsRow(i, k)
    PROVE  SInv'
<1>1. cache[i] \in Caches /\ DbTypeOK /\ CacheOK(cache[i])
  BY DEF SInv, GInv, TypeOK, Caches, CacheCoherent, CacheOK
<1>2. CASE k = End
  BY <1>1, <1>2, SReads DEF ReadsRow
<1>3. CASE k # End
  <2>1. k \in Keys /\ tbl[k] # Absent
    BY <1>3 DEF Rows
  <2>2. /\ Load(cache[i], k) \in Caches /\ <<k, gen[k]>> \in Itrs
        /\ CacheOK(Load(cache[i], k))
    BY <1>1, <2>1, LoadType, LoadOK
  <2>. QED
    BY <1>3, <2>2, SReads DEF ReadsRow
<1>. QED
  BY <1>2, <1>3

LEMMA SReadsEntry ==
    ASSUME SInv, NEW i \in Insts, NEW c \in Caches, CacheOK(c),
           NEW k \in Entries \cup {End}, ReadsEntry(i, c, k)
    PROVE  SInv'
<1>1. DbTypeOK
  BY DEF SInv, GInv, TypeOK
<1>2. CASE k = End
  BY <1>2, SReads DEF ReadsEntry
<1>3. CASE k # End
  <2>1. k \in Keys /\ gen[k] \in Gens /\ tbl[k] # Absent
    BY <1>1, <1>3 DEF Entries, DbTypeOK, SInv, IndexMatchesTable
  <2>2. PICK o \in Itrs, d \in {c, Load(c, k)} :
          /\ Finds(c, k, o, d)
          /\ Reads(i, "sec", o, [d EXCEPT ![o].sit = gen[k]])
    BY <1>3 DEF ReadsEntry
  <2>3. d \in Caches /\ CacheOK(d) /\ o \in Cached(d) /\ o = <<k, gen[k]>>
    BY <1>1, <2>1, <2>2, FindsOK
  <2>4. /\ [d EXCEPT ![o].sit = gen[k]] \in Caches
        /\ CacheOK([d EXCEPT ![o].sit = gen[k]])
    BY <1>1, <2>1, <2>3, SitType, SitOK
  <2>. QED
    BY <2>2, <2>4, SReads
<1>. QED
  BY <1>2, <1>3

LEMMA SReading ==
    ASSUME SInv, NEW i \in Insts, Reading(i)
    PROVE  SInv'
<1>1. /\ cache[i] \in Caches /\ DbTypeOK /\ CacheOK(cache[i])
      /\ IndexMatchesTable /\ GInv
  BY DEF SInv, GInv, TypeOK, Caches, CacheCoherent, CacheOK
<1>2. ASSUME NEW k \in Keys, Find(i, k) PROVE SInv'
  <2>1. PICK o \in Itrs \cup {End}, d \in {cache[i], Load(cache[i], k)} :
          Finds(cache[i], k, o, d) /\ Reads(i, "pri", o, d)
    BY <1>2 DEF Find
  <2>. QED
    BY <1>1, <2>1, FindsOK, SReads
<1>3. ASSUME NEW k \in Keys, RequireFind(i, k) PROVE SInv'
  <2>1. PICK o \in Itrs \cup {End}, d \in {cache[i], Load(cache[i], k)} :
          /\ Finds(cache[i], k, o, d)
          /\ IF o = End THEN Abort("check") ELSE Reads(i, "pri", o, d)
    BY <1>3 DEF RequireFind
  <2>. QED
    BY <1>1, <2>1, FindsOK, SReads, SAbort
<1>4. ASSUME NEW k \in Keys, LowerBound(i, k) \/ UpperBound(i, k) PROVE SInv'
  BY <1>4, SReadsRow DEF LowerBound, UpperBound
<1>5. ASSUME NEW o \in Itrs, IteratorTo(i, o) PROVE SInv'
  BY <1>1, <1>5, SReads DEF IteratorTo
<1>6. ASSUME NEW ix \in {"pri", "sec"}, EndIterator(i, ix) PROVE SInv'
  BY <1>1, <1>6, SReads DEF EndIterator
<1>7. CASE Increment(i)
  <2>1. At(i, "pri") => Live(cur[i].at)
    BY <1>1 DEF At, CacheOK
  <2>. QED
    BY <1>7, <2>1, SReadsRow, SAbort DEF Increment
<1>8. CASE Decrement(i)
  <2>1. At(i, "pri") => Live(cur[i].at)
    BY <1>1 DEF At, CacheOK
  <2>. QED
    BY <1>8, <2>1, SReadsRow, SAbort DEF Decrement
<1>9. ASSUME NEW s \in Secs, SecLowerBound(i, s) \/ SecUpperBound(i, s)
      PROVE  SInv'
  BY <1>1, <1>9, SReadsEntry DEF SecLowerBound, SecUpperBound
<1>10. ASSUME NEW s \in Secs, NEW required \in BOOLEAN, SecFind(i, s, required)
       PROVE  SInv'
  <2>1. PICK j \in Entries \cup {End} :
          \/ j = End /\ IF required THEN Abort("check")
                                    ELSE Reads(i, "sec", End, cache[i])
          \/ /\ j # End
             /\ \E o \in Itrs, d \in {cache[i], Load(cache[i], j)} :
                  /\ Finds(cache[i], j, o, d)
                  /\ LET e == [d EXCEPT ![o].sit = gen[j]]
                     IN  \/ Matches(d[o], s) /\ Reads(i, "sec", o, e)
                         \/ ~Matches(d[o], s) /\ required /\ Abort("check")
                         \/ ~Matches(d[o], s) /\ ~required /\ Reads(i, "sec", End, e)
    BY <1>10 DEF SecFind
  <2>2. CASE j = End
    BY <1>1, <2>1, <2>2, SReads, SAbort
  <2>3. CASE j # End
    <3>1. j \in Keys /\ gen[j] \in Gens /\ tbl[j] # Absent
      BY <1>1, <2>3 DEF Entries, DbTypeOK, IndexMatchesTable
    <3>2. PICK o \in Itrs, d \in {cache[i], Load(cache[i], j)} :
            /\ Finds(cache[i], j, o, d)
            /\ LET e == [d EXCEPT ![o].sit = gen[j]]
               IN  \/ Matches(d[o], s) /\ Reads(i, "sec", o, e)
                   \/ ~Matches(d[o], s) /\ required /\ Abort("check")
                   \/ ~Matches(d[o], s) /\ ~required /\ Reads(i, "sec", End, e)
      BY <2>1, <2>3
    <3>3. d \in Caches /\ CacheOK(d) /\ o \in Cached(d) /\ o = <<j, gen[j]>>
      BY <1>1, <3>1, <3>2, FindsOK
    <3>4. /\ [d EXCEPT ![o].sit = gen[j]] \in Caches
          /\ CacheOK([d EXCEPT ![o].sit = gen[j]])
      BY <1>1, <3>1, <3>3, SitType, SitOK
    <3>. QED
      BY <3>2, <3>4, SReads, SAbort
  <2>. QED
    BY <2>2, <2>3
<1>11. ASSUME NEW o \in Itrs, SecIteratorTo(i, o) PROVE SInv'
  BY <1>1, <1>11, SReads, ResolveType, ResolveOK DEF SecIteratorTo
<1>12. CASE SecIncrement(i)
  <2>1. CASE AtEnd(i, "sec") /\ Abort("check")
    BY <2>1, SAbort
  <2>2. CASE At(i, "sec")
    <3>. DEFINE o == cur[i].at
                c == Resolve(cache[i], o)
    <3>1. /\ c \in Caches /\ CacheOK(c)
          /\ SecLive(o[1], c[o].sit) /\ c[o].sit \in Gens
      BY <1>1, <2>2, ResolveType, ResolveOK DEF At
    <3>2. ~AtEnd(i, "sec") /\ c[o].sit # NoEntry
      BY <2>2, <3>1, Distinct DEF At, AtEnd, Cached, Gens, NoEntry
    <3>3. \E j \in Entries \cup {End} : ReadsEntry(i, c, j)
      BY <1>12, <3>1, <3>2 DEF SecIncrement
    <3>. QED
      BY <3>1, <3>3, SReadsEntry
  <2>. QED
    BY <1>12, <2>1, <2>2 DEF SecIncrement
<1>13. CASE SecDecrement(i)
  <2>1. CASE AtEnd(i, "sec")
    <3>1. ~At(i, "sec")
      BY <2>1, Distinct DEF At, AtEnd, Cached
    <3>2. \E j \in Entries \cup {End} :
            IF j = End THEN Abort("check") ELSE ReadsEntry(i, cache[i], j)
      BY <1>13, <3>1 DEF SecDecrement
    <3>. QED
      BY <1>1, <3>2, SReadsEntry, SAbort
  <2>2. CASE At(i, "sec")
    <3>. DEFINE o == cur[i].at
                c == Resolve(cache[i], o)
    <3>1. /\ c \in Caches /\ CacheOK(c)
          /\ SecLive(o[1], c[o].sit) /\ c[o].sit \in Gens
      BY <1>1, <2>2, ResolveType, ResolveOK DEF At
    <3>2. ~AtEnd(i, "sec")
      BY <2>2, Distinct DEF At, AtEnd, Cached
    <3>3. \E j \in Entries \cup {End} :
            IF j = End THEN Abort("check") ELSE ReadsEntry(i, c, j)
      BY <1>13, <3>1, <3>2 DEF SecDecrement
    <3>. QED
      BY <3>1, <3>3, SReadsEntry, SAbort
  <2>. QED
    BY <1>13, <2>1, <2>2 DEF SecDecrement
<1>14. CASE AvailablePrimaryKey(i)
  <2>1. PICK lo \in Rows \cup {End}, hi \in Rows \cup {End} :
          /\ DbLowerBound(0, lo) /\ DbLast(hi)
          /\ LET n == IF nextpk[i] # Unset THEN nextpk[i]
                      ELSE IF lo = End THEN 0
                      ELSE IF hi >= NoAvailable THEN NoAvailable ELSE hi + 1
                 c == IF nextpk[i] # Unset \/ lo = End THEN cache[i]
                      ELSE Load(Load(cache[i], lo), hi)
             IN  \/ n >= NoAvailable /\ Abort("check")
                 \/ /\ n < NoAvailable
                    /\ nextpk' = [nextpk EXCEPT ![i] = n]
                    /\ cache' = [cache EXCEPT ![i] = c]
                    /\ last' = "ok"
                    /\ UNCHANGED <<own, cur>>
                    /\ DbUnchanged
    BY <1>14 DEF AvailablePrimaryKey
  <2>. DEFINE n == IF nextpk[i] # Unset THEN nextpk[i]
                   ELSE IF lo = End THEN 0
                   ELSE IF hi >= NoAvailable THEN NoAvailable ELSE hi + 1
              c == IF nextpk[i] # Unset \/ lo = End THEN cache[i]
                   ELSE Load(Load(cache[i], lo), hi)
  <2>2. lo # End => hi # End
    BY <2>1, Distinct DEF DbLast, IsLast, Rows
  <2>3. CacheOK(c)
    <3>1. CASE nextpk[i] # Unset \/ lo = End
      BY <1>1, <3>1
    <3>2. CASE ~(nextpk[i] # Unset \/ lo = End)
      <4>1. lo \in Keys /\ tbl[lo] # Absent /\ hi \in Keys /\ tbl[hi] # Absent
        BY <2>2, <3>2 DEF Rows
      <4>2. Load(cache[i], lo) \in Caches /\ CacheOK(Load(cache[i], lo))
        BY <1>1, <4>1, LoadType, LoadOK
      <4>3. CacheOK(Load(Load(cache[i], lo), hi))
        BY <1>1, <4>1, <4>2, LoadOK
      <4>. QED
        BY <4>3, <3>2
    <3>. QED
      BY <3>1, <3>2
  <2>4. n < NoAvailable => \A k \in Rows : k < n
    <3>1. CASE nextpk[i] # Unset
      BY <3>1 DEF SInv, AvailableKeyUnused
    <3>2. CASE nextpk[i] = Unset /\ lo = End
      <4>1. {j \in Rows : j >= 0} = {}
        BY <2>1, <3>2, Distinct DEF DbLowerBound, IsFirst, Rows
      <4>2. Rows = {}
        <5>1. \A j \in Rows : j \in Nat
          BY Distinct DEF Rows
        <5>2. \A j \in Nat : j >= 0
          OBVIOUS
        <5>. QED
          BY <4>1, <5>1, <5>2
      <4>. QED
        BY <4>2
    <3>3. CASE nextpk[i] = Unset /\ lo # End
      <4>1. hi \in Rows /\ \A k \in Rows : k <= hi
        BY <2>1, <2>2, <3>3 DEF DbLast, IsLast
      <4>2. Rows \subseteq Nat
        BY Distinct DEF Rows
      <4>3. NoAvailable \in Nat
        BY Distinct DEF NoAvailable
      <4>4. CASE hi >= NoAvailable
        BY <3>3, <4>3, <4>4
      <4>5. CASE ~(hi >= NoAvailable)
        BY <3>3, <4>1, <4>2, <4>5
      <4>. QED
        BY <4>4, <4>5
    <3>. QED
      BY <3>1, <3>2, <3>3
  <2>5. CASE n >= NoAvailable /\ Abort("check")
    BY <2>5, SAbort
  <2>6. CASE /\ n < NoAvailable
             /\ nextpk' = [nextpk EXCEPT ![i] = n]
             /\ cache' = [cache EXCEPT ![i] = c]
             /\ last' = "ok"
             /\ UNCHANGED <<own, cur>>
             /\ DbUnchanged
    <3>1. GInv'
      BY <1>1, GReading
    <3>2. /\ cache \in [Insts -> Caches]
          /\ nextpk \in [Insts -> 0 .. KeyMax]
      BY <1>1 DEF GInv, TypeOK, Caches
    <3>3. tbl' = tbl /\ idx' = idx /\ gen' = gen /\ saved' = saved
      BY <2>6 DEF DbUnchanged, dbVars
    <3>. HIDE DEF n, c
    <3>4. CacheCoherent'
      BY <2>3, <2>6, <3>2, <3>3 DEF SInv, CacheCoherent, CacheOK, Live, Cached
    <3>5. AvailableKeyUnused'
      BY <2>4, <2>6, <3>2, <3>3 DEF SInv, AvailableKeyUnused, Rows
    <3>. QED
      BY <2>6, <3>1, <3>3, <3>4, <3>5 DEF SInv, IndexMatchesTable, NoDeadIterator
  <2>. QED
    BY <2>1, <2>5, <2>6
<1>. QED
  BY <1>2, <1>3, <1>4, <1>5, <1>6, <1>7, <1>8, <1>9, <1>10, <1>11, <1>12,
     <1>13, <1>14 DEF Reading

\* erase() of a row drops the only item of its key.
LEMMA SErases ==
    ASSUME SingleObject, SInv, NEW i \in Insts, NEW c \in Caches, CacheOK(c),
           NEW o \in Cached(c), NEW pos \in Cursors, Erases(i, c, o, pos)
    PROVE  SInv'
<1>1. GInv'
  BY GErases DEF SInv
<1>2. o \in Itrs /\ o[1] \in Keys /\ DbTypeOK /\ o = <<o[1], o[2]>>
  BY DEF Cached, Itrs, SInv, GInv, TypeOK
<1>3. /\ Live(o) /\ idx[o[1]] # Absent
      /\ c[o].sit >= 0 => SecLive(o[1], c[o].sit)
  <2>1. Live(o) /\ c[o].sit \in {Unknown, gen[o[1]]}
    BY DEF CacheOK
  <2>2. idx[o[1]] # Absent
    BY <2>1 DEF Live, SInv, IndexMatchesTable
  <2>3. ~(Unknown >= 0)
    BY DEF Unknown
  <2>. QED
    BY <2>1, <2>2, <2>3 DEF SecLive
<1>4. CASE Abort("check")
  BY <1>4, SAbort
<1>5. CASE /\ own /\ gen[o[1]] < MaxGen
           /\ DbRemove(o[1], EntryFound(c, o))
           /\ \E n \in Itrs : /\ Newest(c, o[1], n)
                              /\ cache' = [cache EXCEPT ![i] = Forget(c, n)]
           /\ cur' = [cur EXCEPT ![i] = pos]
           /\ last' = "ok"
           /\ UNCHANGED <<own, nextpk>>
  <2>1. /\ tbl' = [tbl EXCEPT ![o[1]] = Absent]
        /\ idx' = [idx EXCEPT ![o[1]] = Absent]
        /\ gen' = [gen EXCEPT ![o[1]] = @ + 1]
        /\ saved' = saved
    BY <1>3, <1>5 DEF DbRemove, EntryFound
  <2>2. PICK n \in Itrs : /\ Newest(c, o[1], n)
                          /\ cache' = [cache EXCEPT ![i] = Forget(c, n)]
    BY <1>5
  <2>3. \A p \in Cached(c) : p[1] = o[1] => p = n
    <3>1. n \in Cached(c) /\ n[1] = o[1]
      BY <2>2 DEF Newest
    <3>2. \A p \in Cached(c) : Live(p) /\ p = <<p[1], p[2]>>
      BY DEF CacheOK, Cached, Itrs
    <3>. QED
      BY <3>1, <3>2 DEF Live
  <2>4. Cached(Forget(c, n)) = {p \in Cached(c) : p[1] # o[1]}
    <3>1. n \in Cached(c) /\ n[1] = o[1]
      BY <2>2 DEF Newest
    <3>. QED
      BY <2>3, <3>1 DEF Forget, Cached, Caches
  <2>5. CacheCoherent'
    <3>1. \A j \in Insts : cache'[j] = Forget(c, n)
      BY <2>2 DEF SingleObject, SInv, GInv, TypeOK
    <3>2. \A p \in Cached(Forget(c, n)) :
            /\ p \in Cached(c) /\ p[1] # o[1] /\ Forget(c, n)[p] = c[p]
            /\ p[1] \in Keys
      BY <2>4 DEF Forget, Cached, Caches, Itrs
    <3>3. \A p \in Cached(Forget(c, n)) : tbl'[p[1]] = tbl[p[1]] /\ gen'[p[1]] = gen[p[1]]
      BY <1>2, <2>1, <3>2 DEF DbTypeOK
    <3>4. \A p \in Cached(Forget(c, n)) :
            /\ Live(p)'
            /\ c[p].sec = tbl'[p[1]]
            /\ c[p].sit \in {Unknown, gen'[p[1]]}
      BY <3>2, <3>3 DEF CacheOK, Live
    <3>. QED
      BY <3>1, <3>2, <3>4 DEF CacheCoherent, Cached
  <2>6. Rows' \subseteq Rows
    BY <1>2, <2>1 DEF Rows, DbTypeOK
  <2>7. AvailableKeyUnused'
    BY <1>5, <2>6 DEF SInv, AvailableKeyUnused
  <2>. QED
    BY <1>1, <1>5, <2>1, <2>5, <2>7 DEF SInv, IndexMatchesTable, NoDeadIterator
<1>. QED
  BY <1>3, <1>4, <1>5 DEF Erases

LEMMA SWriting ==
    ASSUME SingleObject, SInv, NEW i \in Insts, Writing(i)
    PROVE  SInv'
<1>1. /\ cache[i] \in Caches /\ DbTypeOK /\ CacheOK(cache[i])
      /\ IndexMatchesTable /\ GInv /\ cur[i] \in Cursors
      /\ nextpk[i] \in 0 .. KeyMax
  BY DEF SInv, GInv, TypeOK, Caches, CacheCoherent, CacheOK
<1>2. GInv'
  BY <1>1, GWriting
<1>3. /\ cache \in [Insts -> Caches]
      /\ nextpk \in [Insts -> 0 .. KeyMax]
  BY <1>1 DEF GInv, TypeOK, Caches
\* _next_primary_key stays above the rows when k is written.
<1>4. ASSUME NEW k \in Keys, Rows' \subseteq Rows \cup {k},
             nextpk' = [nextpk EXCEPT ![i] = Bump(nextpk[i], k)]
      PROVE  AvailableKeyUnused'
  <2>1. SUFFICES ASSUME NEW j \in Insts, nextpk'[j] < NoAvailable, NEW r \in Rows'
                 PROVE  r < nextpk'[j]
    BY DEF AvailableKeyUnused
  <2>2. j = i /\ nextpk'[j] = Bump(nextpk[i], k)
    BY <1>3, <1>4 DEF SingleObject
  <2>3. k \in Nat /\ r \in Nat /\ NoAvailable \in Nat /\ nextpk[i] \in Nat
    BY <1>1, <1>4, Distinct DEF NoAvailable, Rows
  <2>4. CASE k >= nextpk[i]
    <3>1. ~(k >= NoAvailable) /\ nextpk'[j] = k + 1
      BY <2>1, <2>2, <2>3, <2>4 DEF Bump
    <3>2. nextpk[i] < NoAvailable
      BY <2>3, <2>4, <3>1
    <3>3. \A q \in Rows : q < nextpk[i]
      BY <3>2 DEF SInv, AvailableKeyUnused
    <3>. QED
      BY <1>4, <2>3, <2>4, <3>1, <3>3
  <2>5. CASE ~(k >= nextpk[i])
    <3>1. nextpk'[j] = nextpk[i]
      BY <2>2, <2>5 DEF Bump
    <3>2. \A q \in Rows : q < nextpk[i]
      BY <2>1, <3>1 DEF SInv, AvailableKeyUnused
    <3>. QED
      BY <1>4, <2>3, <2>5, <3>1, <3>2
  <2>. QED
    BY <2>4, <2>5
<1>5. ASSUME NEW k \in Keys, NEW s \in Secs, Emplace(i, k, s) PROVE SInv'
  <2>1. CASE Abort("check") \/ Abort("exists")
    BY <2>1, SAbort
  <2>2. CASE /\ DbCanStore(k) /\ DbStore(k, s)
             /\ nextpk' = [nextpk EXCEPT ![i] = Bump(nextpk[i], k)]
             /\ cache' = [cache EXCEPT ![i][<<k, gen[k]>>] = [sec |-> s, sit |-> gen[k]]]
             /\ last' = "ok"
    <3>1. /\ tbl' = [tbl EXCEPT ![k] = s] /\ idx' = [idx EXCEPT ![k] = s]
          /\ gen' = gen /\ saved' = saved /\ tbl[k] = Absent
      BY <2>2 DEF DbStore, DbCanStore
    <3>2. <<k, gen[k]>> \in Itrs /\ s # Absent /\ gen[k] \in Gens
      BY <1>1, Distinct DEF DbTypeOK, Itrs
    <3>. DEFINE n == <<k, gen[k]>>
                d == [cache[i] EXCEPT ![n] = [sec |-> s, sit |-> gen[k]]]
    <3>3. \A j \in Insts : cache'[j] = d
      BY <1>3, <2>2 DEF SingleObject
    <3>4. \A p \in Cached(d) : p = n \/ (p \in Cached(cache[i]) /\ d[p] = cache[i][p])
      BY <1>1, <3>2 DEF Cached, Caches
    <3>5. \A p \in Cached(cache[i]) : p[1] # k /\ p[1] \in Keys
      BY <1>1, <3>1 DEF CacheOK, Live, Cached, Itrs
    <3>6. CacheCoherent'
      <4>1. SUFFICES ASSUME NEW p \in Cached(d)
                     PROVE  /\ Live(p)' /\ d[p].sec = tbl'[p[1]]
                            /\ d[p].sit \in {Unknown, gen'[p[1]]}
        BY <3>3 DEF CacheCoherent, Cached
      <4>2. CASE p = n
        BY <1>1, <3>1, <3>2, <4>2 DEF Live, DbTypeOK, Caches
      <4>3. CASE p # n
        <5>1. p \in Cached(cache[i]) /\ d[p] = cache[i][p] /\ p[1] # k /\ p[1] \in Keys
          BY <3>4, <3>5, <4>3
        <5>2. tbl'[p[1]] = tbl[p[1]] /\ gen'[p[1]] = gen[p[1]]
          BY <1>1, <3>1, <5>1 DEF DbTypeOK
        <5>. QED
          BY <1>1, <5>1, <5>2 DEF CacheOK, Live
      <4>. QED
        BY <4>2, <4>3
    <3>7. Rows' \subseteq Rows \cup {k}
      BY <1>1, <3>1 DEF Rows, DbTypeOK
    <3>8. AvailableKeyUnused'
      BY <1>4, <2>2, <3>7
    <3>. QED
      BY <1>1, <1>2, <2>2, <3>1, <3>6, <3>8 DEF SInv, IndexMatchesTable,
         NoDeadIterator
  <2>. QED
    BY <1>5, <2>1, <2>2 DEF Emplace
<1>6. ASSUME NEW o \in Itrs, NEW s \in Secs, Modify(i, o, s) PROVE SInv'
  <2>. DEFINE c == cache[i]
              k == o[1]
              diff == Differs(c[o], s)
              sit == IF diff /\ c[o].sit \in {Unknown, NoEntry}
                       THEN IF idx[k] = Absent THEN NoEntry ELSE gen[k]
                       ELSE c[o].sit
              good == Live(o) /\ (diff => SecLive(k, sit))
  <2>1. /\ o \in Cached(c)
        /\ \/ Abort("check")
           \/ ~good /\ Abort("dead")
           \/ /\ own /\ good
              /\ DbUpdate(k, s, diff)
              /\ nextpk' = [nextpk EXCEPT ![i] = Bump(nextpk[i], k)]
              /\ cache' = [cache EXCEPT ![i][o] = [sec |-> s, sit |-> sit]]
              /\ last' = "ok"
              /\ UNCHANGED <<own, cur>>
    BY <1>6 DEF Modify
  <2>2. /\ k \in Keys /\ gen[k] \in Gens /\ c[o] \in Items
        /\ Live(o) /\ tbl[k] # Absent /\ idx[k] # Absent
        /\ c[o].sec = tbl[k] /\ c[o].sit \in {Unknown, gen[k]}
    BY <1>1, <2>1 DEF Itrs, DbTypeOK, Cached, Caches, CacheOK, Live,
       IndexMatchesTable
  <2>3. good /\ sit \in {Unknown, gen[k]}
    <3>1. gen[k] # NoEntry /\ gen[k] # Unknown
      BY <2>2, Distinct DEF Gens, NoEntry, Unknown
    <3>. QED
      BY <2>2, <3>1 DEF SecLive
  <2>4. CASE /\ DbUpdate(k, s, diff)
             /\ nextpk' = [nextpk EXCEPT ![i] = Bump(nextpk[i], k)]
             /\ cache' = [cache EXCEPT ![i][o] = [sec |-> s, sit |-> sit]]
             /\ last' = "ok"
    <3>1. /\ tbl' = [tbl EXCEPT ![k] = s] /\ gen' = gen /\ saved' = saved
          /\ idx' = IF diff THEN [idx EXCEPT ![k] = s] ELSE idx
      BY <2>4 DEF DbUpdate
    <3>2. IndexMatchesTable'
      <4>1. CASE diff
        BY <1>1, <3>1, <4>1 DEF IndexMatchesTable
      <4>2. CASE ~diff
        <5>1. tbl[k] = s
          BY <2>2, <4>2 DEF Differs
        <5>2. tbl' = tbl
          BY <1>1, <2>2, <3>1, <5>1 DEF DbTypeOK
        <5>. QED
          BY <1>1, <3>1, <4>2, <5>2 DEF IndexMatchesTable
      <4>. QED
        BY <4>1, <4>2
    <3>. DEFINE d == [cache[i] EXCEPT ![o] = [sec |-> s, sit |-> sit]]
    <3>3. \A j \in Insts : cache'[j] = d
      BY <1>3, <2>4 DEF SingleObject
    <3>. HIDE DEF sit, diff
    <3>4. d[o] = [sec |-> s, sit |-> sit] /\ s # Absent
          /\ \A p \in Cached(d) : p = o \/ (p \in Cached(c) /\ d[p] = c[p])
      BY <1>1, <2>1, Distinct DEF Cached, Caches
    <3>5. \A p \in Cached(c) : p[1] = k => p = o
      <4>1. \A p \in Cached(c) : Live(p) /\ p = <<p[1], p[2]>>
        BY <1>1 DEF CacheOK, Cached, Itrs
      <4>. QED
        BY <2>1, <4>1 DEF Live
    <3>6. CacheCoherent'
      <4>1. SUFFICES ASSUME NEW p \in Cached(d)
                     PROVE  /\ Live(p)' /\ d[p].sec = tbl'[p[1]]
                            /\ d[p].sit \in {Unknown, gen'[p[1]]}
        BY <3>3 DEF CacheCoherent, Cached
      <4>2. CASE p = o
        BY <1>1, <2>2, <2>3, <3>1, <3>4, <4>2 DEF Live, DbTypeOK
      <4>3. CASE p # o
        <5>1. p \in Cached(c) /\ d[p] = c[p] /\ p[1] # k /\ p[1] \in Keys
          BY <3>4, <3>5, <4>3 DEF Cached, Itrs
        <5>2. tbl'[p[1]] = tbl[p[1]] /\ gen'[p[1]] = gen[p[1]]
          BY <1>1, <3>1, <5>1 DEF DbTypeOK
        <5>. QED
          BY <1>1, <5>1, <5>2 DEF CacheOK, Live
      <4>. QED
        BY <4>2, <4>3
    <3>7. Rows' \subseteq Rows \cup {k}
      BY <1>1, <3>1 DEF Rows, DbTypeOK
    <3>8. AvailableKeyUnused'
      BY <1>4, <2>2, <2>4, <3>7
    <3>. QED
      BY <1>2, <2>4, <3>1, <3>2, <3>6, <3>8 DEF SInv, NoDeadIterator
  <2>. QED
    BY <2>1, <2>3, <2>4, SAbort
<1>7. ASSUME NEW o \in Itrs, ModifyKey(i, o) PROVE SInv'
  BY <1>7, SAbort DEF ModifyKey
<1>8. ASSUME NEW o \in Itrs, EraseObject(i, o) PROVE SInv'
  BY <1>1, <1>8, SErases DEF EraseObject
<1>9. CASE EraseIterator(i)
  <2>1. CASE AtEnd(i, "pri") /\ Abort("check")
    BY <2>1, SAbort
  <2>2. CASE At(i, "pri")
    <3>1. cur[i].at \in Cached(cache[i]) /\ Live(cur[i].at)
      BY <1>1, <2>2 DEF At, CacheOK
    <3>2. ~AtEnd(i, "pri")
      BY <3>1, Distinct DEF AtEnd, Cached
    <3>3. PICK j \in Rows \cup {End} :
            IF j = End
              THEN Erases(i, cache[i], cur[i].at, [ix |-> "pri", at |-> End])
              ELSE Erases(i, Load(cache[i], j), cur[i].at,
                          [ix |-> "pri", at |-> <<j, gen[j]>>])
      BY <1>9, <3>1, <3>2 DEF EraseIterator
    <3>4. CASE j = End
      <4>1. [ix |-> "pri", at |-> End] \in Cursors
        BY DEF Cursors
      <4>. QED
        BY <1>1, <3>1, <3>3, <3>4, <4>1, SErases
    <3>5. CASE j # End
      <4>1. j \in Keys /\ tbl[j] # Absent
        BY <3>5 DEF Rows
      <4>2. /\ Load(cache[i], j) \in Caches /\ <<j, gen[j]>> \in Itrs
            /\ CacheOK(Load(cache[i], j))
        BY <1>1, <4>1, LoadType, LoadOK
      <4>3. [ix |-> "pri", at |-> <<j, gen[j]>>] \in Cursors
        BY <4>2 DEF Cursors
      <4>4. cur[i].at \in Cached(Load(cache[i], j))
        <5>1. [sec |-> tbl[j], sit |-> Unknown] # Absent
          <6>1. [sec |-> tbl[j], sit |-> Unknown] \in Items
            BY <1>1, <4>1 DEF DbTypeOK, Items
          <6>. QED
            BY <6>1, Distinct
        <5>. QED
          BY <1>1, <3>1, <4>2, <5>1 DEF Load, Cached, Caches
      <4>. QED
        BY <3>3, <3>5, <4>2, <4>3, <4>4, SErases
    <3>. QED
      BY <3>4, <3>5
  <2>. QED
    BY <1>9, <2>1, <2>2 DEF EraseIterator
<1>10. CASE SecEraseIterator(i)
  <2>. DEFINE o == cur[i].at
              c == Resolve(cache[i], o)
  <2>1. CASE AtEnd(i, "sec") /\ Abort("check")
    BY <2>1, SAbort
  <2>2. CASE At(i, "sec")
    <3>1. /\ c \in Caches /\ CacheOK(c) /\ o \in Cached(c)
          /\ SecLive(o[1], c[o].sit) /\ c[o].sit \in Gens
      BY <1>1, <2>2, ResolveType, ResolveOK DEF At
    <3>2. ~AtEnd(i, "sec") /\ c[o].sit # NoEntry
      BY <2>2, <3>1, Distinct DEF At, AtEnd, Cached, Gens, NoEntry
    <3>3. \/ Erases(i, c, o, [ix |-> "sec", at |-> End])
          \/ \E j \in Entries : \E p \in Itrs, d \in {c, Load(c, j)} :
                /\ Finds(c, j, p, d)
                /\ Erases(i, [d EXCEPT ![p].sit = gen[j]], o,
                          [ix |-> "sec", at |-> p])
      BY <1>10, <3>1, <3>2 DEF SecEraseIterator
    <3>4. CASE Erases(i, c, o, [ix |-> "sec", at |-> End])
      <4>1. [ix |-> "sec", at |-> End] \in Cursors
        BY DEF Cursors
      <4>. QED
        BY <3>1, <3>4, <4>1, SErases
    <3>5. CASE \E j \in Entries : \E p \in Itrs, d \in {c, Load(c, j)} :
                /\ Finds(c, j, p, d)
                /\ Erases(i, [d EXCEPT ![p].sit = gen[j]], o,
                          [ix |-> "sec", at |-> p])
      <4>. PICK j \in Entries : \E p \in Itrs, d \in {c, Load(c, j)} :
                /\ Finds(c, j, p, d)
                /\ Erases(i, [d EXCEPT ![p].sit = gen[j]], o,
                          [ix |-> "sec", at |-> p])
        BY <3>5
      <4>1. PICK p \in Itrs, d \in {c, Load(c, j)} :
                /\ Finds(c, j, p, d)
                /\ Erases(i, [d EXCEPT ![p].sit = gen[j]], o,
                          [ix |-> "sec", at |-> p])
        OBVIOUS
      <4>2. j \in Keys /\ gen[j] \in Gens /\ tbl[j] # Absent
        BY <1>1 DEF Entries, DbTypeOK, IndexMatchesTable
      <4>. HIDE DEF c, o
      <4>3. d \in Caches /\ CacheOK(d) /\ p \in Cached(d) /\ p = <<j, gen[j]>>
        BY <1>1, <3>1, <4>1, <4>2, FindsOK
      <4>4. o \in Cached(d)
        <5>1. [sec |-> tbl[j], sit |-> Unknown] # Absent
          BY <1>1, <4>2, Distinct DEF DbTypeOK, Items
        <5>. QED
          BY <1>1, <3>1, <4>1, <4>2, <5>1 DEF Load, Cached, Caches, DbTypeOK, Itrs
      <4>5. /\ [d EXCEPT ![p].sit = gen[j]] \in Caches
            /\ o \in Cached([d EXCEPT ![p].sit = gen[j]])
            /\ CacheOK([d EXCEPT ![p].sit = gen[j]])
        <5>1. p[1] = j
          BY <4>3
        <5>2. CacheOK([d EXCEPT ![p].sit = gen[p[1]]])
          BY <1>1, <4>3, SitOK
        <5>. QED
          BY <4>2, <4>3, <4>4, <5>1, <5>2, SitType
      <4>6. [ix |-> "sec", at |-> p] \in Cursors
        BY DEF Cursors
      <4>. QED
        BY <4>1, <4>5, <4>6, SErases
    <3>. QED
      BY <3>3, <3>4, <3>5
  <2>. QED
    BY <1>10, <2>1, <2>2 DEF SecEraseIterator
<1>. QED
  BY <1>5, <1>6, <1>7, <1>8, <1>9, <1>10 DEF Writing

LEMMA SNext ==
    ASSUME SingleObject, SInv, [Next]_vars
    PROVE  SInv'
<1>1. ASSUME NEW i \in Insts, Reading(i) PROVE SInv'
  BY <1>1, SReading
<1>2. ASSUME NEW i \in Insts, Writing(i) PROVE SInv'
  BY <1>2, SWriting
<1>3. GInv'
  BY GNext DEF SInv
<1>4. CASE EndAction
  BY <1>3, <1>4, SFresh DEF EndAction, DbCommit, SInv, IndexMatchesTable,
     NoDeadIterator
<1>5. CASE UNCHANGED vars
  BY <1>3, <1>5 DEF vars, SInv, CacheCoherent, IndexMatchesTable,
     AvailableKeyUnused, NoDeadIterator, Live, Cached, Rows
<1>. QED
  BY <1>1, <1>2, <1>4, <1>5 DEF Next

LEMMA SInit == Init => SInv
<1>. SUFFICES ASSUME Init PROVE SInv
  OBVIOUS
<1>1. GInv
  BY GInit
<1>2. \A i \in Insts : Cached(cache[i]) = {} /\ nextpk[i] = Unset
  BY DEF Init, EmptyCache, Cached
<1>3. ~(Unset < NoAvailable)
  BY Distinct DEF Unset, NoAvailable
<1>. QED
  BY <1>1, <1>2, <1>3 DEF Init, DbInit, SInv, CacheCoherent, IndexMatchesTable,
     AvailableKeyUnused, NoDeadIterator

\* With one object on a table, every cached item is the stored row and the
\* index has the secondary key of every row.
THEOREM Coherence ==
    ASSUME SingleObject
    PROVE  Spec => [](CacheCoherent /\ IndexMatchesTable)
<1>1. SInv => CacheCoherent /\ IndexMatchesTable
  BY DEF SInv
<1>. QED
  BY <1>1, SInit, SNext, PTL DEF Spec

\* With one object per table modify and erase keep the index exact: an entry
\* for every row, under the secondary key of the row.
THEOREM IndexExact ==
    ASSUME SingleObject
    PROVE  Spec => []IndexMatchesTable
BY Coherence, PTL

\* With one object on a table, the host is never given an iterator of a
\* removed object.
THEOREM IteratorsValid ==
    ASSUME SingleObject
    PROVE  Spec => []NoDeadIterator
<1>1. SInv => NoDeadIterator
  BY DEF SInv
<1>. QED
  BY <1>1, SInit, SNext, PTL DEF Spec

\* With one object on a table, the key available_primary_key() remembers is
\* above every key in use.
THEOREM FreshKeys ==
    ASSUME SingleObject
    PROVE  Spec => []AvailableKeyUnused
<1>1. SInv => AvailableKeyUnused
  BY DEF SInv
<1>. QED
  BY <1>1, SInit, SNext, PTL DEF Spec

(***************************************************************************)
(* Any number of objects: what tears a row from its index entry.           *)
(***************************************************************************)

\* The step leaves the host's tables alone, or it was aborted.
Quiet == UNCHANGED dbVars \/ last' # "ok"

\* Some object has an item of row k with another key than the index entry's.
Stale(k) == \E i \in Insts : \E o \in Cached(cache[i]) :
              o[1] = k /\ cache[i][o].sec # idx[k]

TearsOnlyStale ==
    last' = "ok" => \A k \in Keys : tbl[k] = idx[k] /\ tbl'[k] # idx'[k] => Stale(k)

LEMMA QuietReads ==
    ASSUME NEW i, NEW ix, NEW o, NEW d, Reads(i, ix, o, d)
    PROVE  Quiet
BY DEF Reads, DbUnchanged, Quiet

LEMMA QuietAbort ==
    ASSUME NEW why \in {"check", "exists", "dead"}, Abort(why)
    PROVE  Quiet
BY DEF Abort, Quiet

LEMMA QuietReadsRow ==
    ASSUME NEW i, NEW k, ReadsRow(i, k)
    PROVE  Quiet
BY QuietReads DEF ReadsRow

LEMMA QuietReadsEntry ==
    ASSUME NEW i, NEW c, NEW k, ReadsEntry(i, c, k)
    PROVE  Quiet
BY QuietReads DEF ReadsEntry

\* No const member function writes to the tables of the host.
LEMMA QuietReading ==
    ASSUME NEW i \in Insts, Reading(i)
    PROVE  Quiet
<1>1. ASSUME NEW k \in Keys, Find(i, k) PROVE Quiet
  BY <1>1, QuietReads DEF Find
<1>2. ASSUME NEW k \in Keys, RequireFind(i, k) PROVE Quiet
  BY <1>2, QuietReads, QuietAbort DEF RequireFind
<1>3. ASSUME NEW k \in Keys, LowerBound(i, k) \/ UpperBound(i, k) PROVE Quiet
  BY <1>3, QuietReadsRow DEF LowerBound, UpperBound
<1>4. ASSUME NEW o \in Itrs, IteratorTo(i, o) PROVE Quiet
  BY <1>4, QuietReads DEF IteratorTo
<1>5. ASSUME NEW ix \in {"pri", "sec"}, EndIterator(i, ix) PROVE Quiet
  BY <1>5, QuietReads DEF EndIterator
<1>6. CASE Increment(i)
  BY <1>6, QuietReadsRow, QuietAbort DEF Increment
<1>7. CASE Decrement(i)
  BY <1>7, QuietReadsRow, QuietAbort DEF Decrement
<1>8. ASSUME NEW s \in Secs, SecLowerBound(i, s) \/ SecUpperBound(i, s) PROVE Quiet
  BY <1>8, QuietReadsEntry DEF SecLowerBound, SecUpperBound
<1>9. ASSUME NEW s \in Secs, NEW required \in BOOLEAN, SecFind(i, s, required)
      PROVE  Quiet
  BY <1>9, QuietReads, QuietAbort DEF SecFind
<1>10. ASSUME NEW o \in Itrs, SecIteratorTo(i, o) PROVE Quiet
  BY <1>10, QuietReads DEF SecIteratorTo
<1>11. CASE SecIncrement(i)
  BY <1>11, QuietReads, QuietReadsEntry, QuietAbort DEF SecIncrement
<1>12. CASE SecDecrement(i)
  BY <1>12, QuietReadsEntry, QuietAbort DEF SecDecrement
<1>13. CASE AvailablePrimaryKey(i)
  BY <1>13, QuietAbort DEF AvailablePrimaryKey, DbUnchanged, Quiet
<1>. QED
  BY <1>1, <1>2, <1>3, <1>4, <1>5, <1>6, <1>7, <1>8, <1>9, <1>10, <1>11,
     <1>12, <1>13 DEF Reading

LEMMA QuietTears ==
    ASSUME Quiet
    PROVE  TearsOnlyStale
BY DEF Quiet, TearsOnlyStale, dbVars

\* erase removes the row and its entry, whether or not the item knew the
\* iterator of the entry.
LEMMA ErasesTears ==
    ASSUME GInv, NEW i, NEW c, NEW o \in Itrs, NEW pos, Erases(i, c, o, pos)
    PROVE  TearsOnlyStale
<1>1. CASE Abort("check") \/ Abort("dead")
  BY <1>1, QuietAbort, QuietTears
<1>2. CASE Live(o) /\ DbRemove(o[1], EntryFound(c, o))
  <2>1. o[1] \in Keys /\ tbl[o[1]] # Absent
    BY <1>2 DEF Live, Itrs
  <2>2. idx[o[1]] # Absent
    BY <2>1 DEF GInv, SameKeys, Rows, Entries
  <2>3. EntryFound(c, o)
    BY <2>2 DEF EntryFound
  <2>4. tbl' = [tbl EXCEPT ![o[1]] = Absent] /\ idx' = [idx EXCEPT ![o[1]] = Absent]
    BY <1>2, <2>3 DEF DbRemove
  <2>. QED
    BY <2>4 DEF TearsOnlyStale, GInv, TypeOK, DbTypeOK
<1>. QED
  BY <1>1, <1>2 DEF Erases

LEMMA WritingTears ==
    ASSUME GInv, NEW i \in Insts, Writing(i)
    PROVE  TearsOnlyStale
<1>1. ASSUME NEW k \in Keys, NEW s \in Secs, Emplace(i, k, s)
      PROVE  TearsOnlyStale
  <2>1. CASE Abort("check") \/ Abort("exists")
    BY <2>1, QuietAbort, QuietTears
  <2>2. CASE DbStore(k, s)
    BY <2>2 DEF DbStore, TearsOnlyStale, GInv, TypeOK, DbTypeOK
  <2>. QED
    BY <1>1, <2>1, <2>2 DEF Emplace
<1>2. ASSUME NEW o \in Itrs, NEW s \in Secs, Modify(i, o, s)
      PROVE  TearsOnlyStale
  <2>1. CASE Abort("check") \/ Abort("dead")
    BY <2>1, QuietAbort, QuietTears
  <2>2. CASE DbUpdate(o[1], s, Differs(cache[i][o], s))
    <3>1. o \in Cached(cache[i]) /\ o[1] \in Keys
      BY <1>2 DEF Modify, Itrs
    <3>2. tbl' = [tbl EXCEPT ![o[1]] = s]
      BY <2>2 DEF DbUpdate
    <3>3. CASE Differs(cache[i][o], s)
      <4>1. idx' = [idx EXCEPT ![o[1]] = s]
        BY <2>2, <3>3 DEF DbUpdate
      <4>. QED
        BY <3>2, <4>1 DEF TearsOnlyStale, GInv, TypeOK, DbTypeOK
    <3>4. CASE ~Differs(cache[i][o], s)
      <4>1. idx' = idx /\ cache[i][o].sec = s
        BY <2>2, <3>4 DEF DbUpdate, Differs
      <4>2. ASSUME NEW k \in Keys, tbl[k] = idx[k], tbl'[k] # idx'[k]
            PROVE  Stale(k)
        <5>1. k = o[1]
          BY <3>2, <4>1, <4>2 DEF GInv, TypeOK, DbTypeOK
        <5>2. cache[i][o].sec # idx[k]
          BY <3>1, <3>2, <4>1, <4>2, <5>1 DEF GInv, TypeOK, DbTypeOK
        <5>. QED
          BY <3>1, <5>1, <5>2 DEF Stale
      <4>. QED
        BY <4>2 DEF TearsOnlyStale
    <3>. QED
      BY <3>3, <3>4
  <2>. QED
    BY <1>2, <2>1, <2>2 DEF Modify
<1>3. ASSUME NEW o \in Itrs, ModifyKey(i, o) PROVE TearsOnlyStale
  BY <1>3, QuietAbort, QuietTears DEF ModifyKey
<1>4. ASSUME NEW o \in Itrs, EraseObject(i, o) PROVE TearsOnlyStale
  BY <1>4, ErasesTears DEF EraseObject
<1>5. CASE EraseIterator(i)
  BY <1>5, ErasesTears, QuietAbort, QuietTears DEF EraseIterator, At, Cached
<1>6. CASE SecEraseIterator(i)
  BY <1>6, ErasesTears, QuietAbort, QuietTears DEF SecEraseIterator, At, Cached
<1>. QED
  BY <1>1, <1>2, <1>3, <1>4, <1>5, <1>6 DEF Writing

\* Whatever objects write to a table, a row and its index entry come to
\* disagree only in a modify() through an item that did not have the key the
\* entry has: contracts whose objects read the row after its last write never
\* tear the two apart.
THEOREM TornOnlyByStaleItems == Spec => OnlyStaleItemsTear
<1>1. ASSUME GInv, [Next]_vars
      PROVE  TearsOnlyStale
  <2>1. ASSUME NEW i \in Insts, Reading(i) PROVE TearsOnlyStale
    BY <2>1, QuietReading, QuietTears
  <2>2. ASSUME NEW i \in Insts, Writing(i) PROVE TearsOnlyStale
    BY <1>1, <2>2, WritingTears
  <2>3. CASE EndAction
    BY <2>3 DEF EndAction, DbCommit, TearsOnlyStale
  <2>4. CASE UNCHANGED vars
    BY <2>4 DEF vars, TearsOnlyStale
  <2>. QED
    BY <1>1, <2>1, <2>2, <2>3, <2>4 DEF Next
<1>2. GInv /\ [Next]_vars =>
        [last' = "ok" =>
           \A k \in Keys :
             tbl[k] = idx[k] /\ tbl'[k] # idx'[k] =>
               \E i \in Insts : \E o \in Cached(cache[i]) :
                 o[1] = k /\ cache[i][o].sec # idx[k]]_vars
  BY <1>1 DEF TearsOnlyStale, Stale
<1>. QED
  BY <1>2, GInit, GNext, PTL DEF Spec, OnlyStaleItemsTear

(***************************************************************************)
(* One object per table: what a lookup answers.                            *)
(***************************************************************************)

\* find() stands on the stored row or at the end.
LEMMA FindExact ==
    ASSUME SInv, NEW i \in Insts, NEW k \in Keys, Find(i, k)
    PROVE  cur'[i].at = IF tbl[k] = Absent THEN End ELSE <<k, gen[k]>>
<1>1. DbTypeOK /\ cache[i] \in Caches /\ CacheOK(cache[i])
  BY DEF SInv, GInv, TypeOK, Caches, CacheCoherent, CacheOK
<1>2. PICK o, d : Finds(cache[i], k, o, d) /\ Reads(i, "pri", o, d)
  BY DEF Find
<1>3. o = IF tbl[k] = Absent THEN End ELSE <<k, gen[k]>>
  BY <1>1, <1>2, FindsOK
<1>4. cur'[i].at = o
  BY <1>2 DEF Reads, SInv, GInv, TypeOK
<1>. QED
  BY <1>3, <1>4

\* The entry at the lower bound of s has the key s, or no row has it.
LEMMA LowerBoundDecides ==
    ASSUME DbTypeOK, IndexMatchesTable, NEW s \in Secs,
           NEW j \in Entries \cup {End}, DbIdxLowerBound(s, j)
    PROVE  /\ j = End => \A k \in Keys : tbl[k] # s
           /\ j # End /\ tbl[j] # s => \A k \in Keys : tbl[k] # s
<1>1. ASSUME NEW k \in Keys, tbl[k] = s
      PROVE  k \in {e \in Entries : idx[e] >= s}
  BY <1>1, Distinct DEF Entries, IndexMatchesTable, DbTypeOK
<1>2. CASE j = End
  BY <1>1, <1>2, Distinct DEF DbIdxLowerBound, IsFirstSec, Entries
<1>3. CASE j # End
  <2>1. j \in {e \in Entries : idx[e] >= s}
    BY <1>3 DEF DbIdxLowerBound, IsFirstSec
  <2>2. ASSUME NEW k \in Keys, tbl[k] = s
        PROVE  tbl[j] = s
    <3>1. k = j \/ SecLess(j, k)
      BY <1>1, <1>3, <2>2 DEF DbIdxLowerBound, IsFirstSec
    <3>2. tbl[j] \in Nat /\ tbl[j] >= s /\ s \in Nat
      BY <2>1, Distinct DEF DbTypeOK, Entries, IndexMatchesTable
    <3>3. SecLess(j, k) => tbl[j] <= s
      BY <2>2, <3>2 DEF SecLess, IndexMatchesTable
    <3>. QED
      BY <2>2, <3>1, <3>2, <3>3
  <2>. QED
    BY <1>3, <2>2
<1>. QED
  BY <1>2, <1>3

\* The step of a find() of the index: from the entry j at the lower bound to
\* the row of the key, if there is one.
LEMMA SecFindCases ==
    ASSUME SInv, NEW i \in Insts, NEW s \in Secs, NEW required \in BOOLEAN,
           SecFind(i, s, required)
    PROVE  \/ Abort("check") /\ required
           \/ \E j \in Entries : \E d :
                /\ DbIdxLowerBound(s, j) /\ tbl[j] = s
                /\ Reads(i, "sec", <<j, gen[j]>>, d)
           \/ \E d : (\A k \in Keys : tbl[k] # s) /\ Reads(i, "sec", End, d)
<1>1. DbTypeOK /\ cache[i] \in Caches /\ CacheOK(cache[i]) /\ IndexMatchesTable
  BY DEF SInv, GInv, TypeOK, Caches, CacheCoherent, CacheOK
<1>2. PICK j \in Entries \cup {End} :
      /\ DbIdxLowerBound(s, j)
      /\ \/ j = End /\ IF required THEN Abort("check")
                                   ELSE Reads(i, "sec", End, cache[i])
         \/ /\ j # End
            /\ \E o \in Itrs, d \in {cache[i], Load(cache[i], j)} :
                 /\ Finds(cache[i], j, o, d)
                 /\ LET e == [d EXCEPT ![o].sit = gen[j]]
                    IN  \/ Matches(d[o], s) /\ Reads(i, "sec", o, e)
                        \/ ~Matches(d[o], s) /\ required /\ Abort("check")
                        \/ ~Matches(d[o], s) /\ ~required /\ Reads(i, "sec", End, e)
  BY DEF SecFind
<1>3. CASE j = End
  BY <1>1, <1>2, <1>3, LowerBoundDecides
<1>4. CASE j # End
  <2>1. j \in Keys /\ j \in Entries /\ tbl[j] # Absent
    BY <1>1, <1>4 DEF Entries, IndexMatchesTable
  <2>2. PICK o \in Itrs, d \in {cache[i], Load(cache[i], j)} :
          /\ Finds(cache[i], j, o, d)
          /\ \/ Matches(d[o], s) /\ Reads(i, "sec", o, [d EXCEPT ![o].sit = gen[j]])
             \/ required /\ Abort("check")
             \/ ~Matches(d[o], s) /\ Reads(i, "sec", End, [d EXCEPT ![o].sit = gen[j]])
    BY <1>2, <1>4
  <2>3. o = <<j, gen[j]>> /\ d[o].sec = tbl[j]
    BY <1>1, <2>1, <2>2, FindsOK DEF CacheOK
  <2>4. Matches(d[o], s) <=> tbl[j] = s
    BY <2>3 DEF Matches
  <2>5. tbl[j] # s => \A k \in Keys : tbl[k] # s
    BY <1>1, <1>2, <1>4, LowerBoundDecides
  <2>. QED
    BY <1>2, <2>1, <2>2, <2>3, <2>4, <2>5
<1>. QED
  BY <1>3, <1>4

LEMMA SecFindExact ==
    ASSUME SInv, NEW i \in Insts, NEW s \in Secs, SecFind(i, s, FALSE)
    PROVE  cur'[i].at = End <=> \A k \in Keys : tbl[k] # s
<1>1. CASE \E j \in Entries : \E d : tbl[j] = s /\ Reads(i, "sec", <<j, gen[j]>>, d)
  <2>1. PICK j, d : j \in Entries /\ tbl[j] = s /\ Reads(i, "sec", <<j, gen[j]>>, d)
    BY <1>1
  <2>2. cur'[i].at = <<j, gen[j]>>
    BY <2>1 DEF Reads, SInv, GInv, TypeOK
  <2>3. j \in Keys /\ <<j, gen[j]>> \in Itrs
    BY <2>1 DEF Entries, SInv, GInv, TypeOK, DbTypeOK, Itrs
  <2>. QED
    BY <2>1, <2>2, <2>3, Distinct
<1>2. CASE \E d : (\A k \in Keys : tbl[k] # s) /\ Reads(i, "sec", End, d)
  BY <1>2 DEF Reads, SInv, GInv, TypeOK
<1>. QED
  BY <1>1, <1>2, SecFindCases

\* With one object per table find() by primary key finds exactly the stored
\* rows and find() of the index fails exactly when no row has the key,
\* although both answer from the object's cache.
THEOREM LookupsAreExact ==
    ASSUME SingleObject
    PROVE  Spec => LookupsExact
<1>1. SInv =>
        [last' = "ok" /\ UNCHANGED dbVars =>
           \A i \in Insts :
             /\ cur'[i].ix = "pri" => \A k \in Keys :
                  Find(i, k)
                    => cur'[i].at = IF tbl[k] = Absent THEN End ELSE <<k, gen[k]>>
             /\ cur'[i].ix = "sec" => \A s \in Secs :
                  SecFind(i, s, FALSE)
                    => (cur'[i].at = End <=> \A k \in Keys : tbl[k] # s)]_vars
  BY FindExact, SecFindExact
<1>2. SInv /\ [Next]_vars => SInv'
  BY SNext
<1>. QED
  BY <1>1, <1>2, SInit, PTL DEF Spec, LookupsExact

(***************************************************************************)
(* One object per table: the ordered table it implements.                  *)
(***************************************************************************)

TableStep == [Table!TableNext]_(Table!tableVars)

\* The host's order of rows and entries is the order of the table.
LEMMA OrderOfRows ==
    ASSUME DbTypeOK, NEW S \in SUBSET Keys, NEW x
    PROVE  /\ IsFirst(S, x) => Table!First("pri", S, x)
           /\ IsLast(S, x) => Table!Last("pri", S, x)
<1>1. S \subseteq Nat
  BY Distinct
<1>2. \A y, z \in S : y <= z => y = z \/ Table!Before("pri", y, z)
  BY <1>1 DEF Table!Before
<1>. QED
  BY <1>2 DEF IsFirst, IsLast, Table!First, Table!Last

LEMMA OrderOfEntries ==
    ASSUME IndexMatchesTable, NEW S \in SUBSET Keys, NEW x
    PROVE  /\ IsFirstSec(S, x) => Table!First("sec", S, x)
           /\ IsLastSec(S, x) => Table!Last("sec", S, x)
<1>1. \A y, z : SecLess(y, z) <=> Table!Before("sec", y, z)
  BY DEF SecLess, Table!Before, IndexMatchesTable
<1>. QED
  BY <1>1 DEF IsFirstSec, IsLastSec, Table!First, Table!Last

LEMMA SameRows == Table!Present = Rows /\ (IndexMatchesTable => Entries = Rows)
BY DEF Table!Present, Rows, Entries, IndexMatchesTable

\* The table is seen through the only object.
LEMMA OnlyOne ==
    ASSUME NEW i, Insts = {i}
    PROVE  One = i
BY DEF One

\* An abort is an undo.
LEMMA TAbort ==
    ASSUME NEW i, Insts = {i}, NEW why, Abort(why)
    PROVE  TableStep
<1>1. tbl' = saved.tbl /\ saved' = saved /\ cur'[i] = [ix |-> "pri", at |-> End]
  BY DEF Abort, DbRollback, FreshObjects
<1>2. Table!Undo
  BY <1>1, OnlyOne DEF Table!Undo, Key
<1>. QED
  BY <1>2 DEF TableStep, Table!TableNext

\* A lookup places the iterator.
LEMMA TReads ==
    ASSUME SInv, NEW i, Insts = {i}, NEW ix, NEW o, NEW d, Reads(i, ix, o, d)
    PROVE  Table!Place(ix, Key(o))
<1>1. tbl' = tbl /\ saved' = saved /\ cur'[i] = [ix |-> ix, at |-> o]
  BY DEF Reads, DbUnchanged, dbVars, SInv, GInv, TypeOK
<1>. QED
  BY <1>1, OnlyOne DEF Table!Place

LEMMA KeyOf ==
    /\ Key(End) = End
    /\ \A o \in Itrs : Key(o) = o[1]
BY Distinct DEF Key

LEMMA TReadsRow ==
    ASSUME SInv, NEW i, Insts = {i}, NEW k \in Rows \cup {End}, ReadsRow(i, k)
    PROVE  Table!Place("pri", k)
<1>1. CASE k = End
  BY <1>1, TReads, KeyOf DEF ReadsRow
<1>2. CASE k # End
  <2>1. <<k, gen[k]>> \in Itrs
    BY <1>2 DEF Rows, Itrs, SInv, GInv, TypeOK, DbTypeOK
  <2>2. Key(<<k, gen[k]>>) = k
    BY <2>1, KeyOf
  <2>. QED
    BY <1>2, <2>2, TReads DEF ReadsRow
<1>. QED
  BY <1>1, <1>2

LEMMA TReadsEntry ==
    ASSUME SInv, NEW i, Insts = {i}, NEW c \in Caches, CacheOK(c),
           NEW k \in Entries \cup {End}, ReadsEntry(i, c, k)
    PROVE  Table!Place("sec", k)
<1>1. CASE k = End
  BY <1>1, TReads, KeyOf DEF ReadsEntry
<1>2. CASE k # End
  <2>1. k \in Keys /\ tbl[k] # Absent /\ DbTypeOK
    BY <1>2 DEF Entries, SInv, IndexMatchesTable, GInv, TypeOK
  <2>2. PICK o, d : /\ o \in Itrs /\ Finds(c, k, o, d)
                    /\ Reads(i, "sec", o, [d EXCEPT ![o].sit = gen[k]])
    BY <1>2 DEF ReadsEntry
  <2>3. o = <<k, gen[k]>>
    BY <2>1, <2>2, FindsOK
  <2>4. Key(o) = k
    BY <2>1, <2>2, <2>3, KeyOf
  <2>. QED
    BY <2>2, <2>4, TReads
<1>. QED
  BY <1>1, <1>2

\* Every const member function moves the iterator as the table says.
LEMMA TReading ==
    ASSUME SInv, NEW i, Insts = {i}, Reading(i)
    PROVE  TableStep
<1>1. /\ DbTypeOK /\ IndexMatchesTable
      /\ cache[i] \in Caches /\ CacheOK(cache[i])
      /\ Entries = Rows /\ Table!Present = Rows /\ Rows \subseteq Keys
  BY SameRows DEF SInv, GInv, TypeOK, Caches, CacheCoherent, CacheOK, Rows
<1>. USE DEF TableStep
<1>2. ASSUME NEW k \in Keys, NEW o \in Itrs \cup {End}, NEW d,
             Finds(cache[i], k, o, d), Reads(i, "pri", o, d)
      PROVE  TableStep
  <2>1. o = IF tbl[k] = Absent THEN End ELSE <<k, gen[k]>>
    BY <1>1, <1>2, FindsOK
  <2>2. Key(o) = IF tbl[k] = Absent THEN End ELSE k
    <3>1. CASE tbl[k] = Absent
      BY <2>1, <3>1, KeyOf
    <3>2. CASE tbl[k] # Absent
      <4>1. o = <<k, gen[k]>> /\ gen[k] \in Gens
        BY <1>1, <2>1, <3>2 DEF DbTypeOK
      <4>2. o \in Itrs /\ o[1] = k
        BY <4>1 DEF Itrs
      <4>. QED
        BY <3>2, <4>2, KeyOf
    <3>. QED
      BY <3>1, <3>2
  <2>3. Table!Lookup(k)
    BY <1>2, <2>2, TReads DEF Table!Lookup
  <2>. QED
    BY <2>3 DEF Table!TableNext
<1>3. ASSUME NEW k \in Keys, Find(i, k) PROVE TableStep
  BY <1>2, <1>3 DEF Find
<1>4. ASSUME NEW k \in Keys, RequireFind(i, k) PROVE TableStep
  BY <1>2, <1>4, TAbort DEF RequireFind
<1>5. ASSUME NEW k \in Keys, LowerBound(i, k) \/ UpperBound(i, k) PROVE TableStep
  <2>1. PICK j \in Rows \cup {End} :
          (DbLowerBound(k, j) \/ DbUpperBound(k, j)) /\ ReadsRow(i, j)
    BY <1>5 DEF LowerBound, UpperBound
  <2>2. \/ Table!First("pri", {e \in Table!Present : e >= k}, j)
        \/ Table!First("pri", {e \in Table!Present : e > k}, j)
    BY <1>1, <2>1, OrderOfRows DEF DbLowerBound, DbUpperBound
  <2>3. Table!Place("pri", j)
    BY <2>1, TReadsRow
  <2>4. Table!Bound(k)
    BY <1>1, <2>2, <2>3 DEF Table!Bound
  <2>. QED
    BY <2>4 DEF Table!TableNext
<1>6. ASSUME NEW o \in Itrs, IteratorTo(i, o) \/ SecIteratorTo(i, o)
      PROVE  TableStep
  <2>1. o \in Cached(cache[i])
    BY <1>6 DEF IteratorTo, SecIteratorTo
  <2>2. o[1] \in Keys /\ o[1] \in Table!Present /\ Key(o) = o[1]
    BY <1>1, <2>1, KeyOf DEF CacheOK, Live, Itrs, Rows
  <2>3. PICK ix \in {"pri", "sec"} : Table!Place(ix, Key(o))
    BY <1>6, TReads DEF IteratorTo, SecIteratorTo
  <2>4. Table!Mark(ix, o[1])
    BY <2>2, <2>3 DEF Table!Mark
  <2>. QED
    BY <2>2, <2>4 DEF Table!TableNext
<1>7. ASSUME NEW ix \in {"pri", "sec"}, EndIterator(i, ix) PROVE TableStep
  <2>1. Table!Mark(ix, End)
    BY <1>7, TReads, KeyOf DEF EndIterator, Table!Mark
  <2>. QED
    BY <2>1 DEF Table!TableNext
<1>8. ASSUME NEW ix, NEW x \in Rows, cur[i].ix = ix,
             \/ AtEnd(i, ix) /\ Table!Last(ix, Rows, x)
             \/ /\ At(i, ix)
                /\ Table!Last(ix, {j \in Rows : Table!Before(ix, j, cur[i].at[1])}, x),
             Table!Place(ix, x)
      PROVE  TableStep
  <2>1. CASE AtEnd(i, ix)
    <3>1. Key(cur[i].at) = End
      BY <2>1, KeyOf DEF AtEnd
    <3>2. ~At(i, ix)
      BY <2>1, Distinct DEF At, AtEnd, Cached
    <3>3. Table!Backward
      BY <1>1, <1>8, <3>1, <3>2, OnlyOne DEF Table!Backward
    <3>. QED
      BY <3>3 DEF Table!TableNext
  <2>2. CASE At(i, ix)
    <3>1. cur[i].at \in Itrs /\ cur[i].at[1] \in Rows
      BY <1>1, <2>2 DEF At, Cached, CacheOK, Live, Itrs, Rows
    <3>2. Key(cur[i].at) = cur[i].at[1] /\ cur[i].at # End /\ cur[i].at[1] # End
      BY <1>1, <3>1, KeyOf, Distinct
    <3>3. ~AtEnd(i, ix)
      BY <3>2 DEF AtEnd
    <3>4. Table!Backward
      BY <1>1, <1>8, <3>1, <3>2, <3>3, OnlyOne DEF Table!Backward
    <3>. QED
      BY <3>4 DEF Table!TableNext
  <2>. QED
    BY <1>8, <2>1, <2>2
<1>9. ASSUME NEW ix, NEW x \in Rows \cup {End}, At(i, ix),
             Table!First(ix, {j \in Rows : Table!Before(ix, cur[i].at[1], j)}, x),
             Table!Place(ix, x)
      PROVE  TableStep
  <2>1. cur[i].at \in Itrs /\ cur[i].at[1] \in Rows /\ cur[i].ix = ix
    BY <1>1, <1>9 DEF At, Cached, CacheOK, Live, Itrs, Rows
  <2>2. Key(cur[i].at) = cur[i].at[1]
    BY <2>1, KeyOf
  <2>3. Table!Forward
    BY <1>1, <1>9, <2>1, <2>2, OnlyOne DEF Table!Forward
  <2>. QED
    BY <2>3 DEF Table!TableNext
<1>10. CASE Increment(i)
  <2>1. CASE \E why : Abort(why)
    BY <2>1, TAbort
  <2>2. CASE At(i, "pri") /\ \E j \in Rows \cup {End} :
               DbNext(cur[i].at[1], j) /\ ReadsRow(i, j)
    <3>1. PICK j \in Rows \cup {End} :
               DbNext(cur[i].at[1], j) /\ ReadsRow(i, j)
      BY <2>2
    <3>2. {e \in Rows : e > cur[i].at[1]} =
            {e \in Rows : Table!Before("pri", cur[i].at[1], e)}
      <4>1. cur[i].at[1] \in Nat /\ Rows \subseteq Nat
        BY <1>1, <2>2, Distinct DEF At, Cached, Itrs
      <4>. QED
        BY <4>1 DEF Table!Before
    <3>3. Table!First("pri", {e \in Rows : Table!Before("pri", cur[i].at[1], e)}, j)
      BY <1>1, <3>1, <3>2, OrderOfRows DEF DbNext, DbUpperBound
    <3>4. Table!Place("pri", j)
      BY <3>1, TReadsRow
    <3>. QED
      BY <1>9, <2>2, <3>3, <3>4
  <2>. QED
    BY <1>10, <2>1, <2>2 DEF Increment
<1>11. CASE Decrement(i)
  <2>1. CASE \E why : Abort(why)
    BY <2>1, TAbort
  <2>2. CASE AtEnd(i, "pri") /\ \E j \in Rows : DbLast(j) /\ ReadsRow(i, j)
    <3>1. PICK j \in Rows : DbLast(j) /\ ReadsRow(i, j)
      BY <2>2
    <3>2. Table!Last("pri", Rows, j) /\ Table!Place("pri", j)
      BY <1>1, <3>1, OrderOfRows, TReadsRow DEF DbLast
    <3>. QED
      BY <1>8, <2>2, <3>2 DEF AtEnd
  <2>3. CASE At(i, "pri") /\ \E j \in Rows :
               DbPrevious(cur[i].at[1], j) /\ ReadsRow(i, j)
    <3>1. PICK j \in Rows : DbPrevious(cur[i].at[1], j) /\ ReadsRow(i, j)
      BY <2>3
    <3>2. {e \in Rows : e < cur[i].at[1]} =
            {e \in Rows : Table!Before("pri", e, cur[i].at[1])}
      BY DEF Table!Before
    <3>3. Table!Last("pri", {e \in Rows : Table!Before("pri", e, cur[i].at[1])}, j)
      BY <1>1, <3>1, <3>2, OrderOfRows DEF DbPrevious
    <3>4. Table!Place("pri", j)
      BY <3>1, TReadsRow
    <3>. QED
      BY <1>8, <2>3, <3>3, <3>4 DEF At
  <2>. QED
    BY <1>11, <2>1, <2>2, <2>3 DEF Decrement
<1>12. ASSUME NEW s \in Secs, SecLowerBound(i, s) \/ SecUpperBound(i, s)
       PROVE  TableStep
  <2>1. PICK j \in Entries \cup {End} :
          /\ DbIdxLowerBound(s, j) \/ DbIdxUpperBound(s, j)
          /\ ReadsEntry(i, cache[i], j)
    BY <1>12 DEF SecLowerBound, SecUpperBound
  <2>2. {e \in Entries : idx[e] >= s} = {e \in Rows : tbl[e] >= s}
        /\ {e \in Entries : idx[e] > s} = {e \in Rows : tbl[e] > s}
    BY <1>1 DEF IndexMatchesTable
  <2>3. \/ Table!First("sec", {e \in Table!Present : tbl[e] >= s}, j)
        \/ Table!First("sec", {e \in Table!Present : tbl[e] > s}, j)
    BY <1>1, <2>1, <2>2, OrderOfEntries DEF DbIdxLowerBound, DbIdxUpperBound
  <2>4. Table!Place("sec", j)
    BY <1>1, <2>1, TReadsEntry
  <2>5. Table!SecBound(s)
    BY <1>1, <2>1, <2>3, <2>4 DEF Table!SecBound
  <2>. QED
    BY <2>5 DEF Table!TableNext
<1>13. ASSUME NEW s \in Secs, NEW required \in BOOLEAN, SecFind(i, s, required)
       PROVE  TableStep
  <2>1. CASE Abort("check")
    BY <2>1, TAbort
  <2>2. CASE \E j \in Entries : \E d :
               /\ DbIdxLowerBound(s, j) /\ tbl[j] = s
               /\ Reads(i, "sec", <<j, gen[j]>>, d)
    <3>1. PICK j, d :
               /\ j \in Entries /\ DbIdxLowerBound(s, j) /\ tbl[j] = s
               /\ Reads(i, "sec", <<j, gen[j]>>, d)
      BY <2>2
    <3>2. <<j, gen[j]>> \in Itrs /\ j \in Rows
      BY <1>1, <3>1 DEF Itrs, DbTypeOK
    <3>3. Table!Place("sec", j)
      BY <3>1, <3>2, TReads, KeyOf
    <3>4. \A y \in Rows : tbl[y] = s => y \in {e \in Entries : idx[e] >= s}
      BY <1>1, Distinct DEF IndexMatchesTable
    <3>5. \A y \in Rows : tbl[y] = s => y = j \/ SecLess(j, y)
      BY <1>1, <3>1, <3>4 DEF DbIdxLowerBound, IsFirstSec
    <3>6. IsFirstSec({e \in Rows : tbl[e] = s}, j)
      BY <3>1, <3>2, <3>5 DEF IsFirstSec
    <3>7. Table!First("sec", {e \in Table!Present : tbl[e] = s}, j)
      BY <1>1, <3>6, OrderOfEntries
    <3>8. Table!SecBound(s)
      BY <1>1, <3>2, <3>3, <3>7 DEF Table!SecBound
    <3>. QED
      BY <3>8 DEF Table!TableNext
  <2>3. CASE \E d : (\A k \in Keys : tbl[k] # s) /\ Reads(i, "sec", End, d)
    <3>1. Table!Place("sec", End)
      BY <2>3, TReads, KeyOf
    <3>2. {e \in Table!Present : tbl[e] = s} = {}
      BY <1>1, <2>3
    <3>3. Table!First("sec", {e \in Table!Present : tbl[e] = s}, End)
      BY <3>2 DEF Table!First
    <3>4. Table!SecBound(s)
      BY <3>1, <3>3 DEF Table!SecBound
    <3>. QED
      BY <3>4 DEF Table!TableNext
  <2>. QED
    BY <1>13, <2>1, <2>2, <2>3, SecFindCases
<1>14. ASSUME At(i, "sec")
       PROVE  /\ Resolve(cache[i], cur[i].at) \in Caches
              /\ CacheOK(Resolve(cache[i], cur[i].at))
              /\ Resolve(cache[i], cur[i].at)[cur[i].at].sit # NoEntry
  BY <1>1, <1>14, ResolveOK, ResolveType, Distinct DEF At, NoEntry, Gens
<1>15. CASE SecIncrement(i)
  <2>. DEFINE o == cur[i].at
              c == Resolve(cache[i], o)
  <2>1. CASE \E why : Abort(why)
    BY <2>1, TAbort
  <2>2. CASE At(i, "sec") /\ c[o].sit = NoEntry
    BY <1>14, <2>2
  <2>3. CASE At(i, "sec") /\ \E j \in Entries \cup {End} :
               DbIdxNext(o[1], j) /\ ReadsEntry(i, c, j)
    <3>1. PICK j \in Entries \cup {End} :
               DbIdxNext(o[1], j) /\ ReadsEntry(i, c, j)
      BY <2>3
    <3>2. {e \in Entries : SecLess(o[1], e)} =
            {e \in Rows : Table!Before("sec", o[1], e)}
      BY <1>1 DEF SecLess, Table!Before, IndexMatchesTable
    <3>3. Table!First("sec", {e \in Rows : Table!Before("sec", o[1], e)}, j)
      BY <1>1, <3>1, <3>2, OrderOfEntries DEF DbIdxNext
    <3>4. Table!Place("sec", j)
      BY <1>14, <2>3, <3>1, TReadsEntry
    <3>. QED
      BY <1>1, <1>9, <2>3, <3>3, <3>4
  <2>. QED
    BY <1>15, <2>1, <2>2, <2>3 DEF SecIncrement
<1>16. CASE SecDecrement(i)
  <2>. DEFINE o == cur[i].at
              c == Resolve(cache[i], o)
  <2>1. CASE \E why : Abort(why)
    BY <2>1, TAbort
  <2>2. CASE AtEnd(i, "sec") /\ \E j \in Entries :
               DbIdxLast(j) /\ ReadsEntry(i, cache[i], j)
    <3>1. PICK j \in Entries : DbIdxLast(j) /\ ReadsEntry(i, cache[i], j)
      BY <2>2
    <3>2. Table!Last("sec", Rows, j)
      BY <1>1, <3>1, OrderOfEntries DEF DbIdxLast
    <3>3. Table!Place("sec", j)
      BY <1>1, <3>1, TReadsEntry
    <3>. QED
      BY <1>1, <1>8, <2>2, <3>2, <3>3 DEF AtEnd
  <2>3. CASE At(i, "sec") /\ \E j \in Entries :
               DbIdxPrevious(o[1], j) /\ ReadsEntry(i, c, j)
    <3>1. PICK j \in Entries : DbIdxPrevious(o[1], j) /\ ReadsEntry(i, c, j)
      BY <2>3
    <3>2. {e \in Entries : SecLess(e, o[1])} =
            {e \in Rows : Table!Before("sec", e, o[1])}
      BY <1>1 DEF SecLess, Table!Before, IndexMatchesTable
    <3>3. Table!Last("sec", {e \in Rows : Table!Before("sec", e, o[1])}, j)
      BY <1>1, <3>1, <3>2, OrderOfEntries DEF DbIdxPrevious
    <3>4. Table!Place("sec", j)
      BY <1>14, <2>3, <3>1, TReadsEntry
    <3>. QED
      BY <1>1, <1>8, <2>3, <3>3, <3>4 DEF At
  <2>. QED
    BY <1>14, <1>16, <2>1, <2>2, <2>3 DEF SecDecrement
<1>17. CASE AvailablePrimaryKey(i)
  <2>1. CASE Abort("check")
    BY <2>1, TAbort
  <2>2. CASE UNCHANGED cur /\ DbUnchanged
    BY <2>2 DEF DbUnchanged, dbVars, Table!tableVars
  <2>. QED
    BY <1>17, <2>1, <2>2 DEF AvailablePrimaryKey
<1>. QED
  BY <1>3, <1>4, <1>5, <1>6, <1>7, <1>10, <1>11, <1>12, <1>13, <1>15, <1>16,
     <1>17 DEF Reading

\* A successful erase of an object removes the row and places the iterator.
LEMMA TErases ==
    ASSUME SInv, NEW i, Insts = {i}, NEW c, NEW o \in Itrs, NEW pos,
           Erases(i, c, o, pos), ~\E why : Abort(why)
    PROVE  /\ o[1] \in Rows
           /\ tbl' = [tbl EXCEPT ![o[1]] = Absent] /\ saved' = saved
           /\ cur'[i] = pos
<1>1. /\ Live(o) /\ DbRemove(o[1], EntryFound(c, o))
      /\ cur' = [cur EXCEPT ![i] = pos]
  BY DEF Erases
<1>. QED
  BY <1>1 DEF Live, Rows, Itrs, DbRemove, SInv, GInv, TypeOK

LEMMA TWriting ==
    ASSUME SInv, NEW i, Insts = {i}, Writing(i)
    PROVE  TableStep
<1>1. /\ DbTypeOK /\ IndexMatchesTable
      /\ cache[i] \in Caches /\ CacheOK(cache[i])
      /\ Entries = Rows /\ Table!Present = Rows /\ Rows \subseteq Keys
  BY SameRows DEF SInv, GInv, TypeOK, Caches, CacheCoherent, CacheOK, Rows
<1>2. SUFFICES ASSUME ~\E why : Abort(why)
               PROVE  TableStep
  BY TAbort
<1>. USE DEF TableStep
<1>3. ASSUME NEW k \in Keys, NEW s \in Secs, Emplace(i, k, s) PROVE TableStep
  <2>1. /\ DbCanStore(k) /\ DbStore(k, s)
        /\ cur' = [cur EXCEPT ![i] = [ix |-> "pri", at |-> <<k, gen[k]>>]]
    BY <1>2, <1>3 DEF Emplace
  <2>2. cur'[i] = [ix |-> "pri", at |-> <<k, gen[k]>>]
    BY <2>1 DEF SInv, GInv, TypeOK
  <2>3. Key(<<k, gen[k]>>) = k
    <3>1. <<k, gen[k]>> \in Itrs
      BY <1>1 DEF Itrs, DbTypeOK
    <3>. QED
      BY <3>1, KeyOf
  <2>4. Table!Insert(k, s)
    BY <2>1, <2>2, <2>3, OnlyOne DEF Table!Insert, DbCanStore, DbStore
  <2>. QED
    BY <2>4 DEF Table!TableNext
<1>4. ASSUME NEW o \in Itrs, NEW s \in Secs, Modify(i, o, s) PROVE TableStep
  <2>1. Live(o) /\ DbUpdate(o[1], s, Differs(cache[i][o], s)) /\ UNCHANGED cur
    BY <1>2, <1>4 DEF Modify
  <2>2. o[1] \in Keys /\ o[1] \in Table!Present
    BY <1>1, <2>1 DEF Live, Itrs, Rows
  <2>3. Table!Update(o[1], s)
    BY <2>1, <2>2 DEF Table!Update, DbUpdate
  <2>. QED
    BY <2>2, <2>3 DEF Table!TableNext
<1>5. ASSUME NEW o \in Itrs, ModifyKey(i, o) PROVE TableStep
  BY <1>2, <1>5 DEF ModifyKey
<1>6. ASSUME NEW o \in Itrs, EraseObject(i, o) PROVE TableStep
  <2>1. /\ o[1] \in Rows
        /\ tbl' = [tbl EXCEPT ![o[1]] = Absent] /\ saved' = saved
        /\ cur'[i] = cur[i]
    BY <1>2, <1>6, TErases DEF EraseObject
  <2>2. Table!Delete(o[1])
    BY <1>1, <2>1, OnlyOne DEF Table!Delete
  <2>. QED
    BY <1>1, <2>1, <2>2 DEF Table!TableNext
<1>7. ASSUME NEW ix, NEW x \in Rows \cup {End}, NEW c, NEW p, At(i, ix),
             Table!First(ix, {j \in Rows : Table!Before(ix, cur[i].at[1], j)}, x),
             Key(p) = x, Erases(i, c, cur[i].at, [ix |-> ix, at |-> p])
      PROVE  TableStep
  <2>1. cur[i].at \in Itrs /\ cur[i].at[1] \in Rows /\ cur[i].ix = ix
    BY <1>1, <1>7 DEF At, Cached, CacheOK, Live, Itrs, Rows
  <2>2. Key(cur[i].at) = cur[i].at[1]
    BY <2>1, KeyOf
  <2>3. /\ tbl' = [tbl EXCEPT ![cur[i].at[1]] = Absent] /\ saved' = saved
        /\ cur'[i] = [ix |-> ix, at |-> p]
    BY <1>2, <1>7, <2>1, TErases
  <2>4. Table!DeleteForward
    <3>1. One = i /\ cur[One].ix = ix /\ Key(cur[One].at) = cur[i].at[1]
      BY <2>1, <2>2, OnlyOne
    <3>2. cur'[One].ix = ix /\ Key(cur'[One].at) = x
      BY <1>7, <2>3, <3>1
    <3>. QED
      BY <1>1, <1>7, <2>1, <2>3, <3>1, <3>2 DEF Table!DeleteForward
  <2>. QED
    BY <2>4 DEF Table!TableNext
<1>8. CASE EraseIterator(i)
  <2>1. At(i, "pri")
    BY <1>2, <1>8 DEF EraseIterator
  <2>2. PICK j \in Rows \cup {End} :
          /\ DbNext(cur[i].at[1], j)
          /\ IF j = End
               THEN Erases(i, cache[i], cur[i].at, [ix |-> "pri", at |-> End])
               ELSE Erases(i, Load(cache[i], j), cur[i].at,
                           [ix |-> "pri", at |-> <<j, gen[j]>>])
    BY <1>2, <1>8 DEF EraseIterator
  <2>3. {e \in Rows : e > cur[i].at[1]} =
          {e \in Rows : Table!Before("pri", cur[i].at[1], e)}
    <3>1. cur[i].at[1] \in Nat /\ Rows \subseteq Nat
      BY <1>1, <2>1, Distinct DEF At, Cached, Itrs
    <3>. QED
      BY <3>1 DEF Table!Before
  <2>4. Table!First("pri", {e \in Rows : Table!Before("pri", cur[i].at[1], e)}, j)
    BY <1>1, <2>2, <2>3, OrderOfRows DEF DbNext, DbUpperBound
  <2>5. CASE j = End
    BY <1>7, <2>1, <2>2, <2>4, <2>5, KeyOf
  <2>6. CASE j # End
    <3>1. <<j, gen[j]>> \in Itrs
      BY <1>1, <2>6 DEF Itrs, DbTypeOK
    <3>2. Key(<<j, gen[j]>>) = j
      BY <3>1, KeyOf
    <3>. QED
      BY <1>7, <2>1, <2>2, <2>4, <2>6, <3>2
  <2>. QED
    BY <2>5, <2>6
<1>9. CASE SecEraseIterator(i)
  <2>. DEFINE o == cur[i].at
              c == Resolve(cache[i], o)
  <2>1. At(i, "sec")
    BY <1>2, <1>9 DEF SecEraseIterator
  <2>2. /\ c \in Caches /\ CacheOK(c)
        /\ c[o].sit # NoEntry /\ SecLive(o[1], c[o].sit)
    BY <1>1, <2>1, ResolveOK, ResolveType, Distinct DEF At, NoEntry, Gens
  <2>3. PICK j \in Entries \cup {End} :
          /\ DbIdxNext(o[1], j)
          /\ \/ /\ j = End
                /\ Erases(i, c, o, [ix |-> "sec", at |-> End])
             \/ /\ j # End
                /\ \E p \in Itrs, d \in {c, Load(c, j)} :
                     /\ Finds(c, j, p, d)
                     /\ Erases(i, [d EXCEPT ![p].sit = gen[j]], o,
                               [ix |-> "sec", at |-> p])
    BY <1>2, <1>9, <2>2 DEF SecEraseIterator
  <2>. HIDE DEF c
  <2>4. {e \in Entries : SecLess(o[1], e)} =
          {e \in Rows : Table!Before("sec", o[1], e)}
    BY <1>1 DEF SecLess, Table!Before, IndexMatchesTable
  <2>5. Table!First("sec", {e \in Rows : Table!Before("sec", o[1], e)}, j)
    BY <1>1, <2>3, <2>4, OrderOfEntries DEF DbIdxNext
  <2>6. CASE j = End
    BY <1>7, <2>1, <2>3, <2>5, <2>6, KeyOf
  <2>7. CASE j # End
    <3>1. PICK p \in Itrs, d \in {c, Load(c, j)} :
             /\ Finds(c, j, p, d)
             /\ Erases(i, [d EXCEPT ![p].sit = gen[j]], o,
                       [ix |-> "sec", at |-> p])
      BY <2>3, <2>7
    <3>2. j \in Rows /\ j \in Keys /\ tbl[j] # Absent
      BY <1>1, <2>7 DEF Rows
    <3>3. p = <<j, gen[j]>>
      BY <1>1, <2>2, <3>1, <3>2, FindsOK
    <3>4. Key(p) = j
      BY <3>3, KeyOf
    <3>. QED
      BY <1>7, <2>1, <2>5, <3>1, <3>2, <3>4
  <2>. QED
    BY <2>6, <2>7
<1>. QED
  BY <1>3, <1>4, <1>5, <1>6, <1>8, <1>9 DEF Writing

LEMMA TNext ==
    ASSUME SInv, NEW i, Insts = {i}, [Next]_vars
    PROVE  TableStep
<1>1. CASE Reading(i)
  BY <1>1, TReading
<1>2. CASE Writing(i)
  BY <1>2, TWriting
<1>3. CASE EndAction
  <2>1. tbl' = tbl /\ saved'.tbl = tbl /\ cur'[i] = [ix |-> "pri", at |-> End]
    BY <1>3 DEF EndAction, DbCommit, FreshObjects
  <2>2. Table!Keep
    BY <2>1, OnlyOne, KeyOf DEF Table!Keep
  <2>. QED
    BY <2>2 DEF TableStep, Table!TableNext
<1>4. CASE UNCHANGED vars
  BY <1>4 DEF vars, TableStep, Table!tableVars
<1>. QED
  BY <1>1, <1>2, <1>3, <1>4 DEF Next

\* A contract that uses one multi_index object per table sees an ordered table
\* with an exact index, for all keys and any sequence of calls: every lookup
\* and every move of an iterator, forwards and backwards along the table and
\* along the index, is that of the stored rows; a write changes its row alone;
\* an abort restores the rows the action began with.  The cache, the iterators
\* of index entries and the second copy of the secondary keys do not show.
THEOREM TableImplemented ==
    ASSUME NEW one, Insts = {one}
    PROVE  Spec => ImplementsTable
<1>1. SInv /\ [Next]_vars => SInv' /\ [Table!TableNext]_(Table!tableVars)
  BY SNext, TNext DEF SingleObject, TableStep
<1>2. Init => Table!TableInit
  BY OnlyOne, KeyOf DEF Init, DbInit, Table!TableInit
<1>. QED
  BY <1>1, <1>2, SInit, PTL DEF Spec, ImplementsTable, Table!TableSpec
=============================================================================
