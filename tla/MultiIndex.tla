----------------------------- MODULE MultiIndex -----------------------------
(***************************************************************************)
(* eosio::multi_index (libraries/eosiolib/contracts/eosio/                 *)
(* multi_index.hpp): the table objects through which a contract reads and  *)
(* writes one table of the chain's database.                               *)
(*                                                                         *)
(* Every multi_index object keeps the rows it has seen in _items_vector,   *)
(* keyed here by the host iterator they were loaded with (__primary_itr),  *)
(* and answers from there without asking the host again.  An item has the  *)
(* value of the row (its secondary key) and the iterator of its index      *)
(* entry (__iters): -1 unknown, -2 the end iterator of the index, else the *)
(* generation of the entry.  Insts are the objects a contract uses on the  *)
(* same table within one action; the program holds one iterator (cur) of   *)
(* each.  Objects and host iterators last as long as the action.           *)
(***************************************************************************)
EXTENDS ChainDb

CONSTANT Insts   \* the multi_index objects on the table

VARIABLES
    own,     \* whether the table belongs to the contract that runs
    cache,   \* _items_vector of each object
    nextpk,  \* _next_primary_key of each object
    cur,     \* an iterator of each object that the program holds
    last     \* how the last step ended: "ok", or why the action aborted

vars == <<tbl, idx, gen, saved, own, cache, nextpk, cur, last>>

Unset == KeyMax            \* unset_next_primary_key
NoAvailable == KeyMax - 1  \* no_available_primary_key

Unknown == -1
NoEntry == -2

Items == [sec : Secs, sit : {Unknown, NoEntry} \cup Gens]

\* A const_iterator of the table ("pri") or of the index ("sec").
Cursors == [ix : {"pri", "sec"}, at : Itrs \cup {End}]

Cached(c) == {o \in Itrs : c[o] # Absent}

EmptyCache == [o \in Itrs |-> Absent]

\* The objects a new action starts with.
FreshObjects ==
    /\ cache' = [i \in Insts |-> EmptyCache]
    /\ nextpk' = [i \in Insts |-> Unset]
    /\ cur' = [i \in Insts |-> [ix |-> "pri", at |-> End]]
    /\ own' \in BOOLEAN

\* eosio::check failed, or the host refused a call: everything is undone.
Abort(why) ==
    /\ DbRollback
    /\ FreshObjects
    /\ last' = why

-----------------------------------------------------------------------------
(* Looking rows up.                                                        *)

Init ==
    /\ DbInit
    /\ own \in BOOLEAN
    /\ cache = [i \in Insts |-> EmptyCache]
    /\ nextpk = [i \in Insts |-> Unset]
    /\ cur = [i \in Insts |-> [ix |-> "pri", at |-> End]]
    /\ last = "ok"

\* load_object_by_primary_iterator for the stored row k: the item with that
\* iterator, read from the host when it is not in the cache.
Load(c, k) ==
    IF c[<<k, gen[k]>>] # Absent
      THEN c
      ELSE [c EXCEPT ![<<k, gen[k]>>] = [sec |-> tbl[k], sit |-> Unknown]]

\* The search of find, require_find and erase through _items_vector from its
\* end: of the items with one key the one loaded last, which is the one of
\* the latest generation.
Newest(c, k, o) ==
    /\ o \in Cached(c)
    /\ o[1] = k
    /\ \A g \in Gens : g > o[2] => c[<<k, g>>] = Absent

\* find: o is the item found, or End, and d the cache afterwards.
Finds(c, k, o, d) ==
    IF \A g \in Gens : c[<<k, g>>] = Absent
      THEN /\ o = IF tbl[k] = Absent THEN End ELSE <<k, gen[k]>>
           /\ d = IF tbl[k] = Absent THEN c ELSE Load(c, k)
      ELSE Newest(c, k, o) /\ d = c

\* What every const member function leaves behind.
Reads(i, ix, o, d) ==
    /\ cur' = [cur EXCEPT ![i] = [ix |-> ix, at |-> o]]
    /\ cache' = [cache EXCEPT ![i] = d]
    /\ last' = "ok"
    /\ UNCHANGED <<own, nextpk>>
    /\ DbUnchanged

\* A primary iterator to the row k the host answered with, or to the end.
ReadsRow(i, k) ==
    IF k = End THEN Reads(i, "pri", End, cache[i])
               ELSE Reads(i, "pri", <<k, gen[k]>>, Load(cache[i], k))

\* The index answered with the entry of k: the item comes from find(k) and
\* remembers the iterator of the entry.
ReadsEntry(i, c, k) ==
    \/ k = End /\ Reads(i, "sec", End, c)
    \/ /\ k # End
       /\ \E o \in Itrs, d \in {c, Load(c, k)} :
            /\ Finds(c, k, o, d)
            /\ Reads(i, "sec", o, [d EXCEPT ![o].sit = gen[k]])

Find(i, k) ==
    \E o \in Itrs \cup {End}, d \in {cache[i], Load(cache[i], k)} :
      Finds(cache[i], k, o, d) /\ Reads(i, "pri", o, d)

\* require_find and get: a failed search aborts.
RequireFind(i, k) ==
    \E o \in Itrs \cup {End}, d \in {cache[i], Load(cache[i], k)} :
      /\ Finds(cache[i], k, o, d)
      /\ IF o = End THEN Abort("check") ELSE Reads(i, "pri", o, d)

LowerBound(i, k) == \E j \in Rows \cup {End} : DbLowerBound(k, j) /\ ReadsRow(i, j)

UpperBound(i, k) == \E j \in Rows \cup {End} : DbUpperBound(k, j) /\ ReadsRow(i, j)

\* end() of the table and of the index.
EndIterator(i, ix) == Reads(i, ix, End, cache[i])

\* iterator_to of the table, for an object the program has a reference to.
IteratorTo(i, o) == o \in Cached(cache[i]) /\ Reads(i, "pri", o, cache[i])

-----------------------------------------------------------------------------
(* Moving an iterator of the table.  The program uses an iterator only     *)
(* while its item exists: one whose row was erased dangles, as in any      *)
(* container.                                                              *)

At(i, ix) == cur[i].ix = ix /\ cur[i].at \in Cached(cache[i])

AtEnd(i, ix) == cur[i].ix = ix /\ cur[i].at = End

Increment(i) ==
    \/ AtEnd(i, "pri") /\ Abort("check")
    \/ /\ At(i, "pri")
       /\ IF Live(cur[i].at)
            THEN \E j \in Rows \cup {End} : DbNext(cur[i].at[1], j) /\ ReadsRow(i, j)
            ELSE Abort("dead")

\* Before the first row the iterator cannot be moved; the end iterator goes
\* to the last row.
Decrement(i) ==
    \/ /\ AtEnd(i, "pri")
       /\ \E j \in Rows \cup {End} :
            /\ DbLast(j)
            /\ IF j = End THEN Abort("check") ELSE ReadsRow(i, j)
    \/ /\ At(i, "pri")
       /\ IF Live(cur[i].at)
            THEN \E j \in Rows \cup {End} :
                   /\ DbPrevious(cur[i].at[1], j)
                   /\ IF j = End THEN Abort("check") ELSE ReadsRow(i, j)
            ELSE Abort("dead")

-----------------------------------------------------------------------------
(* The secondary index.                                                    *)

SecLowerBound(i, s) ==
    \E j \in Entries \cup {End} : DbIdxLowerBound(s, j) /\ ReadsEntry(i, cache[i], j)

SecUpperBound(i, s) ==
    \E j \in Entries \cup {End} : DbIdxUpperBound(s, j) /\ ReadsEntry(i, cache[i], j)

MatchesAnything(item, s) == TRUE

\* The comparison in find and require_find of an index.
Matches(item, s) == item.sec = s

\* find of an index is its lower bound if the item found there has the key
\* searched for: the key the item has, not the entry.
SecFind(i, s, required) ==
    \E j \in Entries \cup {End} :
      /\ DbIdxLowerBound(s, j)
      /\ \/ j = End /\ IF required THEN Abort("check")
                                   ELSE Reads(i, "sec", End, cache[i])
         \/ /\ j # End
            /\ \E o \in Itrs, d \in {cache[i], Load(cache[i], j)} :
                 /\ Finds(cache[i], j, o, d)
                 /\ LET e == [d EXCEPT ![o].sit = gen[j]]
                    IN  \/ Matches(d[o], s) /\ Reads(i, "sec", o, e)
                        \/ ~Matches(d[o], s) /\ required /\ Abort("check")
                        \/ ~Matches(d[o], s) /\ ~required /\ Reads(i, "sec", End, e)

\* An unknown index iterator of an item is looked up by db_idx_find_primary.
Resolve(c, o) ==
    IF c[o].sit = Unknown
      THEN [c EXCEPT ![o].sit = IF idx[o[1]] = Absent THEN NoEntry ELSE gen[o[1]]]
      ELSE c

SecIteratorTo(i, o) ==
    /\ o \in Cached(cache[i])
    /\ Reads(i, "sec", o, Resolve(cache[i], o))

\* The host moves from the end iterator of an index to nowhere.
SecIncrement(i) ==
    \/ AtEnd(i, "sec") /\ Abort("check")
    \/ /\ At(i, "sec")
       /\ LET o == cur[i].at
              c == Resolve(cache[i], o)
          IN  \/ c[o].sit = NoEntry /\ Reads(i, "sec", End, c)
              \/ /\ SecLive(o[1], c[o].sit)
                 /\ \E j \in Entries \cup {End} :
                      DbIdxNext(o[1], j) /\ ReadsEntry(i, c, j)
              \/ /\ c[o].sit # NoEntry /\ ~SecLive(o[1], c[o].sit)
                 /\ Abort("dead")

\* ... and backwards from its end iterator to the last entry.
SecDecrement(i) ==
    \/ /\ AtEnd(i, "sec")
       /\ \E j \in Entries \cup {End} :
            /\ DbIdxLast(j)
            /\ IF j = End THEN Abort("check") ELSE ReadsEntry(i, cache[i], j)
    \/ /\ At(i, "sec")
       /\ LET o == cur[i].at
              c == Resolve(cache[i], o)
          IN  \/ /\ c[o].sit = NoEntry \/ SecLive(o[1], c[o].sit)
                 /\ \E j \in Entries \cup {End} :
                      /\ IF c[o].sit = NoEntry THEN DbIdxLast(j)
                                               ELSE DbIdxPrevious(o[1], j)
                      /\ IF j = End THEN Abort("check") ELSE ReadsEntry(i, c, j)
              \/ /\ c[o].sit # NoEntry /\ ~SecLive(o[1], c[o].sit)
                 /\ Abort("dead")

-----------------------------------------------------------------------------
(* Writing.                                                                *)

BumpNever(n, k) == n
BumpPastTags(n, k) == IF k >= n THEN k + 1 ELSE n

\* emplace and modify move _next_primary_key past the key they wrote.
Bump(n, k) ==
    IF k >= n THEN (IF k >= NoAvailable THEN NoAvailable ELSE k + 1) ELSE n

\* emplace with a constructor that makes the row k with secondary key s.
Emplace(i, k, s) ==
    \/ ~own /\ Abort("check")
    \/ own /\ ~DbCanStore(k) /\ Abort("exists")
    \/ /\ own /\ DbCanStore(k)
       /\ DbStore(k, s)
       /\ nextpk' = [nextpk EXCEPT ![i] = Bump(@, k)]
       /\ cache' = [cache EXCEPT ![i][<<k, gen[k]>>] = [sec |-> s, sit |-> gen[k]]]
       /\ cur' = [cur EXCEPT ![i] = [ix |-> "pri", at |-> <<k, gen[k]>>]]
       /\ last' = "ok"
       /\ UNCHANGED own

DiffersNever(item, s) == FALSE

\* The memcmp of modify between the secondary key before and after the updater.
Differs(item, s) == item.sec # s

\* modify with an updater that leaves the object with secondary key s.
\* Whether the index is updated depends on the key the item had before the
\* updater ran.
Modify(i, o, s) ==
    /\ o \in Cached(cache[i])
    /\ LET c    == cache[i]
           k    == o[1]
           diff == Differs(c[o], s)
           sit  == IF diff /\ c[o].sit \in {Unknown, NoEntry}
                     THEN IF idx[k] = Absent THEN NoEntry ELSE gen[k]
                     ELSE c[o].sit
           good == Live(o) /\ (diff => SecLive(k, sit))
       IN  \/ ~own /\ Abort("check")
           \/ own /\ ~good /\ Abort("dead")
           \/ /\ own /\ good
              /\ DbUpdate(k, s, diff)
              /\ nextpk' = [nextpk EXCEPT ![i] = Bump(@, k)]
              /\ cache' = [cache EXCEPT ![i][o] = [sec |-> s, sit |-> sit]]
              /\ last' = "ok"
              /\ UNCHANGED <<own, cur>>

\* modify with an updater that changes the primary key.
ModifyKey(i, o) == o \in Cached(cache[i]) /\ Abort("check")

ForgetNothing(c, o) == c

\* The erase from _items_vector.
Forget(c, o) == [c EXCEPT ![o] = Absent]

EntryIfKnown(c, o) == c[o].sit >= 0

\* erase has an iterator of the index entry: the item's, or one looked up.
EntryFound(c, o) == c[o].sit >= 0 \/ idx[o[1]] # Absent

\* erase of an object in the cache c: the iterator of the index entry is
\* looked up when the item does not know it.  pos is where the program's
\* iterator points afterwards.
Erases(i, c, o, pos) ==
    LET k    == o[1]
        good == Live(o) /\ (c[o].sit >= 0 => SecLive(k, c[o].sit))
    IN  \/ ~own /\ Abort("check")
        \/ own /\ ~good /\ Abort("dead")
        \/ /\ own /\ good
           /\ gen[k] < MaxGen
           /\ DbRemove(k, EntryFound(c, o))
           /\ \E n \in Itrs : /\ Newest(c, k, n)
                              /\ cache' = [cache EXCEPT ![i] = Forget(c, n)]
           /\ cur' = [cur EXCEPT ![i] = pos]
           /\ last' = "ok"
           /\ UNCHANGED <<own, nextpk>>

EraseObject(i, o) ==
    /\ o \in Cached(cache[i])
    /\ Erases(i, cache[i], o, cur[i])

EraseThenIncrement(i) ==
    \/ AtEnd(i, "pri") /\ Abort("check")
    \/ At(i, "pri") /\ Abort(IF own THEN "dead" ELSE "check")

\* erase(itr): the iterator is moved to the next row first.
EraseIterator(i) ==
    \/ AtEnd(i, "pri") /\ Abort("check")
    \/ /\ At(i, "pri")
       /\ LET o == cur[i].at
          IN  \/ ~Live(o) /\ Abort("dead")
              \/ /\ Live(o)
                 /\ \E j \in Rows \cup {End} :
                      /\ DbNext(o[1], j)
                      /\ IF j = End
                           THEN Erases(i, cache[i], o, [ix |-> "pri", at |-> End])
                           ELSE Erases(i, Load(cache[i], j), o,
                                       [ix |-> "pri", at |-> <<j, gen[j]>>])

SecEraseInTableOrder(i) ==
    /\ At(i, "sec")
    /\ \E j \in Rows \cup {End} :
         /\ DbNext(cur[i].at[1], j)
         /\ IF j = End
              THEN Erases(i, cache[i], cur[i].at, [ix |-> "sec", at |-> End])
              ELSE Erases(i, Load(cache[i], j), cur[i].at,
                          [ix |-> "sec", at |-> <<j, gen[j]>>])

\* erase(itr) of an index: the same along the index.
SecEraseIterator(i) ==
    \/ AtEnd(i, "sec") /\ Abort("check")
    \/ /\ At(i, "sec")
       /\ LET o == cur[i].at
              c == Resolve(cache[i], o)
          IN  \/ /\ c[o].sit = NoEntry
                 /\ Erases(i, c, o, [ix |-> "sec", at |-> End])
              \/ /\ c[o].sit # NoEntry /\ ~SecLive(o[1], c[o].sit)
                 /\ Abort("dead")
              \/ /\ SecLive(o[1], c[o].sit)
                 /\ \E j \in Entries \cup {End} :
                      /\ DbIdxNext(o[1], j)
                      /\ \/ /\ j = End
                            /\ Erases(i, c, o, [ix |-> "sec", at |-> End])
                         \/ /\ j # End
                            /\ \E p \in Itrs, d \in {c, Load(c, j)} :
                                 /\ Finds(c, j, p, d)
                                 /\ Erases(i, [d EXCEPT ![p].sit = gen[j]], o,
                                           [ix |-> "sec", at |-> p])

\* available_primary_key: the first call looks at the first and the last row
\* of the table, both of which it leaves in the cache.
AvailablePrimaryKey(i) ==
    \E lo, hi \in Rows \cup {End} :
      /\ DbLowerBound(0, lo) /\ DbLast(hi)
      /\ LET n == IF nextpk[i] # Unset THEN nextpk[i]
                  ELSE IF lo = End THEN 0
                  ELSE IF hi >= NoAvailable THEN NoAvailable ELSE hi + 1
             c == IF nextpk[i] # Unset \/ lo = End THEN cache[i]
                  ELSE Load(Load(cache[i], lo), hi)
         IN  \/ n >= NoAvailable /\ Abort("check")
             \/ /\ n < NoAvailable
                /\ nextpk' = [nextpk EXCEPT ![i] = n]
                /\ cache' = [cache EXCEPT ![i] = c]
                /\ last' = "ok"
                /\ UNCHANGED <<own, cur>>
                /\ DbUnchanged

\* The action returns.
EndAction ==
    /\ DbCommit
    /\ FreshObjects
    /\ last' = "ok"

-----------------------------------------------------------------------------

Reading(i) ==
    \/ \E k \in Keys : Find(i, k)
    \/ \E k \in Keys : RequireFind(i, k)
    \/ \E k \in Keys : LowerBound(i, k)
    \/ \E k \in Keys : UpperBound(i, k)
    \/ \E o \in Itrs : IteratorTo(i, o)
    \/ \E ix \in {"pri", "sec"} : EndIterator(i, ix)
    \/ Increment(i)
    \/ Decrement(i)
    \/ \E s \in Secs : SecLowerBound(i, s)
    \/ \E s \in Secs : SecUpperBound(i, s)
    \/ \E s \in Secs, required \in BOOLEAN : SecFind(i, s, required)
    \/ \E o \in Itrs : SecIteratorTo(i, o)
    \/ SecIncrement(i)
    \/ SecDecrement(i)
    \/ AvailablePrimaryKey(i)

Writing(i) ==
    \/ \E k \in Keys, s \in Secs : Emplace(i, k, s)
    \/ \E o \in Itrs, s \in Secs : Modify(i, o, s)
    \/ \E o \in Itrs : ModifyKey(i, o)
    \/ \E o \in Itrs : EraseObject(i, o)
    \/ EraseIterator(i)
    \/ SecEraseIterator(i)

Next ==
    \/ \E i \in Insts : Reading(i)
    \/ \E i \in Insts : Writing(i)
    \/ EndAction

Spec == Init /\ [][Next]_vars

TypeOK ==
    /\ DbTypeOK
    /\ own \in BOOLEAN
    /\ cache \in [Insts -> [Itrs -> Items \cup {Absent}]]
    /\ nextpk \in [Insts -> 0 .. KeyMax]
    /\ cur \in [Insts -> Cursors]
    /\ last \in {"ok", "check", "exists", "dead"}

-----------------------------------------------------------------------------
(* What holds while a contract uses one object per table.                  *)

\* Every item in the cache is the stored row: its host iterator is valid, its
\* value is the row's, and the index iterator it remembers is unknown or that
\* of the row's entry.  find() and the iterators answer from these items
\* without asking the host.
CacheCoherent ==
    \A i \in Insts : \A o \in Cached(cache[i]) :
      /\ Live(o)
      /\ cache[i][o].sec = tbl[o[1]]
      /\ cache[i][o].sit \in {Unknown, gen[o[1]]}

\* The index has exactly one entry per row, under the row's secondary key;
\* modify() decides from the cached item whether to update the entry.
IndexMatchesTable == idx = tbl

\* No call reaches the host with an iterator of a removed object.
NoDeadIterator == last # "dead"

\* A key handed out by available_primary_key(), remembered by the object
\* while rows come and go, is above the keys of all rows.
AvailableKeyUnused ==
    \A i \in Insts :
      nextpk[i] < NoAvailable => \A k \in Rows : k < nextpk[i]

\* find() by primary key finds exactly the stored rows, and find() of the
\* index fails exactly when no row has the secondary key, although both
\* answer from the cache.
LookupsExact ==
    [][last' = "ok" /\ UNCHANGED dbVars =>
         \A i \in Insts :
           /\ cur'[i].ix = "pri" => \A k \in Keys :
                Find(i, k)
                  => cur'[i].at = IF tbl[k] = Absent THEN End ELSE <<k, gen[k]>>
           /\ cur'[i].ix = "sec" => \A s \in Secs :
                SecFind(i, s, FALSE)
                  => (cur'[i].at = End <=> \A k \in Keys : tbl[k] # s)]_vars

(* What holds for any number of objects on one table.                      *)

\* A row has an index entry and an index entry has a row, whichever objects
\* wrote them: a lookup through the index always finds its row.
SameKeys == Rows = Entries

\* A step that does not abort makes a row and its index entry disagree only
\* if some object held an item of the row with another key than the entry's:
\* objects that read their rows after the last write cannot tear them apart.
OnlyStaleItemsTear ==
    [][last' = "ok" =>
         \A k \in Keys :
           tbl[k] = idx[k] /\ tbl'[k] # idx'[k] =>
             \E i \in Insts : \E o \in Cached(cache[i]) :
               o[1] = k /\ cache[i][o].sec # idx[k]]_vars

(* The table the objects of a contract implement.                          *)

Key(o) == IF o = End THEN End ELSE o[1]

\* The object that the table is seen through.
One == CHOOSE i \in Insts : TRUE

Table == INSTANCE OrderedTable
           WITH rows <- tbl, kept <- saved.tbl,
                pos <- [ix |-> cur[One].ix, at |-> Key(cur[One].at)]

\* A contract that uses one multi_index object per table sees an ordered
\* table with an exact index: caches, index entries and host iterators are
\* invisible.
ImplementsTable == Table!TableSpec
=============================================================================
