------------------------------ MODULE ChainDb ------------------------------
(***************************************************************************)
(* The table a contract keeps in the chain's database, as the functions    *)
(* db_*_i64 and db_idx_* of the host show it to multi_index.hpp (code of   *)
(* the node, not of this repository; capi/eosio/db.h documents it).        *)
(*                                                                         *)
(* A row is its primary key and its secondary key.  The primary table      *)
(* (tbl) and the index (idx, from primary to secondary key) are two        *)
(* objects of the host, changed by separate calls.  A host iterator        *)
(* stands for one stored object: the iterators of one primary key that     *)
(* contracts obtained before and after a removal are different, so an      *)
(* iterator is the key and how often it had been removed in this action    *)
(* (gen).  Using an iterator of a removed object aborts the action, and    *)
(* an abort restores the tables as they were at its beginning (saved).     *)
(***************************************************************************)
EXTENDS Integers

CONSTANTS
    Keys,    \* primary keys in use, a set of naturals
    KeyMax,  \* the largest uint64_t
    Secs,    \* secondary keys, a set of naturals
    MaxGen,  \* bound: how often a key is removed within one action
    Absent,  \* no such row
    End      \* what a lookup without result returns

ASSUME KeysAssumption ==
    /\ KeyMax \in Nat /\ KeyMax >= 2
    /\ Keys \subseteq 0 .. KeyMax
    /\ Secs \subseteq Nat
    /\ MaxGen \in Nat
    /\ Absent \notin Secs
    /\ Absent \notin [sec : Secs, sit : Int]
    /\ End \notin Keys
    /\ End \notin Keys \X (0 .. MaxGen)

VARIABLES
    tbl,    \* the primary table, [Keys -> Secs \cup {Absent}]
    idx,    \* the secondary index, [Keys -> Secs \cup {Absent}]
    gen,    \* removals of each key in this action
    saved   \* tbl and idx as the action found them

dbVars == <<tbl, idx, gen, saved>>

Gens == 0 .. MaxGen

\* A primary host iterator.
Itrs == Keys \X Gens

Rows == {k \in Keys : tbl[k] # Absent}

Entries == {k \in Keys : idx[k] # Absent}

\* The object behind a primary iterator still exists.
Live(o) == o[2] = gen[o[1]] /\ tbl[o[1]] # Absent

\* The object behind iterator s of the index entry of k still exists.
SecLive(k, s) == s = gen[k] /\ idx[k] # Absent

\* Where an ordered lookup among the keys S may end: at the least of them.
IsFirst(S, x) == IF S = {} THEN x = End ELSE x \in S /\ \A y \in S : x <= y

IsLast(S, x) == IF S = {} THEN x = End ELSE x \in S /\ \A y \in S : y <= x

\* db_lowerbound_i64, db_upperbound_i64, db_next_i64, db_previous_i64.
DbLowerBound(k, x) == IsFirst({j \in Rows : j >= k}, x)
DbUpperBound(k, x) == IsFirst({j \in Rows : j > k}, x)
DbNext(k, x)       == DbUpperBound(k, x)
DbPrevious(k, x)   == IsLast({j \in Rows : j < k}, x)
DbLast(x)          == IsLast(Rows, x)

\* The index is ordered by secondary and then by primary key.
SecLess(j, k) == idx[j] < idx[k] \/ (idx[j] = idx[k] /\ j < k)

IsFirstSec(S, x) ==
    IF S = {} THEN x = End
              ELSE x \in S /\ \A y \in S : y = x \/ SecLess(x, y)

IsLastSec(S, x) ==
    IF S = {} THEN x = End
              ELSE x \in S /\ \A y \in S : y = x \/ SecLess(y, x)

\* db_idx64_lowerbound, _upperbound, _next, _previous, and the entry before
\* the end.
DbIdxLowerBound(s, x) == IsFirstSec({j \in Entries : idx[j] >= s}, x)
DbIdxUpperBound(s, x) == IsFirstSec({j \in Entries : idx[j] > s}, x)
DbIdxNext(k, x)       == IsFirstSec({j \in Entries : SecLess(k, j)}, x)
DbIdxPrevious(k, x)   == IsLastSec({j \in Entries : SecLess(j, k)}, x)
DbIdxLast(x)          == IsLastSec(Entries, x)

\* db_store_i64 and db_idx_store; both refuse a key they hold already.
DbCanStore(k) == tbl[k] = Absent /\ idx[k] = Absent

DbStore(k, s) ==
    /\ tbl' = [tbl EXCEPT ![k] = s]
    /\ idx' = [idx EXCEPT ![k] = s]
    /\ UNCHANGED <<gen, saved>>

\* db_update_i64 with the row s and, when the index entry is to be changed
\* too, db_idx_update.
DbUpdate(k, s, sec) ==
    /\ tbl' = [tbl EXCEPT ![k] = s]
    /\ idx' = IF sec THEN [idx EXCEPT ![k] = s] ELSE idx
    /\ UNCHANGED <<gen, saved>>

\* db_remove_i64 and, when the caller has an iterator of the index entry,
\* db_idx_remove.
DbRemove(k, sec) ==
    /\ tbl' = [tbl EXCEPT ![k] = Absent]
    /\ idx' = IF sec THEN [idx EXCEPT ![k] = Absent] ELSE idx
    /\ gen' = [gen EXCEPT ![k] = @ + 1]
    /\ UNCHANGED saved

DbUnchanged == UNCHANGED dbVars

\* The action returned: its writes stay.
DbCommit ==
    /\ saved' = [tbl |-> tbl, idx |-> idx]
    /\ gen' = [k \in Keys |-> 0]
    /\ UNCHANGED <<tbl, idx>>

\* The action was aborted: its writes are undone.
DbRollback ==
    /\ tbl' = saved.tbl
    /\ idx' = saved.idx
    /\ gen' = [k \in Keys |-> 0]
    /\ UNCHANGED saved

DbInit ==
    /\ tbl = [k \in Keys |-> Absent]
    /\ idx = [k \in Keys |-> Absent]
    /\ gen = [k \in Keys |-> 0]
    /\ saved = [tbl |-> tbl, idx |-> idx]

DbTypeOK ==
    /\ tbl \in [Keys -> Secs \cup {Absent}]
    /\ idx \in [Keys -> Secs \cup {Absent}]
    /\ gen \in [Keys -> Gens]
    /\ saved \in [tbl : [Keys -> Secs \cup {Absent}],
                  idx : [Keys -> Secs \cup {Absent}]]
=============================================================================
