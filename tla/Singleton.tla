----------------------------- MODULE Singleton -----------------------------
(***************************************************************************)
(* eosio::singleton (libraries/eosiolib/contracts/eosio/singleton.hpp): a  *)
(* table with one row, reached through the multi_index object in every     *)
(* singleton object.  The table has no secondary index, hence of           *)
(* multi_index only the primary part is here: find() answers from the      *)
(* items the object has loaded (seen, by the generation of the row they    *)
(* were loaded from) and asks the host only when there is none.  As in     *)
(* ChainDb a host iterator is the number of removals before it (gen), and  *)
(* an abort restores the row the action started with.                      *)
(***************************************************************************)
EXTENDS Naturals

CONSTANTS
    Values,  \* values of type T
    Insts,   \* the singleton objects of one action
    MaxGen,  \* bound: removals of the row within one action
    Absent

ASSUME ValuesAssumption == MaxGen \in Nat /\ Absent \notin Values

VARIABLES
    row,   \* the row of the host
    gen,   \* how often it was removed in this action
    kept,  \* the row when the action began
    own,   \* whether the table belongs to the running contract
    seen,  \* _items_vector of each object
    ans,   \* the value the last call returned from the table, or Absent
    last   \* how the last call ended

singletonVars == <<row, gen, kept, own, seen, ans, last>>

Gens == 0 .. MaxGen

NoItems == [g \in Gens |-> Absent]

SingletonInit ==
    /\ row = Absent /\ kept = Absent /\ gen = 0
    /\ own \in BOOLEAN
    /\ seen = [i \in Insts |-> NoItems]
    /\ ans = Absent
    /\ last = "ok"

FreshObjects ==
    /\ gen' = 0
    /\ own' \in BOOLEAN
    /\ seen' = [i \in Insts |-> NoItems]
    /\ ans' = Absent

Abort(why) ==
    /\ row' = kept /\ UNCHANGED kept
    /\ FreshObjects
    /\ last' = why

\* The item find() takes: the one loaded last, which has the highest gen.
Found(i, g) == seen[i][g] # Absent /\ \A f \in Gens : f > g => seen[i][f] = Absent

NotSeen(i) == seen[i] = NoItems

\* find() loads the row of the host.
Loaded(i) == [seen EXCEPT ![i][gen] = row]

\* A call that only reads: it found the value v, and s is what the objects
\* have loaded afterwards.
Answers(v, s) ==
    /\ ans' = v
    /\ seen' = s
    /\ last' = "ok"
    /\ UNCHANGED <<row, gen, kept, own>>

\* exists() and get_or_default(), which returns its argument when there is
\* no value.
Exists(i) ==
    \/ \E g \in Gens : Found(i, g) /\ Answers(seen[i][g], seen)
    \/ NotSeen(i) /\ Answers(row, Loaded(i))

Get(i) ==
    \/ \E g \in Gens : Found(i, g) /\ Answers(seen[i][g], seen)
    \/ NotSeen(i) /\ row # Absent /\ Answers(row, Loaded(i))
    \/ NotSeen(i) /\ row = Absent /\ Abort("check")

\* multi_index::emplace, when the host has no row.
Emplace(i, v, answer) ==
    \/ ~own /\ Abort("check")
    \/ /\ own
       /\ row' = v
       /\ seen' = [seen EXCEPT ![i][gen] = v]
       /\ ans' = answer
       /\ last' = "ok"
       /\ UNCHANGED <<gen, kept, own>>

GetOrCreate(i, v) ==
    \/ \E g \in Gens : Found(i, g) /\ Answers(seen[i][g], seen)
    \/ NotSeen(i) /\ row # Absent /\ Answers(row, Loaded(i))
    \/ NotSeen(i) /\ row = Absent /\ Emplace(i, v, v)

ModifyACopy(i, g, v, s) ==
    /\ own /\ g = gen /\ row # Absent
    /\ row' = v
    /\ seen' = s
    /\ ans' = Absent
    /\ last' = "ok"
    /\ UNCHANGED <<gen, kept, own>>

\* multi_index::modify through the item of generation g, in the items s.
Modify(i, g, v, s) ==
    \/ ~own /\ Abort("check")
    \/ own /\ (g # gen \/ row = Absent) /\ Abort("dead")
    \/ /\ own /\ g = gen /\ row # Absent
       /\ row' = v
       /\ seen' = [s EXCEPT ![i][g] = v]
       /\ ans' = Absent
       /\ last' = "ok"
       /\ UNCHANGED <<gen, kept, own>>

Set(i, v) ==
    \/ \E g \in Gens : Found(i, g) /\ Modify(i, g, v, seen)
    \/ NotSeen(i) /\ row # Absent /\ Modify(i, gen, v, Loaded(i))
    \/ NotSeen(i) /\ row = Absent /\ Emplace(i, v, Absent)

EraseKeepsItem(i, g, s) ==
    \/ (g # gen \/ row = Absent) /\ Abort("dead")
    \/ /\ g = gen /\ row # Absent /\ own /\ gen < MaxGen
       /\ row' = Absent
       /\ gen' = gen + 1
       /\ seen' = s
       /\ ans' = Absent
       /\ last' = "ok"
       /\ UNCHANGED <<kept, own>>

\* multi_index::erase(itr), which moves the iterator before it removes the
\* row and the item.
Erase(i, g, s) ==
    \/ (g # gen \/ row = Absent) /\ Abort("dead")
    \/ g = gen /\ row # Absent /\ ~own /\ Abort("check")
    \/ /\ g = gen /\ row # Absent /\ own /\ gen < MaxGen
       /\ row' = Absent
       /\ gen' = gen + 1
       /\ seen' = [s EXCEPT ![i][g] = Absent]
       /\ ans' = Absent
       /\ last' = "ok"
       /\ UNCHANGED <<kept, own>>

Remove(i) ==
    \/ \E g \in Gens : Found(i, g) /\ Erase(i, g, seen)
    \/ NotSeen(i) /\ row # Absent /\ Erase(i, gen, Loaded(i))
    \/ NotSeen(i) /\ row = Absent /\ Answers(Absent, seen)

EndAction ==
    /\ kept' = row /\ UNCHANGED row
    /\ FreshObjects
    /\ last' = "ok"

SingletonNext ==
    \/ \E i \in Insts : Exists(i) \/ Get(i) \/ Remove(i)
    \/ \E i \in Insts, v \in Values : Set(i, v) \/ GetOrCreate(i, v)
    \/ EndAction

SingletonSpec == SingletonInit /\ [][SingletonNext]_singletonVars

-----------------------------------------------------------------------------

Reg == INSTANCE Register WITH val <- row

\* An action that uses one singleton object per table sees a register: set,
\* remove and get_or_create take effect at once and every read returns the
\* last of them.
ImplementsRegister == Reg!RegisterSpec
=============================================================================
