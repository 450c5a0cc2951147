---------------------------- MODULE OrderedTable ----------------------------
(***************************************************************************)
(* What a multi_index promises its contract: one table of rows, found      *)
(* under their primary key and, in the order of secondary and then primary *)
(* key, through the index; an iterator that stands on a row or at the end; *)
(* and changes that are kept when the action returns and lost when it      *)
(* aborts.  There is no cache, no second copy of the secondary keys and no *)
(* host iterator in this specification.                                    *)
(***************************************************************************)
EXTENDS Integers

CONSTANTS Keys, Secs, Absent, End

VARIABLES
    rows,   \* [Keys -> Secs \cup {Absent}]
    kept,   \* the rows when the action began
    pos     \* the iterator: [ix |-> "pri" or "sec", at |-> key or End]

tableVars == <<rows, kept, pos>>

Present == {k \in Keys : rows[k] # Absent}

\* j comes before k in the order of ix.
Before(ix, j, k) ==
    CASE ix = "pri" -> j < k
      [] ix = "sec" -> rows[j] < rows[k] \/ (rows[j] = rows[k] /\ j < k)

First(ix, S, x) ==
    IF S = {} THEN x = End
              ELSE x \in S /\ \A y \in S : y = x \/ Before(ix, x, y)

Last(ix, S, x) ==
    IF S = {} THEN x = End
              ELSE x \in S /\ \A y \in S : y = x \/ Before(ix, y, x)

TableInit ==
    /\ rows = [k \in Keys |-> Absent]
    /\ kept = rows
    /\ pos = [ix |-> "pri", at |-> End]

Place(ix, x) == pos' = [ix |-> ix, at |-> x] /\ UNCHANGED <<rows, kept>>

\* find by primary key, and iterator_to of a row.
Lookup(k) == Place("pri", IF rows[k] = Absent THEN End ELSE k)

\* begin, lower_bound and upper_bound of the table.
Bound(k) ==
    \/ \E x \in Present \cup {End} :
         First("pri", {j \in Present : j >= k}, x) /\ Place("pri", x)
    \/ \E x \in Present \cup {End} :
         First("pri", {j \in Present : j > k}, x) /\ Place("pri", x)

\* lower_bound, upper_bound and find of the index.
SecBound(s) ==
    \/ \E x \in Present \cup {End} :
         First("sec", {j \in Present : rows[j] >= s}, x) /\ Place("sec", x)
    \/ \E x \in Present \cup {End} :
         First("sec", {j \in Present : rows[j] > s}, x) /\ Place("sec", x)
    \/ \E x \in Present \cup {End} :
         First("sec", {j \in Present : rows[j] = s}, x) /\ Place("sec", x)

\* iterator_to of the index, and the end iterators.
Mark(ix, x) == (x = End \/ x \in Present) /\ Place(ix, x)

Forward ==
    /\ pos.at \in Present
    /\ \E x \in Present \cup {End} :
         /\ First(pos.ix, {j \in Present : Before(pos.ix, pos.at, j)}, x)
         /\ Place(pos.ix, x)

Backward ==
    \E x \in Present :
      /\ IF pos.at = End
           THEN Last(pos.ix, Present, x)
           ELSE /\ pos.at \in Present
                /\ Last(pos.ix, {j \in Present : Before(pos.ix, j, pos.at)}, x)
      /\ Place(pos.ix, x)

Insert(k, s) ==
    /\ rows[k] = Absent
    /\ rows' = [rows EXCEPT ![k] = s]
    /\ pos' = [ix |-> "pri", at |-> k]
    /\ UNCHANGED kept

Update(k, s) ==
    /\ k \in Present
    /\ rows' = [rows EXCEPT ![k] = s]
    /\ UNCHANGED <<kept, pos>>

Delete(k) ==
    /\ k \in Present
    /\ rows' = [rows EXCEPT ![k] = Absent]
    /\ UNCHANGED <<kept, pos>>

\* The row under the iterator goes and the iterator stands on its successor.
DeleteForward ==
    /\ pos.at \in Present
    /\ \E x \in Present \cup {End} :
         /\ First(pos.ix, {j \in Present : Before(pos.ix, pos.at, j)}, x)
         /\ pos' = [ix |-> pos.ix, at |-> x]
    /\ rows' = [rows EXCEPT ![pos.at] = Absent]
    /\ UNCHANGED kept

Keep ==
    /\ kept' = rows
    /\ pos' = [ix |-> "pri", at |-> End]
    /\ UNCHANGED rows

Undo ==
    /\ rows' = kept
    /\ pos' = [ix |-> "pri", at |-> End]
    /\ UNCHANGED kept

TableNext ==
    \/ Undo
    \/ Keep
    \/ \E k \in Keys : Lookup(k)
    \/ \E k \in Keys \cup {0} : Bound(k)
    \/ \E s \in Secs : SecBound(s)
    \/ \E ix \in {"pri", "sec"}, x \in Keys \cup {End} : Mark(ix, x)
    \/ Forward
    \/ Backward
    \/ \E k \in Keys, s \in Secs : Insert(k, s)
    \/ \E k \in Keys, s \in Secs : Update(k, s)
    \/ \E k \in Keys : Delete(k)
    \/ DeleteForward

TableSpec == TableInit /\ [][TableNext]_tableVars
=============================================================================
