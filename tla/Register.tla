------------------------------ MODULE Register ------------------------------
(***************************************************************************)
(* What a singleton promises: a register that is set, removed and read,    *)
(* and that falls back to its last committed value when an action aborts.  *)
(***************************************************************************)
CONSTANTS Values, Absent

VARIABLES
    val,   \* the value stored, or Absent
    kept,  \* what an abort falls back to
    ans    \* what the last call told the program is stored, or Absent

Start == val = Absent /\ kept = Absent /\ ans = Absent

Read == ans' = val /\ UNCHANGED <<val, kept>>

Create(v) == val = Absent /\ val' = v /\ ans' = v /\ UNCHANGED kept

Put(v) == val' = v /\ ans' = Absent /\ UNCHANGED kept

Delete == val' = Absent /\ ans' = Absent /\ UNCHANGED kept

Commit == kept' = val /\ ans' = Absent /\ UNCHANGED val

Rollback == val' = kept /\ ans' = Absent /\ UNCHANGED kept

Step ==
    \/ Read
    \/ \E v \in Values : Create(v) \/ Put(v)
    \/ Delete
    \/ Commit
    \/ Rollback

RegisterSpec == Start /\ [][Step]_<<val, kept, ans>>
=============================================================================
