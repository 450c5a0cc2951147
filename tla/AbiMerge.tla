------------------------------ MODULE AbiMerge ------------------------------
(***************************************************************************)
(* ABIMerger (tools/include/eosio/abimerge.hpp), which the linker uses to  *)
(* make one ABI of those the linked objects carry.                         *)
(*                                                                         *)
(* An ABI is [version, sec]: sec gives every section that is there the set *)
(* of its entries, [id |-> what the entry is found by, def |-> the rest].  *)
(* The version is ten times the number, as the code compares it.  The      *)
(* order of the entries of a section means nothing and is left out.        *)
(***************************************************************************)
EXTENDS Naturals, Sequences

\* The sections every ABI has.
Always == {"types", "structs", "actions", "tables", "ricardian_clauses", "variants"}

Sections == Always \cup {"action_results", "calls"}

Ids(S) == {x.id : x \in S}

Elements(s) == {s[i] : i \in DOMAIN s}

\* The first version with action results.
ResultsVersion == 12

\* struct_is_same, variant_is_same, call_is_same and the others: whether the
\* entries x and y of the section s, with the same id, count as one.  The
\* fields of a struct are compared without their order, the alternatives of
\* a variant in one direction only, and a call without its result type.
IsSame(s, x, y) ==
    CASE s = "structs"  -> /\ x.def.base = y.def.base
                           /\ Len(x.def.fields) = Len(y.def.fields)
                           /\ Elements(x.def.fields) \subseteq Elements(y.def.fields)
      [] s = "variants" -> Elements(x.def) \subseteq Elements(y.def)
      [] s = "calls"    -> x.def.type = y.def.type
      [] OTHER          -> x.def = y.def

\* The entries of b for which add_object_to_array throws.
Clash(s, a, b) == \E x \in a, y \in b : x.id = y.id /\ ~IsSame(s, x, y)

\* should_skip is not reset.
AddSkipsRest(a, b) == IF Ids(a) \cap Ids(b) = {} THEN a \cup b ELSE a

\* What add_object_to_array makes of two sections.
AddObjectToArray(a, b) == a \cup {y \in b : y.id \notin Ids(a)}

MergesEverything(a) == Sections

\* The sections merge goes through: only those of the first ABI count.
Merges(a) ==
    Always \cup (IF a.version >= ResultsVersion THEN {"action_results"} ELSE {})
           \cup (IF "calls" \in DOMAIN a.sec THEN {"calls"} ELSE {})

\* merge throws: a section is not in one of the ABIs (operator[] of ojson
\* finds no such key), or the two disagree.
Throws(a, b) ==
    \E s \in Merges(a) :
      \/ s \notin DOMAIN a.sec \cap DOMAIN b.sec
      \/ Clash(s, a.sec[s], b.sec[s])

\* merge, when it does not throw.
Merge(a, b) ==
    [version |-> IF a.version < b.version THEN b.version ELSE a.version,
     sec     |-> [s \in Merges(a) |-> AddObjectToArray(a.sec[s], b.sec[s])]]
=============================================================================
