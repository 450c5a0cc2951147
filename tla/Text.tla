-------------------------------- MODULE Text --------------------------------
(***************************************************************************)
(* What ropes promise: each is a string of its own, whatever nodes they    *)
(* share inside, and reading one gives exactly its characters.             *)
(***************************************************************************)
EXTENDS Naturals, Sequences

CONSTANTS
    Ropes,   \* the variables of the program that hold a string
    First,   \* what they hold when the program begins
    Texts    \* the pieces of text the program assigns or appends

VARIABLES
    str,   \* the string each variable holds
    out    \* what the last call returned, in a tuple; << >> for nothing

Start == str = First /\ out = << >>

Assign(z, s) == str' = [str EXCEPT ![z] = s] /\ out' = << >>

Read(x) == out' = <<str[x]>> /\ UNCHANGED str

\* A call that reads has begun.
Begin == out' = << >> /\ UNCHANGED str

ReadAt(x, i) == out' = <<SubSeq(str[x], i, i)>> /\ UNCHANGED str

Step ==
    \/ \E z \in Ropes, s \in Texts : Assign(z, s)
    \/ \E z, x \in Ropes : Assign(z, str[x])
    \/ \E x \in Ropes, s \in Texts : Assign(x, str[x] \o s)
    \/ \E x, y \in Ropes : Assign(x, str[x] \o str[y])
    \/ Begin
    \/ \E x \in Ropes : Read(x)
    \/ \E x \in Ropes : \E i \in 1 .. Len(str[x]) : ReadAt(x, i)
    \/ Start'

TextSpec == Start /\ [][Step]_<<str, out>>
=============================================================================
