-------------------------------- MODULE Rope --------------------------------
(***************************************************************************)
(* eosio::rope (libraries/eosiolib/core/eosio/rope.hpp): strings put       *)
(* together without copying.  A rope is a pointer to a binary tree with    *)
(* the pieces of text in its leaves, the last piece leftmost.  Appending   *)
(* allocates nodes above the old root and nothing is ever deleted, so that *)
(* ropes copied or appended to one another share their nodes.              *)
(*                                                                         *)
(* c_str fills a buffer from its end while it walks the tree without a     *)
(* stack: each node remembers in its mutable fields where the walk came    *)
(* from (temp) and whether it is in its left half (temp_left).  The walk   *)
(* is modelled node by node, over the fields earlier walks have left.      *)
(***************************************************************************)
EXTENDS Integers, Sequences

CONSTANTS
    N,         \* the program has the ropes 1 .. N
    Chars,     \* characters
    Texts,     \* the C strings it uses, as sequences of characters
    First,     \* what the ropes are constructed from, << >> by default
    Nul,       \* the character that ends a C string
    MaxNodes   \* bound: nodes allocated by one program

ASSUME RopeAssumption ==
    /\ N \in Nat \ {0}
    /\ Texts \subseteq Seq(Chars) /\ Nul \in Chars
    /\ First \in [1 .. N -> Seq(Chars)]
    /\ MaxNodes \in Nat /\ MaxNodes >= 2 * N

VARIABLES
    node,   \* the nodes allocated so far; a pointer is a position, or Null
    root,   \* rope::root
    size,   \* rope::size
    walk,   \* the locals of c_str while it runs, else NoWalk
    out     \* what the last call returned, in a tuple; << >> for nothing

vars == <<node, root, size, walk, out>>

Ropes == 1 .. N

Null == 0

\* Literals as they are, and with the terminator as an array has it.
Pieces == Texts \cup {Append(s, Nul) : s \in Texts}

Str(s) == [kind |-> "str", text |-> s, temp |-> Null]

Concat(l, r) ==
    [kind |-> "concat", left |-> l, right |-> r, temp |-> Null, temp_left |-> FALSE]

NoWalk == [of |-> 0, r |-> Null, down |-> TRUE, off |-> 0, buf |-> << >>]

Start(nodes, roots, sizes) ==
    /\ nodes = [i \in 1 .. 2 * N |->
                  IF i % 2 = 1 THEN Str(First[(i + 1) \div 2]) ELSE Concat(i - 1, Null)]
    /\ roots = [x \in Ropes |-> 2 * x]
    /\ sizes = [x \in Ropes |-> Len(First[x])]

Init ==
    /\ Start(node, root, size)
    /\ walk = NoWalk
    /\ out = << >>

\* The program is between two calls and the bound leaves room for n nodes.
Ready(n) == walk = NoWalk /\ Len(node) + n <= MaxNodes

New == Len(node) + 1

Returns(what) == out' = what /\ UNCHANGED walk

-----------------------------------------------------------------------------

\* z = rope(s), by the constructor from a C string or from a string_view.
Construct(z, s) ==
    /\ Ready(2)
    /\ node' = node \o <<Str(s), Concat(New, Null)>>
    /\ root' = [root EXCEPT ![z] = New + 1]
    /\ size' = [size EXCEPT ![z] = Len(s)]
    /\ Returns(<< >>)

\* z = x: the implicit copy shares the tree.  x + s and x + y append to such
\* a copy.
Copy(z, x) ==
    /\ Ready(0)
    /\ root' = [root EXCEPT ![z] = root[x]]
    /\ size' = [size EXCEPT ![z] = size[x]]
    /\ UNCHANGED node
    /\ Returns(<< >>)

AppendTextInFront(x, s) ==
    /\ Ready(2)
    /\ node' = node \o <<Str(s), Concat(root[x], New)>>
    /\ root' = [root EXCEPT ![x] = New + 1]
    /\ size' = [size EXCEPT ![x] = size[x] + Len(s)]
    /\ Returns(<< >>)

\* x += s for a C string, or x.append(s) for an array, whose size includes
\* the terminator.
AppendText(x, s) ==
    /\ Ready(2)
    /\ node' = node \o <<Str(s), Concat(New, root[x])>>
    /\ root' = [root EXCEPT ![x] = New + 1]
    /\ size' = [size EXCEPT ![x] = size[x] + Len(s)]
    /\ Returns(<< >>)

\* x += y, where y may be x.
AppendRope(x, y) ==
    /\ Ready(1)
    /\ node' = Append(node, Concat(root[y], root[x]))
    /\ root' = [root EXCEPT ![x] = New]
    /\ size' = [size EXCEPT ![x] = size[x] + size[y]]
    /\ Returns(<< >>)

\* What the private at() makes of its reference arguments at a leaf.
AtLeaf(text, index, st) ==
    LET so_far == st.so_far - Len(text)
        k      == index - so_far + 1
    IN  IF index >= so_far
          THEN [ret |-> SubSeq(text, k, k), so_far |-> so_far, stop |-> TRUE]
          ELSE [ret |-> st.ret, so_far |-> so_far, stop |-> st.stop]

\* The private at(), by node: the leaves from the last piece on, until the
\* one that holds the character.
Visit(nodes, index) ==
    LET State == [ret : Seq(Chars), so_far : Int, stop : BOOLEAN]
        at[n \in 0 .. Len(nodes)] ==
          [st \in State |->
             IF n = Null THEN st
             ELSE IF nodes[n].kind = "str" THEN AtLeaf(nodes[n].text, index, st)
             ELSE IF st.stop THEN st
             ELSE at[nodes[n].right][at[nodes[n].left][st]]]
    IN  at

\* at(index), below the length.
At(x, index) ==
    LET begin == [ret |-> << >>, so_far |-> size[x], stop |-> FALSE]
    IN  /\ Ready(0)
        /\ Returns(<<Visit(node, index)[root[x]][begin].ret>>)
        /\ UNCHANGED <<node, root, size>>

-----------------------------------------------------------------------------
(* c_str, and sv and print through it.                                     *)

Unwritten(n) == [i \in 1 .. n |-> Nul]

\* c_str begins: a new buffer, and no way back from the root.
CStr(x) ==
    /\ Ready(0)
    /\ node' = [node EXCEPT ![root[x]].temp = Null]
    /\ walk' = [of |-> x, r |-> root[x], down |-> TRUE, off |-> size[x],
                buf |-> Unwritten(size[x])]
    /\ out' = << >>
    /\ UNCHANGED <<root, size>>

\* A copy that began before the buffer has undefined behaviour: the walk is
\* followed no further.
Walking == walk.r # Null /\ walk.off >= 0

Moves(w) == walk' = w /\ UNCHANGED <<root, size, out>>

Here == node[walk.r]

\* Going down, to the left half: it always exists.
Descend ==
    /\ Walking /\ walk.down /\ Here.kind = "concat"
    /\ node' = [node EXCEPT ![walk.r].temp_left = TRUE, ![Here.left].temp = walk.r]
    /\ Moves([walk EXCEPT !.r = Here.left])

CopyForwards ==
    /\ Walking /\ walk.down /\ Here.kind = "str"
    /\ LET off == walk.off - Len(Here.text)
       IN  Moves([walk EXCEPT
                    !.off = off, !.down = FALSE, !.r = Here.temp,
                    !.buf = [i \in DOMAIN walk.buf |->
                               IF i > size[walk.of] - walk.off
                                    /\ i <= size[walk.of] - off
                                 THEN Here.text[i - size[walk.of] + walk.off]
                                 ELSE walk.buf[i]]])
    /\ UNCHANGED node

\* A leaf is copied in front of what is already there.
CopyLeaf ==
    /\ Walking /\ walk.down /\ Here.kind = "str"
    /\ LET off == walk.off - Len(Here.text)
       IN  Moves([walk EXCEPT
                    !.off = off, !.down = FALSE, !.r = Here.temp,
                    !.buf = [i \in DOMAIN walk.buf |->
                               IF i > off /\ i <= walk.off
                                 THEN Here.text[i - off] ELSE walk.buf[i]]])
    /\ UNCHANGED node

TurnRightAgain ==
    /\ Walking /\ ~walk.down /\ Here.temp_left /\ Here.right # Null
    /\ node' = [node EXCEPT ![Here.right].temp = walk.r]
    /\ Moves([walk EXCEPT !.down = TRUE, !.r = Here.right])

\* Back from the left half, on to the right one if there is one.
TurnRight ==
    /\ Walking /\ ~walk.down /\ Here.temp_left /\ Here.right # Null
    /\ node' = [node EXCEPT ![walk.r].temp_left = FALSE, ![Here.right].temp = walk.r]
    /\ Moves([walk EXCEPT !.down = TRUE, !.r = Here.right])

Ascend ==
    /\ Walking /\ ~walk.down /\ ~(Here.temp_left /\ Here.right # Null)
    /\ Moves([walk EXCEPT !.r = Here.temp])
    /\ UNCHANGED node

\* The walk is over; the string ends with a terminator behind the buffer.
Return ==
    /\ walk # NoWalk /\ walk.r = Null
    /\ out' = <<walk.buf>>
    /\ walk' = NoWalk
    /\ UNCHANGED <<node, root, size>>

Step == Descend \/ CopyLeaf \/ TurnRight \/ Ascend \/ Return

\* The contract is instantiated anew.
Instantiate ==
    /\ walk = NoWalk \/ walk.off < 0
    /\ Start(node', root', size')
    /\ walk' = NoWalk
    /\ out' = << >>

Next ==
    \/ \E z \in Ropes, s \in Texts : Construct(z, s)
    \/ \E z, x \in Ropes : Copy(z, x)
    \/ \E x \in Ropes, s \in Pieces : AppendText(x, s)
    \/ \E x, y \in Ropes : AppendRope(x, y)
    \/ \E x \in Ropes : \E i \in 0 .. size[x] - 1 : At(x, i)
    \/ \E x \in Ropes : CStr(x)
    \/ Step
    \/ Instantiate

\* c_str is a loop without calls that could block.
Spec == Init /\ [][Next]_vars /\ WF_vars(Step)

-----------------------------------------------------------------------------

\* The string a rope stands for: the right half comes before the left one.
TextIn(nodes) ==
    LET text[n \in 0 .. Len(nodes)] ==
          IF n = Null THEN << >>
          ELSE IF nodes[n].kind = "str" THEN nodes[n].text
          ELSE text[nodes[n].right] \o text[nodes[n].left]
    IN  text

TextOf(x) == TextIn(node)[root[x]]

\* At any time during a walk the buffer has the end of the text, written
\* without a gap, and the walk has stayed inside the buffer: links that
\* earlier walks left in shared nodes do not lead it astray.
TailWritten ==
    walk # NoWalk =>
      /\ walk.off >= 0
      /\ \A i \in walk.off + 1 .. size[walk.of] : walk.buf[i] = TextOf(walk.of)[i]

\* A call of c_str returns, although a walk without a stack over shared nodes
\* could go around in circles.
WalkEnds == (walk # NoWalk) ~> (walk = NoWalk /\ out # << >>)

Strings == INSTANCE Text WITH str <- [x \in Ropes |-> TextOf(x)], Texts <- Pieces

\* Ropes are strings: no operation on one changes another although they
\* share nodes, and c_str and at return what was put in.
ImplementsText == Strings!TextSpec
=============================================================================
