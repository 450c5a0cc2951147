--------------------------- MODULE LibraryProofs ---------------------------
(***************************************************************************)
(* Two types of eosiolib that are more inside than what they promise.  A   *)
(* rope is a string, whatever nodes it shares with others and whatever     *)
(* links earlier calls of c_str have left in them, and c_str always has    *)
(* the end of the text in its buffer.  One singleton object per table is a *)
(* register, however often its row is removed.                             *)
(***************************************************************************)
EXTENDS Rope, Singleton, SequenceTheorems, NaturalsInduction,
        WellFoundedInduction, TLAPS

-----------------------------------------------------------------------------
(* The nodes of ropes.                                                     *)

Leaf == [kind : {"str"}, text : Seq(Chars), temp : Nat]

Pair ==
    [kind : {"concat"}, left : Nat, right : Nat, temp : Nat, temp_left : BOOLEAN]

\* A node points to older ones only, hence no way down comes back, and its
\* right half is never a leaf: at() does not look at stop in a leaf.
Older(nodes, i) ==
    /\ nodes[i].left \in 1 .. i - 1
    /\ nodes[i].right \in 0 .. i - 1
    /\ nodes[i].right # Null => nodes[nodes[i].right].kind = "concat"

Tree(nodes) ==
    /\ nodes \in Seq(Leaf \cup Pair)
    /\ \A i \in 1 .. Len(nodes) : nodes[i].kind = "concat" => Older(nodes, i)

\* A node is a leaf or has two older halves.
LEMMA NodeType ==
    ASSUME NEW nodes, Tree(nodes), NEW i \in 1 .. Len(nodes)
    PROVE  \/ nodes[i].kind = "str" /\ nodes[i] \in Leaf
           \/ nodes[i].kind = "concat" /\ nodes[i] \in Pair /\ Older(nodes, i)
<1>1. nodes[i] \in Leaf \cup Pair
  BY ElementOfSeq DEF Tree
<1>2. CASE nodes[i] \in Leaf
  BY <1>2 DEF Leaf
<1>3. CASE nodes[i] \in Pair
  <2>1. nodes[i].kind = "concat"
    BY <1>3 DEF Pair
  <2>. QED
    BY <1>3, <2>1 DEF Tree
<1>. QED
  BY <1>1, <1>2, <1>3

\* A set of naturals that is not empty has a least member.
LEMMA Smallest ==
    ASSUME NEW S \in SUBSET Nat, S # {}
    PROVE  \E n \in S : \A k \in S : n <= k
<1>1. PICK n \in S : \A k \in S : ~(<<k, n>> \in OpToRel(<, Nat))
  BY NatLessThanWellFounded, WFMin
<1>2. \A k \in S : ~(k < n)
  BY <1>1 DEF OpToRel
<1>. QED
  BY <1>2

\* Induction on the nodes of a tree, from its leaves.
LEMMA TreeInduction ==
    ASSUME NEW nodes, Tree(nodes), NEW Q,
           0 \in Q,
           \A i \in 1 .. Len(nodes) : nodes[i].kind = "str" => i \in Q,
           \A i \in 1 .. Len(nodes) :
             (/\ nodes[i].kind = "concat" /\ Older(nodes, i)
              /\ nodes[i].left \in Q /\ nodes[i].right \in Q) => i \in Q
    PROVE  \A i \in 0 .. Len(nodes) : i \in Q
<1>. DEFINE Bad == {i \in 0 .. Len(nodes) : i \notin Q}
<1>0. Len(nodes) \in Nat
  BY LenProperties DEF Tree
<1>1. Bad \in SUBSET Nat
  OBVIOUS
<1>2. SUFFICES ASSUME Bad # {}
               PROVE  FALSE
  OBVIOUS
<1>3. PICK n \in Bad : \A k \in Bad : n <= k
  <2>. HIDE DEF Bad
  <2>. QED
    BY <1>1, <1>2, Smallest
<1>4. n \in 1 .. Len(nodes)
  BY <1>0, <1>3
<1>5. nodes[n].kind = "concat" /\ Older(nodes, n)
  BY <1>3, <1>4, NodeType
<1>6. nodes[n].left \in 0 .. Len(nodes) /\ nodes[n].left < n
      /\ nodes[n].right \in 0 .. Len(nodes) /\ nodes[n].right < n
  BY <1>0, <1>4, <1>5 DEF Older
<1>7. nodes[n].left \in Q /\ nodes[n].right \in Q
  BY <1>0, <1>3, <1>4, <1>6
<1>. QED
  BY <1>3, <1>4, <1>5, <1>7

-----------------------------------------------------------------------------
(* What a node stands for.                                                 *)

\* The equation that defines the texts of the nodes up to n.
TextAt(nodes, f, k) ==
    IF k = Null THEN << >>
    ELSE IF nodes[k].kind = "str" THEN nodes[k].text
    ELSE f[nodes[k].right] \o f[nodes[k].left]

TextUpTo(nodes, n, f) == f = [k \in 0 .. n |-> TextAt(nodes, f, k)]

\* The recursion ends, hence the texts satisfy it.
LEMMA TextDefined ==
    ASSUME NEW nodes, Tree(nodes)
    PROVE  TextUpTo(nodes, Len(nodes), TextIn(nodes))
<1>. DEFINE P(n) == \E f : TextUpTo(nodes, n, f)
            Bad  == {n \in 0 .. Len(nodes) : ~P(n)}
<1>0. Len(nodes) \in Nat
  BY LenProperties DEF Tree
<1>1. P(0)
  <2>. DEFINE g == [k \in 0 .. 0 |-> << >>]
  <2>1. TextUpTo(nodes, 0, g)
    BY DEF TextUpTo, TextAt, Null
  <2>. QED
    BY <2>1
<1>2. ASSUME NEW n \in 0 .. Len(nodes) - 1, P(n)
      PROVE  P(n + 1)
  <2>1. PICK f : TextUpTo(nodes, n, f)
    BY <1>2
  <2>. DEFINE g == [k \in 0 .. n + 1 |-> TextAt(nodes, f, k)]
  <2>2. \A k \in 0 .. n : g[k] = f[k]
    BY <1>0, <2>1 DEF TextUpTo
  <2>3. ASSUME NEW k \in 0 .. n + 1
        PROVE  TextAt(nodes, f, k) = TextAt(nodes, g, k)
    <3>1. CASE k # Null /\ nodes[k].kind # "str"
      <4>1. k \in 1 .. Len(nodes)
        BY <1>0, <3>1 DEF Null
      <4>2. nodes[k].left \in 0 .. n /\ nodes[k].right \in 0 .. n
        BY <1>0, <3>1, <4>1, NodeType DEF Older
      <4>. HIDE DEF g
      <4>. QED
        BY <2>2, <3>1, <4>2 DEF TextAt
    <3>2. CASE k = Null \/ nodes[k].kind = "str"
      BY <3>2 DEF TextAt
    <3>. QED
      BY <3>1, <3>2
  <2>4. TextUpTo(nodes, n + 1, g)
    BY <2>3 DEF TextUpTo
  <2>. QED
    BY <2>4
<1>. HIDE DEF P
<1>3. P(Len(nodes))
  <2>1. Bad \in SUBSET Nat
    OBVIOUS
  <2>2. SUFFICES ASSUME Bad # {}
                 PROVE  FALSE
    BY <1>0
  <2>3. PICK e \in Bad : \A c \in Bad : e <= c
    <3>. HIDE DEF Bad
    <3>. QED
      BY <2>1, <2>2, Smallest
  <2>4. e # 0
    BY <1>1, <2>3
  <2>5. e - 1 \in 0 .. Len(nodes) - 1 /\ e - 1 \notin Bad /\ (e - 1) + 1 = e
    BY <1>0, <2>3, <2>4
  <2>6. P(e - 1)
    BY <1>0, <2>5
  <2>. QED
    BY <1>2, <2>3, <2>5, <2>6
<1>4. PICK f : TextUpTo(nodes, Len(nodes), f)
  BY <1>3 DEF P
<1>. QED
  BY <1>4 DEF TextUpTo, TextAt, TextIn

\* What t, the texts of the nodes, satisfies.
TextLaws(nodes, t) ==
    /\ t[0] = << >>
    /\ \A i \in 0 .. Len(nodes) : t[i] \in Seq(Chars)
    /\ \A i \in 1 .. Len(nodes) : nodes[i].kind = "str" => t[i] = nodes[i].text
    /\ \A i \in 1 .. Len(nodes) :
         nodes[i].kind = "concat" => t[i] = t[nodes[i].right] \o t[nodes[i].left]

LEMMA TextUnfolds ==
    ASSUME NEW nodes, Tree(nodes)
    PROVE  TextLaws(nodes, TextIn(nodes))
<1>0. Len(nodes) \in Nat
  BY LenProperties DEF Tree
<1>1. PICK t : t = TextIn(nodes)
  OBVIOUS
<1>2. \A k \in 0 .. Len(nodes) : t[k] = TextAt(nodes, t, k)
  <2>1. TextUpTo(nodes, Len(nodes), t)
    BY <1>1, TextDefined
  <2>. QED
    BY <2>1 DEF TextUpTo
<1>. DEFINE Q == {i \in 0 .. Len(nodes) : t[i] \in Seq(Chars)}
<1>3. t[0] = << >>
  BY <1>0, <1>2 DEF TextAt, Null
<1>4. ASSUME NEW i \in 1 .. Len(nodes), nodes[i].kind = "str"
      PROVE  t[i] = nodes[i].text /\ i \in Q
  <2>1. nodes[i].text \in Seq(Chars)
    BY <1>4, NodeType DEF Leaf
  <2>2. t[i] = TextAt(nodes, t, i) /\ i # Null
    BY <1>0, <1>2 DEF Null
  <2>3. t[i] = nodes[i].text
    BY <1>4, <2>2 DEF TextAt
  <2>. QED
    BY <2>1, <2>3, <1>0
<1>5. ASSUME NEW i \in 1 .. Len(nodes), nodes[i].kind = "concat"
      PROVE  t[i] = t[nodes[i].right] \o t[nodes[i].left]
  <2>1. t[i] = TextAt(nodes, t, i) /\ i # Null
    BY <1>0, <1>2 DEF Null
  <2>. QED
    BY <1>5, <2>1 DEF TextAt
<1>6. \A i \in 1 .. Len(nodes) :
        (/\ nodes[i].kind = "concat" /\ Older(nodes, i)
         /\ nodes[i].left \in Q /\ nodes[i].right \in Q) => i \in Q
  <2>. TAKE i \in 1 .. Len(nodes)
  <2>. HAVE /\ nodes[i].kind = "concat" /\ Older(nodes, i)
            /\ nodes[i].left \in Q /\ nodes[i].right \in Q
  <2>1. t[nodes[i].right] \o t[nodes[i].left] \in Seq(Chars)
    BY ConcatProperties
  <2>2. t[i] = t[nodes[i].right] \o t[nodes[i].left]
    BY <1>5
  <2>3. t[i] \in Seq(Chars)
    BY <2>1, <2>2, Zenon
  <2>. QED
    BY <1>0, <2>3
<1>7. 0 \in Q
  <2>1. << >> \in Seq(Chars)
    BY EmptySeq
  <2>2. t[0] \in Seq(Chars)
    BY <1>3, <2>1, Zenon
  <2>. QED
    BY <1>0, <2>2
<1>. HIDE DEF Q
<1>8. \A i \in 0 .. Len(nodes) : i \in Q
  BY <1>4, <1>6, <1>7, TreeInduction
<1>9. \A i \in 0 .. Len(nodes) : t[i] \in Seq(Chars)
  BY <1>8 DEF Q
<1>10. TextLaws(nodes, t)
  BY <1>3, <1>4, <1>5, <1>9 DEF TextLaws
<1>. QED
  BY <1>1, <1>10

\* The nodes m are the nodes n, perhaps with other links, and new ones.
Keeps(n, m, i) ==
    /\ m[i].kind = n[i].kind
    /\ n[i].kind = "str" => m[i].text = n[i].text
    /\ n[i].kind = "concat" => m[i].left = n[i].left /\ m[i].right = n[i].right

Grows(n, m) ==
    /\ Tree(n) /\ Tree(m)
    /\ Len(n) <= Len(m)
    /\ \A i \in 1 .. Len(n) : Keeps(n, m, i)

\* Links and new nodes leave every text as it is.
LEMMA TextKept ==
    ASSUME NEW n, NEW m, Grows(n, m)
    PROVE  \A i \in 0 .. Len(n) : TextIn(m)[i] = TextIn(n)[i]
<1>0. Tree(n) /\ Tree(m) /\ Len(n) \in Nat /\ Len(m) \in Nat /\ Len(n) <= Len(m)
  BY LenProperties DEF Tree, Grows
<1>1. PICK t : t = TextIn(n)
  OBVIOUS
<1>2. PICK u : u = TextIn(m)
  OBVIOUS
<1>3. TextLaws(n, t) /\ TextLaws(m, u)
  BY <1>0, <1>1, <1>2, TextUnfolds
<1>. DEFINE Q == {i \in 0 .. Len(n) : u[i] = t[i]}
<1>4. 0 \in Q
  BY <1>0, <1>3 DEF TextLaws
<1>5. \A i \in 1 .. Len(n) : n[i].kind = "str" => i \in Q
  BY <1>0, <1>3 DEF Grows, Keeps, TextLaws
<1>6. \A i \in 1 .. Len(n) :
        (/\ n[i].kind = "concat" /\ Older(n, i)
         /\ n[i].left \in Q /\ n[i].right \in Q) => i \in Q
  <2>. TAKE i \in 1 .. Len(n)
  <2>. HAVE /\ n[i].kind = "concat" /\ Older(n, i)
            /\ n[i].left \in Q /\ n[i].right \in Q
  <2>1. Keeps(n, m, i) /\ i \in 1 .. Len(m)
    BY <1>0 DEF Grows
  <2>2. t[i] = t[n[i].right] \o t[n[i].left]
    BY <1>3 DEF TextLaws
  <2>3. u[i] = u[n[i].right] \o u[n[i].left]
    BY <1>3, <2>1 DEF TextLaws, Keeps
  <2>4. u[i] = t[i]
    BY <2>2, <2>3
  <2>. QED
    BY <1>0, <2>4
<1>. HIDE DEF Q
<1>7. \A i \in 0 .. Len(n) : i \in Q
  BY <1>0, <1>4, <1>5, <1>6, TreeInduction
<1>. QED
  BY <1>1, <1>2, <1>7 DEF Q

-----------------------------------------------------------------------------
(* The way of a walk through the nodes n, whose texts are t.               *)

\* The text s is the part of w from position at + 1 on.
Part(w, at, s) ==
    /\ at \in Nat
    /\ at + Len(s) <= Len(w)
    /\ \A i \in 1 .. Len(s) : w[at + i] = s[i]

\* The right half of a node begins where the node does, the left one behind it.
LEMMA PartHalves ==
    ASSUME NEW w \in Seq(Chars), NEW a \in Seq(Chars), NEW b \in Seq(Chars),
           NEW at \in Nat, Part(w, at, a \o b)
    PROVE  Part(w, at, a) /\ Part(w, at + Len(a), b)
<1>1. Len(w) \in Nat /\ Len(a) \in Nat /\ Len(b) \in Nat /\ Len(a \o b) = Len(a) + Len(b)
  BY LenProperties, ConcatProperties
<1>2. \A i \in 1 .. Len(a) + Len(b) :
        (a \o b)[i] = IF i <= Len(a) THEN a[i] ELSE b[i - Len(a)]
  BY ConcatProperties
<1>3. at + (Len(a) + Len(b)) <= Len(w)
  BY <1>1 DEF Part
<1>4. \A i \in 1 .. Len(a) + Len(b) : w[at + i] = (a \o b)[i]
  BY <1>1 DEF Part
<1>5. Part(w, at, a)
  BY <1>1, <1>2, <1>3, <1>4 DEF Part
<1>6. ASSUME NEW i \in 1 .. Len(b)
      PROVE  w[(at + Len(a)) + i] = b[i]
  <2>1. PICK k : k = Len(a) + i
    OBVIOUS
  <2>2. k \in 1 .. Len(a) + Len(b) /\ ~(k <= Len(a)) /\ k - Len(a) = i
        /\ at + k = (at + Len(a)) + i
    BY <1>1, <2>1
  <2>3. w[at + k] = b[k - Len(a)]
    BY <1>2, <1>4, <2>2
  <2>. QED
    BY <2>2, <2>3
<1>. QED
  BY <1>1, <1>3, <1>5, <1>6 DEF Part

\* The half a walk is in below the node i, and where its text begins.
Half(n, i) == IF n[i].temp_left THEN n[i].left ELSE n[i].right

HalfBegins(n, t, pos, i, left) ==
    IF left THEN pos[i] + Len(t[n[i].right]) ELSE pos[i]

Begins(n, t, pos, i) == HalfBegins(n, t, pos, i, n[i].temp_left)

\* The next node of the way is a half of i, with nothing between them.
Below(n, t, P, pos, i) ==
    /\ n[i].kind = "concat"
    /\ Half(n, i) \in P /\ Half(n, i) < i
    /\ \A k \in P : k < i => k <= Half(n, i)
    /\ pos[Half(n, i)] = Begins(n, t, pos, i)

\* P are the nodes on the way from the root R down to r, each linked to the
\* one above it, and pos says where the text of each begins in that of R.
Way(n, t, R, r, P, pos) ==
    /\ P \subseteq 1 .. Len(n) /\ R \in P
    /\ r \in P /\ \A i \in P : r <= i
    /\ pos \in [1 .. Len(n) -> Nat] /\ pos[R] = 0
    /\ n[R].temp = Null
    /\ \A i \in P \ {r} : Below(n, t, P, pos, i)
    /\ \A i \in P \ {R} : n[i].temp \in P \ {r} /\ Half(n, n[i].temp) = i
    /\ \A i \in P : Part(t[R], pos[i], t[i])

\* c_str leaves the node r, which it is done with.
LEMMA WayUp ==
    ASSUME NEW n, NEW t, NEW R, NEW r, NEW P, NEW pos, Tree(n),
           Way(n, t, R, r, P, pos), r # R
    PROVE  /\ n[r].temp \in P /\ Half(n, n[r].temp) = r
           /\ n[n[r].temp].kind = "concat"
           /\ pos[r] = Begins(n, t, pos, n[r].temp)
           /\ Way(n, t, R, n[r].temp, P \ {r}, pos)
<1>0. Len(n) \in Nat
  BY LenProperties DEF Tree
<1>1. PICK u : u = n[r].temp
  OBVIOUS
<1>2. u \in P \ {r} /\ Half(n, u) = r /\ Below(n, t, P, pos, u)
  BY <1>1 DEF Way
<1>3. P \subseteq Nat /\ r \in Nat /\ u \in Nat
  BY <1>0, <1>2 DEF Way
<1>4. \A i \in P \ {r} : u <= i
  <2>. TAKE i \in P \ {r}
  <2>1. i < u => i <= r
    BY <1>2 DEF Below
  <2>2. r <= i
    BY DEF Way
  <2>. QED
    BY <1>2, <1>3, <2>1, <2>2
<1>5. \A i \in (P \ {r}) \ {u} : Below(n, t, P \ {r}, pos, i)
  <2>. TAKE i \in (P \ {r}) \ {u}
  <2>1. Below(n, t, P, pos, i)
    BY DEF Way
  <2>2. Half(n, i) # r
    <3>1. u <= Half(n, i) 
      <4>1. u < i
        BY <1>2, <1>3, <1>4
      <4>. QED
        BY <1>2, <2>1, <4>1 DEF Below
    <3>2. r < u
      BY <1>2 DEF Below
    <3>. QED
      BY <1>2, <1>3, <3>1, <3>2
  <2>. QED
    BY <2>1, <2>2 DEF Below
<1>6. \A i \in (P \ {r}) \ {R} : n[i].temp \in (P \ {r}) \ {u} /\ Half(n, n[i].temp) = i
  <2>. TAKE i \in (P \ {r}) \ {R}
  <2>1. n[i].temp \in P \ {r} /\ Half(n, n[i].temp) = i
    BY DEF Way
  <2>. QED
    BY <1>2, <2>1
<1>7. Way(n, t, R, u, P \ {r}, pos)
  BY <1>2, <1>4, <1>5, <1>6 DEF Way
<1>. QED
  BY <1>1, <1>2, <1>7 DEF Below

\* The nodes m are n after c_str went down from r to its half c.
Linked(n, m, r, c, left) ==
    /\ Grows(n, m) /\ Len(m) = Len(n)
    /\ c = IF left THEN n[r].left ELSE n[r].right
    /\ m[r].temp_left <=> left
    /\ m[c].temp = r
    /\ \A i \in 1 .. Len(n) : i # c => m[i].temp = n[i].temp
    /\ \A i \in 1 .. Len(n) :
         i # r /\ n[i].kind = "concat" => (m[i].temp_left <=> n[i].temp_left)

LEMMA HalfKept ==
    ASSUME NEW n, NEW m, NEW t, NEW pos, NEW i,
           Keeps(n, m, i), n[i].kind = "concat", m[i].temp_left <=> n[i].temp_left
    PROVE  Half(m, i) = Half(n, i) /\ Begins(m, t, pos, i) = Begins(n, t, pos, i)
BY DEF Keeps, Half, Begins, HalfBegins

\* c_str goes down from r to its half c: nodes further down are older, hence
\* none on the way loses its link.
LEMMA WayDown ==
    ASSUME NEW n, NEW m, NEW t, NEW R, NEW r, NEW c, NEW left \in BOOLEAN,
           NEW P, NEW pos,
           Way(n, t, R, r, P, pos), TextLaws(n, t), n[r].kind = "concat",
           Linked(n, m, r, c, left), c # Null,
           NEW at, at = HalfBegins(n, t, pos, r, left)
    PROVE  Way(m, t, R, c, P \cup {c}, [pos EXCEPT ![c] = at])
<1>0. Tree(n) /\ Len(n) \in Nat /\ Len(m) = Len(n)
  BY LenProperties DEF Tree, Grows, Linked
<1>1. P \subseteq 1 .. Len(n) /\ P \subseteq Nat /\ R \in P /\ r \in P /\ (\A i \in P : r <= i)
  BY <1>0 DEF Way
<1>2. Older(n, r) /\ r \in 1 .. Len(n)
  BY <1>0, <1>1, NodeType
<1>3. c \in 1 .. Len(n) /\ c < r /\ c \notin P /\ c # R /\ r # c
  BY <1>0, <1>1, <1>2 DEF Linked, Older, Null
<1>4. /\ t[R] \in Seq(Chars) /\ t[n[r].right] \in Seq(Chars) /\ t[n[r].left] \in Seq(Chars)
      /\ t[r] = t[n[r].right] \o t[n[r].left]
  <2>1. R \in 0 .. Len(n) /\ n[r].right \in 0 .. Len(n) /\ n[r].left \in 0 .. Len(n)
    BY <1>0, <1>1, <1>2 DEF Older
  <2>. QED
    BY <1>2, <2>1 DEF TextLaws
<1>5. pos \in [1 .. Len(n) -> Nat] /\ pos[R] = 0 /\ Part(t[R], pos[r], t[r]) /\ pos[r] \in Nat
  BY <1>1 DEF Way
<1>6. Part(t[R], at, t[c]) /\ at \in Nat
  <2>1. Part(t[R], pos[r], t[n[r].right]) /\ Part(t[R], pos[r] + Len(t[n[r].right]), t[n[r].left])
    BY <1>4, <1>5, PartHalves
  <2>2. CASE left
    BY <2>1, <2>2 DEF Linked, Part, HalfBegins
  <2>3. CASE ~left
    BY <2>1, <2>3 DEF Linked, Part, HalfBegins
  <2>. QED
    BY <2>2, <2>3
<1>7. PICK q : q = [pos EXCEPT ![c] = at]
  OBVIOUS
<1>8. q \in [1 .. Len(n) -> Nat] /\ q[c] = at /\ \A i \in P : q[i] = pos[i]
  BY <1>1, <1>3, <1>5, <1>6, <1>7
<1>9. \A i \in P \cup {c} : c <= i
  BY <1>0, <1>1, <1>3
<1>10. \A i \in P : Keeps(n, m, i)
  BY <1>1 DEF Linked, Grows
<1>11. \A i \in P \ {r} : Below(m, t, P \cup {c}, q, i)
  <2>. TAKE i \in P \ {r}
  <2>1. Below(n, t, P, pos, i)
    BY DEF Way
  <2>2. Keeps(n, m, i) /\ n[i].kind = "concat" /\ (m[i].temp_left <=> n[i].temp_left)
    BY <1>1, <1>10, <2>1 DEF Linked, Below
  <2>3. Half(m, i) = Half(n, i) /\ Begins(m, t, q, i) = Begins(n, t, q, i)
    BY <2>2, HalfKept
  <2>4. Begins(n, t, q, i) = Begins(n, t, pos, i)
    BY <1>8 DEF Begins, HalfBegins
  <2>5. Half(n, i) \in P /\ q[Half(n, i)] = pos[Half(n, i)] /\ c <= Half(n, i)
    BY <1>8, <1>9, <2>1 DEF Below
  <2>6. \A k \in P \cup {c} : k < i => k <= Half(n, i)
    BY <2>1, <2>5 DEF Below
  <2>7. m[i].kind = "concat"
    BY <2>2 DEF Keeps
  <2>. QED
    BY <2>1, <2>3, <2>4, <2>5, <2>6, <2>7 DEF Below
<1>12. Half(m, r) = c /\ Begins(m, t, q, r) = at /\ m[r].kind = "concat"
  BY <1>1, <1>8, <1>10 DEF Half, Begins, HalfBegins, Keeps, Linked
<1>13. Below(m, t, P \cup {c}, q, r)
  <2>1. \A k \in P \cup {c} : k < r => k <= c
    BY <1>1, <1>3
  <2>. QED
    BY <1>3, <1>8, <1>12, <2>1 DEF Below
<1>14. \A i \in (P \cup {c}) \ {R} :
          m[i].temp \in (P \cup {c}) \ {c} /\ Half(m, m[i].temp) = i
  <2>. TAKE i \in (P \cup {c}) \ {R}
  <2>1. CASE i = c
    BY <2>1, <1>1, <1>3, <1>12 DEF Linked
  <2>2. CASE i # c
    <3>1. i \in P \ {R} /\ m[i].temp = n[i].temp
      BY <2>2, <1>1 DEF Linked
    <3>2. n[i].temp \in P \ {r} /\ Half(n, n[i].temp) = i
      BY <3>1 DEF Way
    <3>3. PICK j : j = n[i].temp
      OBVIOUS
    <3>4. j \in P \ {r} /\ n[j].kind = "concat" /\ Keeps(n, m, j)
      BY <1>10, <3>2, <3>3 DEF Way, Below
    <3>5. m[j].temp_left <=> n[j].temp_left
      BY <1>1, <3>4 DEF Linked
    <3>6. Half(m, j) = Half(n, j)
      BY <3>4, <3>5, HalfKept
    <3>. QED
      BY <1>3, <3>1, <3>2, <3>3, <3>4, <3>6
  <2>. QED
    BY <2>1, <2>2
<1>15. \A i \in P \cup {c} : Part(t[R], q[i], t[i])
  BY <1>6, <1>8 DEF Way
<1>16. m[R].temp = Null
  BY <1>1, <1>3 DEF Linked, Way
<1>17. q[R] = 0
  BY <1>1, <1>5, <1>8
<1>18. \A i \in (P \cup {c}) \ {c} : Below(m, t, P \cup {c}, q, i)
  BY <1>11, <1>13
<1>19. Way(m, t, R, c, P \cup {c}, q)
  BY <1>0, <1>1, <1>3, <1>8, <1>9, <1>14, <1>15, <1>16, <1>17, <1>18 DEF Way
<1>. QED
  BY <1>7, <1>19

-----------------------------------------------------------------------------
(* The links c_str writes.                                                 *)

LEMMA Relinks ==
    ASSUME NEW n, Tree(n), NEW m \in [1 .. Len(n) -> Leaf \cup Pair],
           \A i \in 1 .. Len(n) : Keeps(n, m, i)
    PROVE  Grows(n, m) /\ Len(m) = Len(n)
<1>0. Len(n) \in Nat
  BY LenProperties DEF Tree
<1>1. m \in Seq(Leaf \cup Pair)
  BY <1>0, SeqDef
<1>2. Len(m) \in Nat /\ DOMAIN m = 1 .. Len(m)
  BY <1>1, LenProperties
<1>3. 1 .. Len(m) = 1 .. Len(n)
  BY <1>2
<1>4. Len(m) = Len(n)
  BY <1>0, <1>2, <1>3
<1>5. \A i \in 1 .. Len(m) : m[i].kind = "concat" => Older(m, i)
  <2>. TAKE i \in 1 .. Len(m)
  <2>. HAVE m[i].kind = "concat"
  <2>1. Keeps(n, m, i) /\ n[i].kind = "concat" /\ i \in 1 .. Len(n)
    BY <1>4 DEF Keeps
  <2>2. Older(n, i)
    BY <2>1 DEF Tree
  <2>3. n[i].right # Null => n[i].right \in 1 .. Len(n)
    BY <1>0, <2>1, <2>2 DEF Older, Null
  <2>. QED
    BY <2>1, <2>2, <2>3 DEF Older, Keeps
<1>. QED
  BY <1>0, <1>1, <1>4, <1>5 DEF Grows, Tree

\* A node with another temp, and one with another temp_left.
LEMMA TempSet ==
    ASSUME NEW d \in Leaf \cup Pair, NEW v \in Nat, NEW e, e = [d EXCEPT !.temp = v]
    PROVE  /\ e \in Leaf \cup Pair
           /\ e.kind = d.kind /\ e.temp = v
           /\ d.kind = "str" => e.text = d.text
           /\ d.kind = "concat" =>
                e.left = d.left /\ e.right = d.right /\ (e.temp_left <=> d.temp_left)
<1>1. CASE d \in Leaf
  BY <1>1 DEF Leaf
<1>2. CASE d \in Pair
  BY <1>2 DEF Pair
<1>. QED
  BY <1>1, <1>2

LEMMA TempLeftSet ==
    ASSUME NEW d \in Pair, NEW b \in BOOLEAN, NEW e, e = [d EXCEPT !.temp_left = b]
    PROVE  /\ e \in Leaf \cup Pair
           /\ e.kind = d.kind /\ e.temp = d.temp
           /\ d.kind = "concat" =>
                e.left = d.left /\ e.right = d.right /\ (e.temp_left <=> b)
BY DEF Pair

\* What c_str writes at the root, and on its way down.
LEMMA RootLinks ==
    ASSUME NEW n, Tree(n), NEW R \in 1 .. Len(n), NEW m, m = [n EXCEPT ![R].temp = Null]
    PROVE  Grows(n, m) /\ Len(m) = Len(n) /\ m[R].temp = Null
<1>0. Len(n) \in Nat /\ DOMAIN n = 1 .. Len(n) /\ n \in [1 .. Len(n) -> Leaf \cup Pair]
  BY LenProperties DEF Tree
<1>1. PICK e : e = [n[R] EXCEPT !.temp = Null]
  OBVIOUS
<1>2. m = [n EXCEPT ![R] = e]
  BY <1>1
<1>. HIDE <1>1
<1>3. n[R] \in Leaf \cup Pair /\ Null \in Nat
  BY <1>0 DEF Null
<1>4. /\ e \in Leaf \cup Pair
      /\ e.kind = n[R].kind /\ e.temp = Null
      /\ n[R].kind = "str" => e.text = n[R].text
      /\ n[R].kind = "concat" => e.left = n[R].left /\ e.right = n[R].right
  BY <1>1, <1>3, TempSet
<1>5. m \in [1 .. Len(n) -> Leaf \cup Pair] /\ m[R] = e
  BY <1>0, <1>2, <1>4
<1>6. \A i \in 1 .. Len(n) : i # R => m[i] = n[i]
  BY <1>0, <1>2
<1>7. \A i \in 1 .. Len(n) : Keeps(n, m, i)
  BY <1>4, <1>5, <1>6 DEF Keeps
<1>. QED
  BY <1>4, <1>5, <1>7, Relinks

LEMMA DownLinks ==
    ASSUME NEW n, Tree(n), NEW r \in 1 .. Len(n), n[r].kind = "concat",
           NEW b \in BOOLEAN, NEW c, c = IF b THEN n[r].left ELSE n[r].right, c # Null,
           NEW m, m = [n EXCEPT ![r].temp_left = b, ![c].temp = r]
    PROVE  Linked(n, m, r, c, b)
<1>0. Len(n) \in Nat /\ DOMAIN n = 1 .. Len(n) /\ n \in [1 .. Len(n) -> Leaf \cup Pair]
  BY LenProperties DEF Tree
<1>1. n[r] \in Pair /\ Older(n, r)
  BY NodeType
<1>2. c \in 1 .. Len(n) /\ c # r /\ r \in Nat
  BY <1>0, <1>1 DEF Older, Null
<1>3. PICK d : d = [n[r] EXCEPT !.temp_left = b]
  OBVIOUS
<1>4. PICK e : e = [n[c] EXCEPT !.temp = r]
  OBVIOUS
<1>5. /\ m \in [1 .. Len(n) -> {n[i] : i \in 1 .. Len(n)} \cup {d, e}]
      /\ m[r] = d /\ m[c] = e
      /\ \A i \in 1 .. Len(n) : i # r /\ i # c => m[i] = n[i]
  BY <1>0, <1>2, <1>3, <1>4
<1>6. /\ d \in Leaf \cup Pair
      /\ d.kind = n[r].kind /\ d.temp = n[r].temp
      /\ d.left = n[r].left /\ d.right = n[r].right /\ (d.temp_left <=> b)
  BY <1>1, <1>3, TempLeftSet
<1>7. /\ e \in Leaf \cup Pair
      /\ e.kind = n[c].kind /\ e.temp = r
      /\ n[c].kind = "str" => e.text = n[c].text
      /\ n[c].kind = "concat" =>
           e.left = n[c].left /\ e.right = n[c].right /\ (e.temp_left <=> n[c].temp_left)
  BY <1>0, <1>2, <1>4, TempSet
<1>. HIDE <1>3, <1>4
<1>8. m \in [1 .. Len(n) -> Leaf \cup Pair]
  BY <1>0, <1>5, <1>6, <1>7
<1>9. \A i \in 1 .. Len(n) : Keeps(n, m, i)
  BY <1>2, <1>5, <1>6, <1>7 DEF Keeps
<1>10. Grows(n, m) /\ Len(m) = Len(n)
  BY <1>8, <1>9, Relinks
<1>11. /\ m[r].temp_left <=> b
       /\ m[c].temp = r
       /\ \A i \in 1 .. Len(n) : i # c => m[i].temp = n[i].temp
  BY <1>5, <1>6, <1>7
<1>12. \A i \in 1 .. Len(n) :
         i # r /\ n[i].kind = "concat" => (m[i].temp_left <=> n[i].temp_left)
  BY <1>5, <1>7
<1>. QED
  BY <1>10, <1>11, <1>12 DEF Linked

-----------------------------------------------------------------------------
(* The nodes append and the constructors allocate.                         *)

\* What the root of a rope may be.
IsRoot(n, i) == i \in 1 .. Len(n) /\ n[i].kind = "concat"

LEMMA StrNode ==
    ASSUME NEW s \in Seq(Chars)
    PROVE  Str(s) \in Leaf /\ Str(s).kind = "str" /\ Str(s).text = s
BY DEF Str, Leaf, Null

LEMMA ConcatNode ==
    ASSUME NEW l \in Nat, NEW r \in Nat
    PROVE  /\ Concat(l, r) \in Pair /\ Concat(l, r).kind = "concat"
           /\ Concat(l, r).left = l /\ Concat(l, r).right = r
BY DEF Concat, Pair, Null

LEMMA Allocates ==
    ASSUME NEW n, Tree(n), NEW e \in Leaf \cup Pair,
           e.kind = "concat" =>
             /\ e.left \in 1 .. Len(n) /\ e.right \in 0 .. Len(n)
             /\ e.right # Null => n[e.right].kind = "concat"
    PROVE  /\ Grows(n, Append(n, e)) /\ Len(Append(n, e)) = Len(n) + 1
           /\ Append(n, e)[Len(n) + 1] = e
<1>0. Len(n) \in Nat /\ n \in Seq(Leaf \cup Pair)
  BY LenProperties DEF Tree
<1>1. PICK m : m = Append(n, e)
  OBVIOUS
<1>2. /\ m \in Seq(Leaf \cup Pair) /\ Len(m) = Len(n) + 1
      /\ \A i \in 1 .. Len(n) : m[i] = n[i]
      /\ m[Len(n) + 1] = e
  BY <1>0, <1>1, AppendProperties
<1>3. \A i \in 1 .. Len(m) : m[i].kind = "concat" => Older(m, i)
  <2>. TAKE i \in 1 .. Len(m)
  <2>. HAVE m[i].kind = "concat"
  <2>1. CASE i = Len(n) + 1
    BY <1>0, <1>2, <2>1 DEF Older, Null
  <2>2. CASE i # Len(n) + 1
    <3>1. i \in 1 .. Len(n) /\ m[i] = n[i]
      BY <1>0, <1>2, <2>2
    <3>2. Older(n, i)
      BY <3>1 DEF Tree
    <3>. QED
      BY <1>0, <1>2, <3>1, <3>2 DEF Older, Null
  <2>. QED
    BY <2>1, <2>2
<1>4. Grows(n, m)
  BY <1>0, <1>2, <1>3 DEF Grows, Tree, Keeps
<1>. QED
  BY <1>1, <1>2, <1>4

LEMMA GrowsTwice ==
    ASSUME NEW n, NEW m, NEW k, Grows(n, m), Grows(m, k)
    PROVE  Grows(n, k)
<1>1. Len(n) \in Nat /\ Len(m) \in Nat /\ Len(k) \in Nat
  BY LenProperties DEF Grows, Tree
<1>. QED
  BY <1>1 DEF Grows, Keeps

\* A node above two others has their texts.
LEMMA NewConcat ==
    ASSUME NEW n, Tree(n), NEW l \in 1 .. Len(n), NEW r \in 0 .. Len(n),
           r = Null \/ IsRoot(n, r),
           NEW m, m = Append(n, Concat(l, r))
    PROVE  /\ Grows(n, m) /\ Len(m) = Len(n) + 1
           /\ IsRoot(m, Len(n) + 1)
           /\ TextIn(m)[Len(n) + 1] = TextIn(n)[r] \o TextIn(n)[l]
<1>0. Len(n) \in Nat /\ l \in Nat /\ r \in Nat
  BY LenProperties DEF Tree
<1>1. PICK e : e = Concat(l, r)
  OBVIOUS
<1>2. e \in Pair /\ e.kind = "concat" /\ e.left = l /\ e.right = r
  BY <1>0, <1>1, ConcatNode
<1>3. Grows(n, m) /\ Len(m) = Len(n) + 1 /\ m[Len(n) + 1] = e
  BY <1>1, <1>2, Allocates DEF IsRoot
<1>4. IsRoot(m, Len(n) + 1)
  BY <1>0, <1>2, <1>3 DEF IsRoot
<1>5. TextLaws(m, TextIn(m))
  BY <1>3, TextUnfolds DEF Grows
<1>6. TextIn(m)[Len(n) + 1] = TextIn(m)[r] \o TextIn(m)[l]
  BY <1>2, <1>3, <1>4, <1>5 DEF TextLaws, IsRoot
<1>7. TextIn(m)[r] = TextIn(n)[r] /\ TextIn(m)[l] = TextIn(n)[l]
  BY <1>0, <1>3, TextKept
<1>. QED
  BY <1>3, <1>4, <1>6, <1>7

\* A leaf and a node above it and an older one.
LEMMA NewPiece ==
    ASSUME NEW n, Tree(n), NEW s \in Seq(Chars), NEW r \in 0 .. Len(n),
           r = Null \/ IsRoot(n, r),
           NEW m, m = n \o <<Str(s), Concat(Len(n) + 1, r)>>
    PROVE  /\ Grows(n, m) /\ Len(m) = Len(n) + 2
           /\ IsRoot(m, Len(n) + 2)
           /\ TextIn(m)[Len(n) + 2] = TextIn(n)[r] \o s
<1>0. Len(n) \in Nat /\ r \in Nat /\ n \in Seq(Leaf \cup Pair)
  BY LenProperties DEF Tree
<1>1. PICK a : a = Str(s)
  OBVIOUS
<1>2. PICK c : c = Concat(Len(n) + 1, r)
  OBVIOUS
<1>3. a \in Leaf /\ a.kind = "str" /\ a.text = s /\ c \in Pair
  BY <1>0, <1>1, <1>2, StrNode, ConcatNode
<1>4. PICK k : k = Append(n, a)
  OBVIOUS
<1>5. m = Append(k, c)
  <2>1. m = n \o <<a, c>>
    BY <1>1, <1>2
  <2>. QED
    BY <1>0, <1>3, <1>4, <2>1
<1>6. Grows(n, k) /\ Len(k) = Len(n) + 1 /\ k[Len(n) + 1] = a
  BY <1>3, <1>4, Allocates
<1>7. Tree(k) /\ Len(n) + 1 \in 1 .. Len(k) /\ r \in 0 .. Len(k)
  BY <1>0, <1>6 DEF Grows
<1>8. r = Null \/ IsRoot(k, r)
  BY <1>0, <1>6 DEF IsRoot, Grows, Keeps
<1>9. /\ Grows(k, m) /\ Len(m) = Len(k) + 1
      /\ IsRoot(m, Len(k) + 1)
      /\ TextIn(m)[Len(k) + 1] = TextIn(k)[r] \o TextIn(k)[Len(n) + 1]
  BY <1>2, <1>5, <1>7, <1>8, NewConcat
<1>10. Grows(n, m)
  BY <1>6, <1>9, GrowsTwice
<1>11. TextIn(k)[r] = TextIn(n)[r]
  BY <1>6, TextKept
<1>12. TextIn(k)[Len(n) + 1] = s
  <2>1. TextLaws(k, TextIn(k))
    BY <1>7, TextUnfolds
  <2>. QED
    BY <1>3, <1>6, <1>7, <2>1 DEF TextLaws
<1>13. Len(k) + 1 = Len(n) + 2
  BY <1>0, <1>6
<1>. QED
  BY <1>9, <1>10, <1>11, <1>12, <1>13

\* The ropes a program begins with.
LEMMA StartGood ==
    ASSUME NEW n, NEW roots, NEW sizes, Start(n, roots, sizes)
    PROVE  /\ Tree(n)
           /\ roots \in [Ropes -> Nat] /\ sizes \in [Ropes -> Nat]
           /\ \A x \in Ropes : /\ IsRoot(n, roots[x])
                               /\ TextIn(n)[roots[x]] = First[x]
                               /\ sizes[x] = Len(First[x])
<1>0. N \in Nat /\ 2 * N \in Nat /\ First \in [1 .. N -> Seq(Chars)]
  BY RopeAssumption
<1>1. n = [i \in 1 .. 2 * N |->
             IF i % 2 = 1 THEN Str(First[(i + 1) \div 2]) ELSE Concat(i - 1, Null)]
  BY DEF Start
<1>2. ASSUME NEW i \in 1 .. 2 * N, i % 2 = 1
      PROVE  /\ n[i] \in Leaf /\ n[i].kind = "str" /\ n[i].text = First[(i + 1) \div 2]
  <2>1. (i + 1) \div 2 \in 1 .. N
    BY <1>0, <1>2
  <2>2. n[i] = Str(First[(i + 1) \div 2]) /\ First[(i + 1) \div 2] \in Seq(Chars)
    BY <1>0, <1>1, <1>2, <2>1
  <2>. QED
    BY <2>2, StrNode
<1>3. ASSUME NEW i \in 1 .. 2 * N, i % 2 # 1
      PROVE  /\ n[i] \in Pair /\ n[i].kind = "concat"
             /\ n[i].left = i - 1 /\ n[i].right = Null /\ i - 1 \in 1 .. i - 1
  <2>1. n[i] = Concat(i - 1, Null) /\ i - 1 \in Nat /\ Null \in Nat /\ i - 1 \in 1 .. i - 1
    <3>0. 1 % 2 = 1
      OBVIOUS
    <3>1. i \in Nat /\ i # 1
      <4>1. i \in Nat
        BY <1>0
      <4>2. i # 1
        BY <1>3, <3>0, Zenon
      <4>. QED
        BY <4>1, <4>2
    <3>2. i - 1 \in Nat /\ i - 1 \in 1 .. i - 1
      BY <3>1
    <3>3. n[i] = Concat(i - 1, Null)
      BY <1>1, <1>3
    <3>. QED
      BY <3>2, <3>3 DEF Null
  <2>. QED
    BY <2>1, ConcatNode
<1>4. n \in [1 .. 2 * N -> Leaf \cup Pair]
  BY <1>1, <1>2, <1>3
<1>5. n \in Seq(Leaf \cup Pair)
  BY <1>0, <1>4, SeqDef
<1>6. Len(n) = 2 * N
  <2>1. Len(n) \in Nat /\ 1 .. Len(n) = 1 .. 2 * N
    BY <1>4, <1>5, LenProperties
  <2>. QED
    BY <1>0, <2>1
<1>7. Tree(n)
  <2>1. \A i \in 1 .. Len(n) : n[i].kind = "concat" => Older(n, i)
    <3>. TAKE i \in 1 .. Len(n)
    <3>. HAVE n[i].kind = "concat"
    <3>1. i \in 1 .. 2 * N /\ i % 2 # 1
      BY <1>2, <1>6
    <3>. QED
      BY <1>3, <3>1 DEF Older, Null
  <2>. QED
    BY <1>5, <2>1 DEF Tree
<1>8. roots = [x \in Ropes |-> 2 * x] /\ sizes = [x \in Ropes |-> Len(First[x])]
  BY DEF Start
<1>9. ASSUME NEW x \in Ropes
      PROVE  /\ IsRoot(n, roots[x])
             /\ TextIn(n)[roots[x]] = First[x]
             /\ sizes[x] = Len(First[x]) /\ sizes[x] \in Nat /\ roots[x] \in Nat
  <2>1. x \in 1 .. N /\ First[x] \in Seq(Chars)
    BY <1>0 DEF Ropes
  <2>2. roots[x] = 2 * x /\ sizes[x] = Len(First[x]) /\ sizes[x] \in Nat
    BY <1>8, <2>1, LenProperties
  <2>3. /\ 2 * x \in 1 .. 2 * N /\ (2 * x) % 2 # 1
        /\ 2 * x - 1 \in 1 .. 2 * N /\ (2 * x - 1) % 2 = 1 /\ ((2 * x - 1) + 1) \div 2 = x
    BY <1>0, <2>1
  <2>4. n[2 * x].kind = "concat" /\ n[2 * x].left = 2 * x - 1 /\ n[2 * x].right = Null
    BY <1>3, <2>3
  <2>5. n[2 * x - 1].kind = "str" /\ n[2 * x - 1].text = First[x]
    BY <1>2, <2>3
  <2>6. TextLaws(n, TextIn(n))
    BY <1>7, TextUnfolds
  <2>7. TextIn(n)[2 * x] = << >> \o First[x]
    BY <1>6, <2>3, <2>4, <2>5, <2>6 DEF TextLaws, Null
  <2>8. TextIn(n)[2 * x] = First[x]
    BY <2>1, <2>7, ConcatEmptySeq
  <2>. QED
    BY <1>6, <2>2, <2>3, <2>4, <2>8 DEF IsRoot
<1>. QED
  BY <1>7, <1>8, <1>9

-----------------------------------------------------------------------------
(* at() finds the character.                                               *)

\* The reference arguments of at().
Visits == [ret : Seq(Chars), so_far : Int, stop : BOOLEAN]

\* The equation that defines at(), by node, with what it does in the halves.
VisitAt(nodes, index, k, right, left) ==
    [st \in Visits |->
       IF k = Null THEN st
       ELSE IF nodes[k].kind = "str" THEN AtLeaf(nodes[k].text, index, st)
       ELSE IF st.stop THEN st
       ELSE right[left[st]]]

VisitUpTo(nodes, index, n, f) ==
    f = [k \in 0 .. n |->
           VisitAt(nodes, index, k, f[nodes[k].right], f[nodes[k].left])]

LEMMA VisitDefined ==
    ASSUME NEW nodes, Tree(nodes), NEW index
    PROVE  VisitUpTo(nodes, index, Len(nodes), Visit(nodes, index))
<1>. DEFINE P(n) == \E f : VisitUpTo(nodes, index, n, f)
            Bad  == {n \in 0 .. Len(nodes) : ~P(n)}
<1>0. Len(nodes) \in Nat
  BY LenProperties DEF Tree
<1>1. P(0)
  <2>. DEFINE g == [k \in 0 .. 0 |-> [st \in Visits |-> st]]
  <2>1. VisitUpTo(nodes, index, 0, g)
    BY DEF VisitUpTo, VisitAt, Null
  <2>. QED
    BY <2>1
<1>2. ASSUME NEW n \in 0 .. Len(nodes) - 1, P(n)
      PROVE  P(n + 1)
  <2>1. PICK f : VisitUpTo(nodes, index, n, f)
    BY <1>2
  <2>. DEFINE g == [k \in 0 .. n + 1 |->
                      VisitAt(nodes, index, k, f[nodes[k].right], f[nodes[k].left])]
  <2>2. \A k \in 0 .. n : g[k] = f[k]
    BY <1>0, <2>1 DEF VisitUpTo
  <2>3. ASSUME NEW k \in 0 .. n + 1
        PROVE  VisitAt(nodes, index, k, f[nodes[k].right], f[nodes[k].left])
                 = VisitAt(nodes, index, k, g[nodes[k].right], g[nodes[k].left])
    <3>1. CASE k # Null /\ nodes[k].kind # "str"
      <4>1. k \in 1 .. Len(nodes)
        BY <1>0, <3>1 DEF Null
      <4>2. nodes[k].left \in 0 .. n /\ nodes[k].right \in 0 .. n
        BY <1>0, <3>1, <4>1, NodeType DEF Older
      <4>. HIDE DEF g
      <4>3. f[nodes[k].left] = g[nodes[k].left] /\ f[nodes[k].right] = g[nodes[k].right]
        BY <2>2, <4>2
      <4>. QED
        BY <4>3
    <3>2. CASE k = Null
      BY <3>2 DEF VisitAt
    <3>3. CASE k # Null /\ nodes[k].kind = "str"
      BY <3>3 DEF VisitAt
    <3>. QED
      BY <3>1, <3>2, <3>3
  <2>4. VisitUpTo(nodes, index, n + 1, g)
    BY <2>3 DEF VisitUpTo
  <2>. QED
    BY <2>4
<1>. HIDE DEF P
<1>3. P(Len(nodes))
  <2>1. Bad \in SUBSET Nat
    OBVIOUS
  <2>2. SUFFICES ASSUME Bad # {}
                 PROVE  FALSE
    BY <1>0
  <2>3. PICK e \in Bad : \A c \in Bad : e <= c
    <3>. HIDE DEF Bad
    <3>. QED
      BY <2>1, <2>2, Smallest
  <2>4. e # 0
    BY <1>1, <2>3
  <2>5. e - 1 \in 0 .. Len(nodes) - 1 /\ e - 1 \notin Bad /\ (e - 1) + 1 = e
    BY <1>0, <2>3, <2>4
  <2>6. P(e - 1)
    BY <1>0, <2>5
  <2>. QED
    BY <1>2, <2>3, <2>5, <2>6
<1>4. PICK f : VisitUpTo(nodes, index, Len(nodes), f)
  BY <1>3 DEF P
<1>. QED
  BY <1>4 DEF VisitUpTo, VisitAt, Visit, Visits

\* Where at() is after a part of the tree with this text: the character is
\* found, or is in front of it.
Finds(text, index, st, e) ==
    /\ e \in Visits
    /\ \/ /\ index >= st.so_far - Len(text)
          /\ e.stop
          /\ e.ret = <<text[index - (st.so_far - Len(text)) + 1]>>
       \/ /\ index < st.so_far - Len(text)
          /\ ~e.stop
          /\ e.so_far = st.so_far - Len(text)

\* at() has not found the character yet.
Seeks(index, st) == st \in Visits /\ ~st.stop /\ index < st.so_far

LEMMA OneOf ==
    ASSUME NEW s \in Seq(Chars), NEW k \in 1 .. Len(s)
    PROVE  SubSeq(s, k, k) = <<s[k]>> /\ <<s[k]>> \in Seq(Chars)
<1>1. Len(s) \in Nat /\ s[k] \in Chars
  BY LenProperties, ElementOfSeq
<1>2. \A i \in k .. k : s[i] \in Chars
  BY <1>1
<1>3. /\ SubSeq(s, k, k) \in Seq(Chars)
      /\ Len(SubSeq(s, k, k)) = 1
      /\ SubSeq(s, k, k)[1] = s[k]
  BY <1>1, <1>2, SubSeqProperties
<1>4. <<s[k]>> \in Seq(Chars) /\ Len(<<s[k]>>) = 1 /\ <<s[k]>>[1] = s[k]
  BY <1>1
<1>5. \A i \in 1 .. Len(SubSeq(s, k, k)) : SubSeq(s, k, k)[i] = <<s[k]>>[i]
  BY <1>3, <1>4
<1>. QED
  BY <1>3, <1>4, <1>5, SeqEqual

LEMMA LeafFinds ==
    ASSUME NEW text \in Seq(Chars), NEW index \in Nat, NEW st, Seeks(index, st)
    PROVE  Finds(text, index, st, AtLeaf(text, index, st))
<1>0. Len(text) \in Nat /\ st.so_far \in Int /\ st.ret \in Seq(Chars) /\ ~st.stop
      /\ index < st.so_far
  BY LenProperties DEF Seeks, Visits
<1>1. PICK so : so = st.so_far - Len(text)
  OBVIOUS
<1>2. PICK e : e = AtLeaf(text, index, st)
  OBVIOUS
<1>3. CASE index >= so
  <2>1. index - so + 1 \in 1 .. Len(text)
    BY <1>0, <1>1, <1>3
  <2>0. PICK c : c = SubSeq(text, index - so + 1, index - so + 1)
    OBVIOUS
  <2>2. e = [ret |-> c, so_far |-> so, stop |-> TRUE]
    BY <1>1, <1>2, <1>3, <2>0 DEF AtLeaf
  <2>3. c = <<text[index - so + 1]>> /\ c \in Seq(Chars)
    BY <2>0, <2>1, OneOf
  <2>4. e \in Visits /\ e.stop /\ e.ret = <<text[index - so + 1]>>
    BY <1>0, <1>1, <2>2, <2>3 DEF Visits
  <2>. QED
    BY <1>1, <1>2, <1>3, <2>4 DEF Finds
<1>4. CASE ~(index >= so)
  <2>1. e = [ret |-> st.ret, so_far |-> so, stop |-> st.stop]
    BY <1>1, <1>2, <1>4 DEF AtLeaf
  <2>2. e \in Visits /\ ~e.stop /\ e.so_far = so /\ index < so
    BY <1>0, <1>1, <1>4, <2>1 DEF Visits, Seeks
  <2>. QED
    BY <1>1, <1>2, <2>2 DEF Finds
<1>. QED
  BY <1>3, <1>4

LEMMA NothingFinds ==
    ASSUME NEW index \in Nat, NEW st, Seeks(index, st)
    PROVE  Finds(<< >>, index, st, st)
<1>1. Len(<< >>) = 0 /\ st.so_far \in Int /\ index < st.so_far /\ ~st.stop /\ st \in Visits
  BY DEF Seeks, Visits
<1>. QED
  BY <1>1 DEF Finds

\* Found in the left half, which comes last.
LEMMA LeftFinds ==
    ASSUME NEW a \in Seq(Chars), NEW b \in Seq(Chars), NEW index \in Nat,
           NEW st, Seeks(index, st), NEW e, Finds(b, index, st, e), e.stop
    PROVE  Finds(a \o b, index, st, e)
<1>1. Len(a) \in Nat /\ Len(b) \in Nat /\ Len(a \o b) = Len(a) + Len(b) /\ st.so_far \in Int
  BY LenProperties, ConcatProperties DEF Seeks, Visits
<1>2. PICK k : k = index - (st.so_far - Len(b)) + 1
  OBVIOUS
<1>3. index >= st.so_far - Len(b) /\ e.ret = <<b[k]>> /\ index < st.so_far /\ e \in Visits
  BY <1>2 DEF Finds, Seeks
<1>4. k \in 1 .. Len(b) /\ index - (st.so_far - Len(a \o b)) + 1 = Len(a) + k
      /\ index >= st.so_far - Len(a \o b)
  <2>1. PICK la : la = Len(a)
    OBVIOUS
  <2>2. PICK lb : lb = Len(b)
    OBVIOUS
  <2>3. PICK so : so = st.so_far
    OBVIOUS
  <2>4. la \in Nat /\ lb \in Nat /\ so \in Int /\ Len(a \o b) = la + lb
        /\ k = index - (so - lb) + 1 /\ index >= so - lb /\ index < so
    BY <1>1, <1>2, <1>3, <2>1, <2>2, <2>3
  <2>5. k \in 1 .. lb /\ index - (so - (la + lb)) + 1 = la + k /\ index >= so - (la + lb)
    BY <2>4
  <2>. QED
    BY <2>1, <2>2, <2>3, <2>4, <2>5
<1>5. (a \o b)[Len(a) + k] = b[k]
  <2>1. Len(a) + k \in 1 .. Len(a) + Len(b) /\ ~(Len(a) + k <= Len(a)) /\ (Len(a) + k) - Len(a) = k
    BY <1>1, <1>4
  <2>. QED
    BY <2>1, ConcatProperties
<1>. QED
  BY <1>3, <1>4, <1>5 DEF Finds

\* Not in the left half b, hence as in the right half a.
LEMMA RightFinds ==
    ASSUME NEW a \in Seq(Chars), NEW b \in Seq(Chars), NEW index \in Nat,
           NEW st, Seeks(index, st), NEW e, Finds(b, index, st, e), ~e.stop,
           NEW d, Finds(a, index, e, d)
    PROVE  Finds(a \o b, index, st, d)
<1>1. Len(a) \in Nat /\ Len(b) \in Nat /\ Len(a \o b) = Len(a) + Len(b) /\ st.so_far \in Int
  BY LenProperties, ConcatProperties DEF Seeks, Visits
<1>2. e.so_far = st.so_far - Len(b) /\ index < st.so_far - Len(b) /\ d \in Visits
  BY DEF Finds
<1>3. PICK k : k = index - (e.so_far - Len(a)) + 1
  OBVIOUS
<1>4. e.so_far - Len(a) = st.so_far - Len(a \o b)
      /\ k = index - (st.so_far - Len(a \o b)) + 1
  BY <1>1, <1>2, <1>3
<1>5. CASE d.stop
  <2>1. index >= e.so_far - Len(a) /\ d.ret = <<a[k]>>
    BY <1>3, <1>5 DEF Finds
  <2>2. k \in 1 .. Len(a) /\ k \in 1 .. Len(a) + Len(b) /\ k <= Len(a)
    BY <1>1, <1>2, <1>3, <2>1
  <2>3. (a \o b)[k] = a[k]
    BY <2>2, ConcatProperties
  <2>. QED
    BY <1>2, <1>4, <1>5, <2>1, <2>3 DEF Finds
<1>6. CASE ~d.stop
  BY <1>2, <1>4, <1>6 DEF Finds
<1>. QED
  BY <1>5, <1>6

\* at() finds the character below any node.
LEMMA VisitFinds ==
    ASSUME NEW nodes, Tree(nodes), NEW index \in Nat, NEW R \in 0 .. Len(nodes),
           NEW st, Seeks(index, st)
    PROVE  Finds(TextIn(nodes)[R], index, st, Visit(nodes, index)[R][st])
<1>0. Len(nodes) \in Nat
  BY LenProperties DEF Tree
<1>1. PICK t : t = TextIn(nodes)
  OBVIOUS
<1>2. PICK f : f = Visit(nodes, index)
  OBVIOUS
<1>3. TextLaws(nodes, t)
  BY <1>1, TextUnfolds
<1>4. ASSUME NEW k \in 0 .. Len(nodes), NEW s \in Visits
      PROVE  f[k][s] = IF k = Null THEN s
                       ELSE IF nodes[k].kind = "str" THEN AtLeaf(nodes[k].text, index, s)
                       ELSE IF s.stop THEN s
                       ELSE f[nodes[k].right][f[nodes[k].left][s]]
  <2>1. f[k] = VisitAt(nodes, index, k, f[nodes[k].right], f[nodes[k].left])
    <3>1. VisitUpTo(nodes, index, Len(nodes), f)
      BY <1>2, VisitDefined
    <3>. QED
      BY <3>1 DEF VisitUpTo
  <2>. QED
    BY <2>1 DEF VisitAt
<1>. DEFINE G(k) == \A s : Seeks(index, s) => Finds(t[k], index, s, f[k][s])
            Q    == {k \in 0 .. Len(nodes) : G(k)}
<1>5. 0 \in Q
  <2>1. ASSUME NEW s, Seeks(index, s)
        PROVE  Finds(t[0], index, s, f[0][s])
    <3>1. f[0][s] = s
      BY <1>0, <1>4, <2>1 DEF Null, Seeks
    <3>2. t[0] = << >>
      BY <1>3 DEF TextLaws
    <3>3. Finds(<< >>, index, s, s)
      BY <2>1, NothingFinds
    <3>. QED
      BY <3>1, <3>2, <3>3
  <2>. QED
    BY <1>0, <2>1
<1>6. ASSUME NEW k \in 1 .. Len(nodes), nodes[k].kind = "str"
      PROVE  k \in Q
  <2>1. ASSUME NEW s, Seeks(index, s)
        PROVE  Finds(t[k], index, s, f[k][s])
    <3>1. f[k][s] = AtLeaf(nodes[k].text, index, s)
      BY <1>0, <1>4, <1>6, <2>1 DEF Null, Seeks
    <3>2. t[k] = nodes[k].text
      BY <1>3, <1>6 DEF TextLaws
    <3>3. nodes[k].text \in Seq(Chars)
      BY <1>6, NodeType DEF Leaf
    <3>4. Finds(nodes[k].text, index, s, AtLeaf(nodes[k].text, index, s))
      BY <2>1, <3>3, LeafFinds
    <3>. QED
      BY <3>1, <3>2, <3>4
  <2>. QED
    BY <1>0, <2>1
<1>7. ASSUME NEW k \in 1 .. Len(nodes), nodes[k].kind = "concat", Older(nodes, k),
             nodes[k].left \in Q, nodes[k].right \in Q
      PROVE  k \in Q
  <2>1. PICK l : l = nodes[k].left
    OBVIOUS
  <2>2. PICK r : r = nodes[k].right
    OBVIOUS
  <2>3. /\ G(l) /\ G(r) /\ l \in 0 .. Len(nodes) /\ r \in 0 .. Len(nodes)
        /\ r # Null => r \in 1 .. Len(nodes) /\ nodes[r].kind = "concat"
    BY <1>0, <1>7, <2>1, <2>2 DEF Older, Null
  <2>4. t[k] = t[r] \o t[l]
    BY <1>3, <1>7, <2>1, <2>2 DEF TextLaws
  <2>5. t[r] \in Seq(Chars) /\ t[l] \in Seq(Chars)
    BY <1>3, <2>3 DEF TextLaws
  <2>6. ASSUME NEW s, Seeks(index, s)
        PROVE  Finds(t[k], index, s, f[k][s])
    <3>1. f[k][s] = f[r][f[l][s]]
      BY <1>0, <1>4, <1>7, <2>1, <2>2, <2>6 DEF Null, Seeks
    <3>2. PICK e : e = f[l][s]
      OBVIOUS
    <3>3. Finds(t[l], index, s, e) /\ e \in Visits
      BY <2>3, <2>6, <3>2 DEF Finds
    <3>4. CASE e.stop
      <4>1. f[r][e] = e
        BY <1>4, <2>3, <3>3, <3>4
      <4>2. Finds(t[r] \o t[l], index, s, e)
        BY <2>5, <2>6, <3>3, <3>4, LeftFinds
      <4>. QED
        BY <2>4, <3>1, <3>2, <4>1, <4>2
    <3>5. CASE ~e.stop
      <4>1. Seeks(index, e)
        BY <3>3, <3>5 DEF Finds, Seeks
      <4>2. Finds(t[r], index, e, f[r][e])
        BY <2>3, <4>1
      <4>3. Finds(t[r] \o t[l], index, s, f[r][e])
        BY <2>5, <2>6, <3>3, <3>5, <4>2, RightFinds
      <4>. QED
        BY <2>4, <3>1, <3>2, <4>3
    <3>. QED
      BY <3>4, <3>5
  <2>. QED
    BY <1>0, <2>6
<1>. HIDE DEF Q
<1>8. \A k \in 0 .. Len(nodes) : k \in Q
  BY <1>5, <1>6, <1>7, TreeInduction
<1>. QED
  BY <1>1, <1>2, <1>8 DEF Q

-----------------------------------------------------------------------------
(* c_str is where it should be, and has written what is behind it.         *)

\* c_str is at r on a way from R, or done, and off is where the text still
\* to be written ends.
Where(n, t, R, r, down, off) ==
    \/ r = Null /\ off = 0
    \/ /\ r # Null /\ (~down => n[r].kind = "concat")
       /\ \E P, pos :
            /\ Way(n, t, R, r, P, pos)
            /\ off = IF down THEN pos[r] + Len(t[r]) ELSE Begins(n, t, pos, r)

\* The buffer has what is behind off.
Written(text, buf, off) ==
    /\ buf \in Seq(Chars) /\ Len(buf) = Len(text)
    /\ off \in 0 .. Len(text)
    /\ \A i \in off + 1 .. Len(text) : buf[i] = text[i]

LEMMA TextSame ==
    ASSUME NEW n, NEW m, Grows(n, m), Len(m) = Len(n)
    PROVE  TextIn(m) = TextIn(n)
<1>1. PICK t : t = TextIn(n)
  OBVIOUS
<1>2. PICK u : u = TextIn(m)
  OBVIOUS
<1>3. DOMAIN t = 0 .. Len(n) /\ t = [i \in DOMAIN t |-> t[i]]
  BY <1>1, TextDefined DEF TextUpTo, Grows
<1>4. DOMAIN u = 0 .. Len(n) /\ u = [i \in DOMAIN u |-> u[i]]
  BY <1>2, TextDefined DEF TextUpTo, Grows
<1>5. \A i \in 0 .. Len(n) : u[i] = t[i]
  BY <1>1, <1>2, TextKept
<1>6. t = u
  BY <1>3, <1>4, <1>5
<1>. QED
  BY <1>1, <1>2, <1>6

\* At the root.
LEMMA WalkBegins ==
    ASSUME NEW n, Tree(n), NEW R, IsRoot(n, R), n[R].temp = Null
    PROVE  Where(n, TextIn(n), R, R, TRUE, Len(TextIn(n)[R]))
<1>0. Len(n) \in Nat /\ R \in 1 .. Len(n) /\ R \in 0 .. Len(n) /\ R # Null
  BY LenProperties DEF Tree, IsRoot, Null
<1>1. PICK t : t = TextIn(n)
  OBVIOUS
<1>2. t[R] \in Seq(Chars) /\ Len(t[R]) \in Nat
  <2>1. t[R] \in Seq(Chars)
    BY <1>0, <1>1, TextUnfolds DEF TextLaws
  <2>. QED
    BY <2>1, LenProperties
<1>3. PICK pos : pos = [i \in 1 .. Len(n) |-> 0]
  OBVIOUS
<1>4. pos \in [1 .. Len(n) -> Nat] /\ pos[R] = 0
  BY <1>0, <1>3
<1>5. Part(t[R], pos[R], t[R])
  BY <1>2, <1>4 DEF Part
<1>6. Way(n, t, R, R, {R}, pos)
  BY <1>0, <1>4, <1>5 DEF Way
<1>7. Where(n, t, R, R, TRUE, Len(t[R]))
  <2>1. pos[R] + Len(t[R]) = Len(t[R])
    BY <1>2, <1>4
  <2>. QED
    BY <1>0, <1>6, <2>1 DEF Where
<1>. QED
  BY <1>1, <1>7

LEMMA WalkDown ==
    ASSUME NEW n, NEW m, NEW R, NEW r, NEW off, NEW left \in BOOLEAN,
           Where(n, TextIn(n), R, r, left, off), r # Null,
           n[r].kind = "concat", ~left => n[r].temp_left,
           NEW c, Linked(n, m, r, c, left), c # Null
    PROVE  Where(m, TextIn(m), R, c, TRUE, off)
<1>1. PICK t : t = TextIn(n)
  OBVIOUS
<1>2. TextIn(m) = t /\ TextLaws(n, t) /\ Tree(n) /\ Len(n) \in Nat
  BY <1>1, TextSame, TextUnfolds, LenProperties DEF Linked, Grows, Tree
<1>3. PICK P, pos : /\ Way(n, t, R, r, P, pos)
                    /\ off = IF left THEN pos[r] + Len(t[r]) ELSE Begins(n, t, pos, r)
  BY <1>1 DEF Where
<1>4. PICK at : at = HalfBegins(n, t, pos, r, left)
  OBVIOUS
<1>5. PICK q : q = [pos EXCEPT ![c] = at]
  OBVIOUS
<1>6. Way(m, t, R, c, P \cup {c}, q)
  <2>1. Way(n, t, R, r, P, pos)
    BY <1>3
  <2>. HIDE <1>3
  <2>2. Way(m, t, R, c, P \cup {c}, [pos EXCEPT ![c] = at])
    BY <1>2, <1>4, <2>1, WayDown
  <2>. QED
    BY <1>5, <2>2
<1>7. r \in 1 .. Len(n) /\ pos \in [1 .. Len(n) -> Nat] /\ Older(n, r)
  <2>1. r \in 1 .. Len(n) /\ pos \in [1 .. Len(n) -> Nat]
    BY <1>3 DEF Way
  <2>. QED
    BY <1>2, <2>1, NodeType
<1>8. c \in 1 .. Len(n) /\ q[c] = at
  BY <1>2, <1>5, <1>7 DEF Linked, Older, Null
<1>9. /\ Len(t[n[r].right]) \in Nat /\ Len(t[n[r].left]) \in Nat
      /\ Len(t[r]) = Len(t[n[r].right]) + Len(t[n[r].left])
  <2>1. n[r].right \in 0 .. Len(n) /\ n[r].left \in 0 .. Len(n)
    BY <1>2, <1>7 DEF Older
  <2>2. t[n[r].right] \in Seq(Chars) /\ t[n[r].left] \in Seq(Chars)
    BY <1>2, <2>1 DEF TextLaws
  <2>3. t[r] = t[n[r].right] \o t[n[r].left]
    BY <1>2, <1>7 DEF TextLaws
  <2>. QED
    BY <2>2, <2>3, LenProperties, ConcatProperties
<1>10. off = at + Len(t[c]) /\ pos[r] \in Nat
  <2>1. pos[r] \in Nat
    BY <1>7
  <2>2. CASE left
    <3>1. PICK a : a = Len(t[n[r].right])
      OBVIOUS
    <3>2. PICK b : b = Len(t[n[r].left])
      OBVIOUS
    <3>3. a \in Nat /\ b \in Nat /\ off = pos[r] + (a + b)
      BY <1>3, <1>9, <2>2, <3>1, <3>2
    <3>4. at = pos[r] + a /\ Len(t[c]) = b
      BY <1>4, <2>2, <3>1, <3>2 DEF Linked, HalfBegins
    <3>. QED
      BY <2>1, <3>3, <3>4
  <2>3. CASE ~left
    BY <1>3, <1>4, <2>1, <2>3 DEF Linked, Begins, HalfBegins
  <2>. QED
    BY <2>1, <2>2, <2>3
<1>11. off = IF TRUE THEN q[c] + Len(t[c]) ELSE Begins(m, t, q, c)
  BY <1>8, <1>10
<1>12. Where(m, t, R, c, TRUE, off)
  BY <1>6, <1>11 DEF Where
<1>. QED
  BY <1>2, <1>12

LEMMA WalkUp ==
    ASSUME NEW n, Tree(n), NEW t, NEW R, NEW r, NEW P, NEW pos,
           Way(n, t, R, r, P, pos)
    PROVE  Where(n, t, R, n[r].temp, FALSE, pos[r])
<1>1. CASE r = R
  BY <1>1 DEF Way, Where
<1>2. CASE r # R
  <2>1. PICK u : u = n[r].temp
    OBVIOUS
  <2>2. /\ u \in P /\ n[u].kind = "concat"
        /\ pos[r] = Begins(n, t, pos, u)
        /\ Way(n, t, R, u, P \ {r}, pos)
    BY <1>2, <2>1, WayUp
  <2>3. u # Null
    BY <2>2, LenProperties DEF Way, Null, Tree
  <2>4. pos[r] = IF FALSE THEN pos[u] + Len(t[u]) ELSE Begins(n, t, pos, u)
    BY <2>2
  <2>5. Where(n, t, R, u, FALSE, pos[r])
    BY <2>2, <2>3, <2>4 DEF Where
  <2>. QED
    BY <2>1, <2>5
<1>. QED
  BY <1>1, <1>2

\* From a node both of whose halves are written, or that has no right one.
LEMMA WalkOn ==
    ASSUME NEW n, Tree(n), NEW R, NEW r, NEW off,
           Where(n, TextIn(n), R, r, FALSE, off), r # Null,
           ~(n[r].temp_left /\ n[r].right # Null)
    PROVE  Where(n, TextIn(n), R, n[r].temp, FALSE, off)
<1>1. PICK t : t = TextIn(n)
  OBVIOUS
<1>2. PICK P, pos : Way(n, t, R, r, P, pos) /\ off = Begins(n, t, pos, r)
  BY <1>1 DEF Where
<1>3. pos[r] \in Nat
  BY <1>2 DEF Way
<1>4. off = pos[r]
  <2>1. CASE n[r].temp_left
    <3>1. n[r].right = 0
      BY <2>1 DEF Null
    <3>2. t[n[r].right] = << >>
      BY <1>1, <3>1, TextUnfolds DEF TextLaws
    <3>3. Len(t[n[r].right]) = 0
      BY <3>2
    <3>. QED
      BY <1>2, <1>3, <2>1, <3>3 DEF Begins, HalfBegins
  <2>2. CASE ~n[r].temp_left
    BY <1>2, <2>2 DEF Begins, HalfBegins
  <2>. QED
    BY <2>1, <2>2
<1>. QED
  BY <1>1, <1>2, <1>4, WalkUp

\* The buffer after memcpy of a leaf.
Copied(buf, text, new, off) ==
    [i \in DOMAIN buf |-> IF i > new /\ i <= off THEN text[i - new] ELSE buf[i]]

\* A leaf, which is written in front of what is there.
LEMMA WalkLeaf ==
    ASSUME NEW n, Tree(n), NEW R \in 1 .. Len(n), NEW r, NEW off, NEW buf,
           Where(n, TextIn(n), R, r, TRUE, off), r # Null, n[r].kind = "str",
           Written(TextIn(n)[R], buf, off),
           NEW new, new = off - Len(n[r].text),
           NEW copy, copy = Copied(buf, n[r].text, new, off)
    PROVE  /\ Where(n, TextIn(n), R, n[r].temp, FALSE, new)
           /\ Written(TextIn(n)[R], copy, new)
<1>0. Len(n) \in Nat
  BY LenProperties DEF Tree
<1>1. PICK t : t = TextIn(n)
  OBVIOUS
<1>2. PICK P, pos : Way(n, t, R, r, P, pos) /\ off = pos[r] + Len(t[r])
  BY <1>1 DEF Where
<1>3. r \in 1 .. Len(n) /\ pos[r] \in Nat /\ Part(t[R], pos[r], t[r])
  BY <1>2 DEF Way
<1>4. TextLaws(n, t)
  BY <1>1, TextUnfolds
<1>5. t[r] = n[r].text /\ t[r] \in Seq(Chars) /\ t[R] \in Seq(Chars)
  BY <1>0, <1>3, <1>4 DEF TextLaws
<1>6. Len(t[r]) \in Nat /\ Len(t[R]) \in Nat
  BY <1>5, LenProperties
<1>7. new = pos[r]
  BY <1>2, <1>3, <1>5, <1>6
<1>8. Where(n, t, R, n[r].temp, FALSE, new)
  BY <1>2, <1>7, WalkUp
<1>9. /\ buf \in Seq(Chars) /\ Len(buf) = Len(t[R]) /\ DOMAIN buf = 1 .. Len(t[R])
      /\ off \in 0 .. Len(t[R]) /\ \A i \in off + 1 .. Len(t[R]) : buf[i] = t[R][i]
  BY <1>1, LenProperties DEF Written
<1>10. \A i \in 1 .. Len(t[R]) : buf[i] \in Chars
  BY <1>9, ElementOfSeq
<1>11. \A i \in 1 .. Len(t[r]) : t[r][i] \in Chars
  BY <1>5, ElementOfSeq
<1>12. ASSUME NEW i \in 1 .. Len(t[R])
       PROVE  /\ copy[i] \in Chars
              /\ i > new => copy[i] = t[R][i]
  <2>1. CASE i > new /\ i <= off
    <3>1. copy[i] = t[r][i - new]
      BY <1>5, <1>9, <2>1 DEF Copied
    <3>2. i - new \in 1 .. Len(t[r]) /\ pos[r] + (i - new) = i
      <4>1. PICK a : a = Len(t[r])
        OBVIOUS
      <4>2. a \in Nat /\ new \in Nat /\ i \in Nat /\ i > new /\ i <= new + a
        BY <1>2, <1>3, <1>6, <1>7, <2>1, <4>1
      <4>3. i - new \in 1 .. a /\ new + (i - new) = i
        BY <4>2
      <4>. QED
        BY <1>7, <4>1, <4>3
    <3>3. t[R][pos[r] + (i - new)] = t[r][i - new]
      BY <1>3, <3>2 DEF Part
    <3>. QED
      BY <1>11, <3>1, <3>2, <3>3
  <2>2. CASE ~(i > new /\ i <= off)
    <3>1. copy[i] = buf[i]
      BY <1>9, <2>2 DEF Copied
    <3>2. i > new => i \in off + 1 .. Len(t[R])
      BY <1>6, <1>9, <2>2
    <3>. QED
      BY <1>9, <1>10, <3>1, <3>2
  <2>. QED
    BY <2>1, <2>2
<1>13. copy \in [1 .. Len(t[R]) -> Chars]
  BY <1>9, <1>12 DEF Copied
<1>14. copy \in Seq(Chars) /\ Len(copy) = Len(t[R])
  <2>1. copy \in Seq(Chars)
    BY <1>6, <1>13, SeqDef
  <2>2. Len(copy) \in Nat /\ 1 .. Len(copy) = 1 .. Len(t[R])
    BY <1>13, <2>1, LenProperties
  <2>. QED
    BY <1>6, <2>1, <2>2
<1>15. new \in 0 .. Len(t[R])
  <2>1. pos[r] + Len(t[r]) <= Len(t[R])
    BY <1>3 DEF Part
  <2>2. pos[r] <= Len(t[R])
    BY <1>3, <1>6, <2>1
  <2>. QED
    BY <1>3, <1>6, <1>7, <2>2
<1>16. \A i \in new + 1 .. Len(t[R]) : copy[i] = t[R][i]
  <2>. TAKE i \in new + 1 .. Len(t[R])
  <2>1. i \in 1 .. Len(t[R]) /\ i > new
    BY <1>6, <1>15
  <2>. QED
    BY <1>12, <2>1
<1>17. Written(t[R], copy, new)
  BY <1>14, <1>15, <1>16 DEF Written
<1>. QED
  BY <1>1, <1>8, <1>17

-----------------------------------------------------------------------------
(* The inductive invariant.                                                *)

InWalk == [of : Ropes, r : Nat, down : BOOLEAN, off : Nat, buf : Seq(Chars)]

Underway(n, roots, w) ==
    /\ w \in InWalk
    /\ Written(TextIn(n)[roots[w.of]], w.buf, w.off)
    /\ Where(n, TextIn(n), roots[w.of], w.r, w.down, w.off)

\* Every rope has a root and knows how long its text is.
RopesStand(n, roots, sizes) ==
    /\ Tree(n)
    /\ roots \in [Ropes -> Nat] /\ sizes \in [Ropes -> Nat]
    /\ \A x \in Ropes : IsRoot(n, roots[x]) /\ sizes[x] = Len(TextIn(n)[roots[x]])

RopeInv ==
    /\ RopesStand(node, root, size)
    /\ walk = NoWalk \/ Underway(node, root, walk)

\* The strings the ropes stand for.
Strs(n, roots) == [x \in Ropes |-> TextIn(n)[roots[x]]]

RopeStep == [Strings!Step]_<<[x \in Ropes |-> TextOf(x)], out>>

LEMMA Mapped == [x \in Ropes |-> TextOf(x)] = Strs(node, root)
                /\ [x \in Ropes |-> TextOf(x)]' = Strs(node', root')
BY DEF TextOf, Strs

LEMMA IsAssign ==
    ASSUME NEW z \in Ropes, NEW s, 
           Strs(node', root') = [Strs(node, root) EXCEPT ![z] = s], out' = << >>
    PROVE  Strings!Assign(z, s)
BY Mapped DEF Strings!Assign

LEMMA IsBegin ==
    ASSUME Strs(node', root') = Strs(node, root), out' = << >>
    PROVE  Strings!Begin
BY Mapped DEF Strings!Begin

LEMMA IsRead ==
    ASSUME Strs(node', root') = Strs(node, root), NEW x \in Ropes,
           out' = <<TextIn(node)[root[x]]>>
    PROVE  Strings!Read(x)
<1>1. Strs(node, root)[x] = TextIn(node)[root[x]]
  BY DEF Strs
<1>. QED
  BY <1>1, Mapped DEF Strings!Read

LEMMA IsReadAt ==
    ASSUME Strs(node', root') = Strs(node, root), NEW x \in Ropes, NEW i,
           out' = <<SubSeq(TextIn(node)[root[x]], i, i)>>
    PROVE  Strings!ReadAt(x, i)
<1>1. Strs(node, root)[x] = TextIn(node)[root[x]]
  BY DEF Strs
<1>. QED
  BY <1>1, Mapped DEF Strings!ReadAt

LEMMA IsStutter ==
    ASSUME Strs(node', root') = Strs(node, root), out' = out
    PROVE  RopeStep
BY Mapped DEF RopeStep

\* Nodes are added, and the rope z gets the new root k.
LEMMA RopeSet ==
    ASSUME RopeInv, walk = NoWalk, UNCHANGED walk, Grows(node, node'),
           NEW z \in Ropes, NEW k, IsRoot(node', k), NEW s, TextIn(node')[k] = s,
           root' = [root EXCEPT ![z] = k], size' = [size EXCEPT ![z] = Len(s)]
    PROVE  RopeInv' /\ Strs(node', root') = [Strs(node, root) EXCEPT ![z] = s]
<1>1. /\ Tree(node) /\ root \in [Ropes -> Nat] /\ size \in [Ropes -> Nat]
      /\ \A x \in Ropes : IsRoot(node, root[x]) /\ size[x] = Len(TextIn(node)[root[x]])
  BY DEF RopeInv, RopesStand
<1>2. Tree(node') /\ Len(node) \in Nat /\ Len(node') \in Nat /\ Len(node) <= Len(node')
  BY <1>1, LenProperties DEF Grows, Tree
<1>3. k \in 1 .. Len(node') /\ k \in Nat
  BY <1>2 DEF IsRoot
<1>4. ASSUME NEW x \in Ropes
      PROVE  IsRoot(node', root[x]) /\ TextIn(node')[root[x]] = TextIn(node)[root[x]]
  <2>1. root[x] \in 1 .. Len(node) /\ node[root[x]].kind = "concat" /\ root[x] \in 0 .. Len(node)
    BY <1>1, <1>2 DEF IsRoot
  <2>2. Keeps(node, node', root[x])
    BY <2>1 DEF Grows
  <2>3. IsRoot(node', root[x])
    BY <1>2, <2>1, <2>2 DEF IsRoot, Keeps
  <2>. QED
    BY <2>1, <2>3, TextKept
<1>5. s \in Seq(Chars) /\ Len(s) \in Nat
  <2>1. s \in Seq(Chars)
    <3>1. TextLaws(node', TextIn(node'))
      BY <1>2, TextUnfolds
    <3>2. k \in 0 .. Len(node')
      BY <1>2, <1>3
    <3>. QED
      BY <3>1, <3>2 DEF TextLaws
  <2>. QED
    BY <2>1, LenProperties
<1>6. root' \in [Ropes -> Nat] /\ size' \in [Ropes -> Nat]
  BY <1>1, <1>3, <1>5
<1>7. \A x \in Ropes : IsRoot(node', root'[x]) /\ size'[x] = Len(TextIn(node')[root'[x]])
  <2>. TAKE x \in Ropes
  <2>1. CASE x = z
    BY <1>1, <2>1
  <2>2. CASE x # z
    BY <1>1, <1>4, <2>2
  <2>. QED
    BY <2>1, <2>2
<1>8. RopesStand(node', root', size')
  BY <1>2, <1>6, <1>7 DEF RopesStand
<1>9. Strs(node', root') = [Strs(node, root) EXCEPT ![z] = s]
  <2>1. ASSUME NEW x \in Ropes
        PROVE  TextIn(node')[root'[x]] = [Strs(node, root) EXCEPT ![z] = s][x]
    <3>1. CASE x = z
      BY <1>1, <3>1 DEF Strs
    <3>2. CASE x # z
      BY <1>1, <1>4, <3>2 DEF Strs
    <3>. QED
      BY <3>1, <3>2
  <2>. QED
    BY <2>1 DEF Strs
<1>. QED
  BY <1>8, <1>9 DEF RopeInv

LEMMA LenOf ==
    ASSUME RopeInv, NEW x \in Ropes
    PROVE  /\ root[x] \in 1 .. Len(node) /\ root[x] \in 0 .. Len(node)
           /\ IsRoot(node, root[x]) /\ Tree(node) /\ Len(node) \in Nat
           /\ TextIn(node)[root[x]] \in Seq(Chars)
           /\ size[x] = Len(TextIn(node)[root[x]]) /\ size[x] \in Nat
           /\ Strs(node, root)[x] = TextIn(node)[root[x]]
<1>1. /\ Tree(node) /\ IsRoot(node, root[x]) /\ size[x] \in Nat
      /\ size[x] = Len(TextIn(node)[root[x]])
  BY DEF RopeInv, RopesStand
<1>2. Len(node) \in Nat
  BY <1>1, LenProperties DEF Tree
<1>3. root[x] \in 1 .. Len(node) /\ root[x] \in 0 .. Len(node)
  BY <1>1, <1>2 DEF IsRoot
<1>. QED
  BY <1>1, <1>2, <1>3, TextUnfolds DEF TextLaws, Strs

LEMMA PieceType ==
    ASSUME NEW s \in Pieces
    PROVE  s \in Seq(Chars) /\ Len(s) \in Nat
<1>1. s \in Seq(Chars)
  <2>1. \A u \in Texts : u \in Seq(Chars) /\ Append(u, Nul) \in Seq(Chars)
    BY RopeAssumption, AppendProperties
  <2>. QED
    BY <2>1 DEF Pieces
<1>. QED
  BY <1>1, LenProperties

-----------------------------------------------------------------------------
(* The operations.                                                         *)

LEMMA ConstructGood ==
    ASSUME RopeInv, NEW z \in Ropes, NEW s \in Texts, Construct(z, s)
    PROVE  RopeInv' /\ RopeStep
<1>0. Tree(node) /\ s \in Pieces /\ s \in Seq(Chars) /\ Len(node) \in Nat
  BY LenOf, PieceType DEF Pieces
<1>1. /\ walk = NoWalk /\ UNCHANGED walk /\ out' = << >>
      /\ node' = node \o <<Str(s), Concat(Len(node) + 1, Null)>>
      /\ root' = [root EXCEPT ![z] = Len(node) + 2]
      /\ size' = [size EXCEPT ![z] = Len(s)]
  <2>1. Len(node) + 1 + 1 = Len(node) + 2
    BY <1>0
  <2>. QED
    BY <2>1 DEF Construct, Ready, Returns, New
<1>2. PICK m : m = node'
  OBVIOUS
<1>3. m = node \o <<Str(s), Concat(Len(node) + 1, Null)>>
  BY <1>1, <1>2
<1>4. Null \in 0 .. Len(node)
  BY <1>0 DEF Null
<1>5. /\ Grows(node, m) /\ IsRoot(m, Len(node) + 2)
      /\ TextIn(m)[Len(node) + 2] = TextIn(node)[Null] \o s
  BY <1>0, <1>3, <1>4, NewPiece
<1>6. TextIn(m)[Len(node) + 2] = s
  <2>1. TextIn(node)[Null] = << >>
    BY <1>0, TextUnfolds DEF TextLaws, Null
  <2>. QED
    BY <1>0, <1>5, <2>1, ConcatEmptySeq
<1>. HIDE <1>3
<1>7. RopeInv' /\ Strs(node', root') = [Strs(node, root) EXCEPT ![z] = s]
  BY <1>1, <1>2, <1>5, <1>6, RopeSet
<1>8. Strings!Assign(z, s)
  BY <1>1, <1>7, IsAssign
<1>9. Strings!Step
  BY <1>0, <1>8 DEF Strings!Step
<1>. QED
  BY <1>7, <1>9 DEF RopeStep

LEMMA CopyGood ==
    ASSUME RopeInv, NEW z \in Ropes, NEW x \in Ropes, Copy(z, x)
    PROVE  RopeInv' /\ RopeStep
<1>1. /\ walk = NoWalk /\ UNCHANGED walk /\ out' = << >> /\ node' = node
      /\ root' = [root EXCEPT ![z] = root[x]]
      /\ size' = [size EXCEPT ![z] = size[x]]
  BY DEF Copy, Ready, Returns
<1>2. PICK s : s = TextIn(node)[root[x]]
  OBVIOUS
<1>3. Tree(node) /\ IsRoot(node, root[x]) /\ size[x] = Len(s) /\ Strs(node, root)[x] = s
      /\ Len(node) \in Nat
  BY <1>2, LenOf
<1>4. Grows(node, node')
  BY <1>1, <1>3 DEF Grows, Keeps
<1>5. RopeInv' /\ Strs(node', root') = [Strs(node, root) EXCEPT ![z] = s]
  BY <1>1, <1>2, <1>3, <1>4, RopeSet
<1>6. Strings!Assign(z, s)
  BY <1>1, <1>5, IsAssign
<1>7. Strings!Assign(z, [y \in Ropes |-> TextOf(y)][x])
  BY <1>3, <1>6, Mapped
<1>8. Strings!Step
  BY <1>7 DEF Strings!Step
<1>. QED
  BY <1>5, <1>8 DEF RopeStep

LEMMA AppendTextGood ==
    ASSUME RopeInv, NEW x \in Ropes, NEW s \in Pieces, AppendText(x, s)
    PROVE  RopeInv' /\ RopeStep
<1>0. s \in Seq(Chars) /\ Len(s) \in Nat
  BY PieceType
<1>1. PICK t : t = TextIn(node)[root[x]]
  OBVIOUS
<1>2. /\ Tree(node) /\ Len(node) \in Nat
      /\ root[x] \in 0 .. Len(node) /\ IsRoot(node, root[x])
      /\ size[x] = Len(t) /\ t \in Seq(Chars) /\ Strs(node, root)[x] = t
  BY <1>1, LenOf
<1>3. /\ walk = NoWalk /\ UNCHANGED walk /\ out' = << >>
      /\ node' = node \o <<Str(s), Concat(Len(node) + 1, root[x])>>
      /\ root' = [root EXCEPT ![x] = Len(node) + 2]
      /\ size' = [size EXCEPT ![x] = size[x] + Len(s)]
  <2>1. Len(node) + 1 + 1 = Len(node) + 2
    BY <1>2
  <2>. QED
    BY <2>1 DEF AppendText, Ready, Returns, New
<1>4. PICK m : m = node'
  OBVIOUS
<1>5. m = node \o <<Str(s), Concat(Len(node) + 1, root[x])>>
  BY <1>3, <1>4
<1>6. /\ Grows(node, m) /\ IsRoot(m, Len(node) + 2)
      /\ TextIn(m)[Len(node) + 2] = t \o s
  <2>1. /\ Grows(node, m) /\ IsRoot(m, Len(node) + 2)
        /\ TextIn(m)[Len(node) + 2] = TextIn(node)[root[x]] \o s
    BY <1>0, <1>2, <1>5, NewPiece
  <2>. QED
    BY <1>1, <2>1, Zenon
<1>7. size[x] + Len(s) = Len(t \o s)
  BY <1>0, <1>2, ConcatProperties
<1>. HIDE <1>5
<1>8. RopeInv' /\ Strs(node', root') = [Strs(node, root) EXCEPT ![x] = t \o s]
  <2>1. PICK u : u = t \o s
    OBVIOUS
  <2>2. TextIn(node')[Len(node) + 2] = u /\ size' = [size EXCEPT ![x] = Len(u)]
    <3>1. Len(u) = size[x] + Len(s)
      BY <1>7, <2>1, Zenon
    <3>2. TextIn(m)[Len(node) + 2] = u
      BY <1>6, <2>1, Zenon
    <3>. HIDE <2>1
    <3>. QED
      BY <1>3, <1>4, <3>1, <3>2
  <2>3. RopeInv' /\ Strs(node', root') = [Strs(node, root) EXCEPT ![x] = u]
    <3>1. /\ walk = NoWalk /\ UNCHANGED walk
          /\ Grows(node, node') /\ IsRoot(node', Len(node) + 2)
          /\ root' = [root EXCEPT ![x] = Len(node) + 2]
      BY <1>3, <1>4, <1>6
    <3>. QED
      BY <2>2, <3>1, RopeSet
  <2>. QED
    BY <2>1, <2>3
<1>9. Strings!Assign(x, t \o s)
  BY <1>3, <1>8, IsAssign
<1>10. Strings!Assign(x, [y \in Ropes |-> TextOf(y)][x] \o s)
  BY <1>2, <1>9, Mapped
<1>11. Strings!Step
  BY <1>10 DEF Strings!Step
<1>. QED
  BY <1>8, <1>11 DEF RopeStep

LEMMA AppendRopeGood ==
    ASSUME RopeInv, NEW x \in Ropes, NEW y \in Ropes, AppendRope(x, y)
    PROVE  RopeInv' /\ RopeStep
<1>1. PICK t : t = TextIn(node)[root[x]]
  OBVIOUS
<1>2. PICK s : s = TextIn(node)[root[y]]
  OBVIOUS
<1>3. /\ Tree(node) /\ Len(node) \in Nat
      /\ root[x] \in 0 .. Len(node) /\ IsRoot(node, root[x]) /\ root[y] \in 1 .. Len(node)
      /\ size[x] = Len(t) /\ t \in Seq(Chars) /\ Strs(node, root)[x] = t
      /\ size[y] = Len(s) /\ s \in Seq(Chars) /\ Strs(node, root)[y] = s
  BY <1>1, <1>2, LenOf
<1>4. /\ walk = NoWalk /\ UNCHANGED walk /\ out' = << >>
      /\ node' = Append(node, Concat(root[y], root[x]))
      /\ root' = [root EXCEPT ![x] = Len(node) + 1]
      /\ size' = [size EXCEPT ![x] = size[x] + size[y]]
  BY DEF AppendRope, Ready, Returns, New
<1>5. PICK m : m = node'
  OBVIOUS
<1>6. m = Append(node, Concat(root[y], root[x]))
  BY <1>4, <1>5
<1>7. /\ Grows(node, m) /\ IsRoot(m, Len(node) + 1)
      /\ TextIn(m)[Len(node) + 1] = t \o s
  <2>1. /\ Grows(node, m) /\ IsRoot(m, Len(node) + 1)
        /\ TextIn(m)[Len(node) + 1] = TextIn(node)[root[x]] \o TextIn(node)[root[y]]
    BY <1>3, <1>6, NewConcat
  <2>. QED
    BY <1>1, <1>2, <2>1, Zenon
<1>8. size[x] + size[y] = Len(t \o s)
  BY <1>3, ConcatProperties
<1>. HIDE <1>6
<1>9. RopeInv' /\ Strs(node', root') = [Strs(node, root) EXCEPT ![x] = t \o s]
  <2>1. PICK u : u = t \o s
    OBVIOUS
  <2>2. TextIn(node')[Len(node) + 1] = u /\ size' = [size EXCEPT ![x] = Len(u)]
    <3>1. Len(u) = size[x] + size[y]
      BY <1>8, <2>1, Zenon
    <3>2. TextIn(m)[Len(node) + 1] = u
      BY <1>7, <2>1, Zenon
    <3>. HIDE <2>1
    <3>. QED
      BY <1>4, <1>5, <3>1, <3>2
  <2>3. RopeInv' /\ Strs(node', root') = [Strs(node, root) EXCEPT ![x] = u]
    <3>1. /\ walk = NoWalk /\ UNCHANGED walk
          /\ Grows(node, node') /\ IsRoot(node', Len(node) + 1)
          /\ root' = [root EXCEPT ![x] = Len(node) + 1]
      BY <1>4, <1>5, <1>7
    <3>. QED
      BY <2>2, <3>1, RopeSet
  <2>. QED
    BY <2>1, <2>3
<1>10. Strings!Assign(x, t \o s)
  BY <1>4, <1>9, IsAssign
<1>11. Strings!Assign(x, [z \in Ropes |-> TextOf(z)][x] \o [z \in Ropes |-> TextOf(z)][y])
  BY <1>3, <1>10, Mapped
<1>12. Strings!Step
  BY <1>11 DEF Strings!Step
<1>. QED
  BY <1>9, <1>12 DEF RopeStep

LEMMA AtGood ==
    ASSUME RopeInv, NEW x \in Ropes, NEW i \in 0 .. size[x] - 1, At(x, i)
    PROVE  RopeInv' /\ RopeStep
<1>1. PICK t : t = TextIn(node)[root[x]]
  OBVIOUS
<1>2. /\ Tree(node) /\ root[x] \in 0 .. Len(node)
      /\ size[x] = Len(t) /\ size[x] \in Nat /\ t \in Seq(Chars) /\ Strs(node, root)[x] = t
  BY <1>1, LenOf
<1>3. PICK st : st = [ret |-> << >>, so_far |-> size[x], stop |-> FALSE]
  OBVIOUS
<1>4. /\ UNCHANGED <<node, root, size, walk>>
      /\ out' = <<Visit(node, i)[root[x]][st].ret>>
  BY <1>3 DEF At, Returns
<1>5. Seeks(i, st) /\ st.so_far = size[x] /\ i \in Nat
  <2>1. << >> \in Seq(Chars)
    BY EmptySeq
  <2>. QED
    BY <1>2, <1>3, <2>1 DEF Seeks, Visits
<1>6. PICK e : e = Visit(node, i)[root[x]][st]
  OBVIOUS
<1>7. Finds(t, i, st, e)
  BY <1>1, <1>2, <1>5, <1>6, VisitFinds
<1>8. i + 1 \in 1 .. Len(t) /\ i >= st.so_far - Len(t) /\ i - (st.so_far - Len(t)) + 1 = i + 1
  BY <1>2, <1>5
<1>9. e.ret = <<t[i + 1]>>
  BY <1>2, <1>5, <1>7, <1>8 DEF Finds
<1>10. SubSeq(t, i + 1, i + 1) = <<t[i + 1]>>
  BY <1>2, <1>8, OneOf
<1>11. Strs(node', root') = Strs(node, root) /\ RopeInv'
  BY <1>4 DEF RopeInv
<1>12. Strings!ReadAt(x, i + 1)
  <2>1. out' = <<SubSeq(t, i + 1, i + 1)>>
    BY <1>4, <1>6, <1>9, <1>10
  <2>. QED
    BY <1>1, <1>11, <2>1, IsReadAt
<1>13. [y \in Ropes |-> TextOf(y)][x] = t
  BY <1>2, Mapped
<1>14. i + 1 \in 1 .. Len([y \in Ropes |-> TextOf(y)][x])
  BY <1>8, <1>13
<1>15. Strings!Step
  BY <1>12, <1>14 DEF Strings!Step
<1>. QED
  BY <1>11, <1>15 DEF RopeStep

-----------------------------------------------------------------------------
(* The steps of c_str.                                                     *)

LEMMA RelinkedRopes ==
    ASSUME RopeInv, Grows(node, node'), Len(node') = Len(node), UNCHANGED <<root, size>>
    PROVE  /\ RopesStand(node', root', size') /\ Strs(node', root') = Strs(node, root)
           /\ TextIn(node') = TextIn(node)
<1>1. TextIn(node') = TextIn(node)
  BY TextSame
<1>2. \A x \in Ropes : IsRoot(node', root[x])
  BY DEF RopeInv, RopesStand, IsRoot, Grows, Keeps
<1>3. RopesStand(node', root', size')
  BY <1>1, <1>2 DEF RopeInv, RopesStand, Grows
<1>. QED
  BY <1>1, <1>3 DEF Strs

LEMMA CStrGood ==
    ASSUME RopeInv, NEW x \in Ropes, CStr(x)
    PROVE  RopeInv' /\ RopeStep
<1>1. PICK t : t = TextIn(node)[root[x]]
  OBVIOUS
<1>2. /\ Tree(node) /\ root[x] \in 1 .. Len(node) /\ IsRoot(node, root[x]) /\ Len(node) \in Nat
      /\ size[x] = Len(t) /\ size[x] \in Nat /\ t \in Seq(Chars)
  BY <1>1, LenOf
<1>3. /\ node' = [node EXCEPT ![root[x]].temp = Null]
      /\ walk' = [of |-> x, r |-> root[x], down |-> TRUE, off |-> size[x],
                  buf |-> Unwritten(size[x])]
      /\ out' = << >> /\ UNCHANGED <<root, size>>
  BY DEF CStr
<1>4. Grows(node, node') /\ Len(node') = Len(node) /\ node'[root[x]].temp = Null
  <2>1. node' = [node EXCEPT ![root[x]].temp = Null]
    BY <1>3
  <2>2. Tree(node) /\ root[x] \in 1 .. Len(node)
    BY <1>2
  <2>. QED
    BY <2>1, <2>2, RootLinks
<1>5. /\ RopesStand(node', root', size') /\ Strs(node', root') = Strs(node, root)
      /\ TextIn(node') = TextIn(node)
  BY <1>3, <1>4, RelinkedRopes
<1>6. PICK u : u = Unwritten(size[x])
  OBVIOUS
<1>7. u \in Seq(Chars) /\ Len(u) = size[x]
  <2>1. u \in [1 .. size[x] -> Chars]
    BY <1>6, RopeAssumption DEF Unwritten
  <2>2. u \in Seq(Chars)
    BY <1>2, <2>1, SeqDef
  <2>3. Len(u) \in Nat /\ 1 .. Len(u) = 1 .. size[x]
    BY <2>1, <2>2, LenProperties
  <2>. QED
    BY <1>2, <2>2, <2>3
<1>8. walk' = [of |-> x, r |-> root[x], down |-> TRUE, off |-> size[x], buf |-> u]
  BY <1>3, <1>6
<1>9. /\ walk' \in InWalk /\ walk'.of = x /\ walk'.r = root[x] /\ walk'.down = TRUE
      /\ walk'.off = size[x] /\ walk'.buf = u
  BY <1>2, <1>7, <1>8 DEF InWalk
<1>10. Written(t, u, size[x])
  BY <1>2, <1>7 DEF Written
<1>11. Where(node', TextIn(node'), root[x], root[x], TRUE, size[x])
  <2>1. Tree(node') /\ IsRoot(node', root[x])
    BY <1>3, <1>5 DEF RopesStand
  <2>2. Where(node', TextIn(node'), root[x], root[x], TRUE, Len(TextIn(node')[root[x]]))
    BY <1>4, <2>1, WalkBegins
  <2>. QED
    BY <1>1, <1>2, <1>5, <2>2
<1>12. Underway(node', root', walk')
  BY <1>1, <1>3, <1>5, <1>9, <1>10, <1>11 DEF Underway
<1>13. RopeInv'
  BY <1>5, <1>12 DEF RopeInv
<1>14. Strings!Step
  BY <1>3, <1>5, IsBegin DEF Strings!Step
<1>. QED
  BY <1>13, <1>14 DEF RopeStep

\* What is known of a walk that is not at its end.
OnTheWay(R) ==
    /\ Underway(node, root, walk)
    /\ R = root[walk.of]
    /\ walk.r # Null /\ walk.r \in 1 .. Len(node)
    /\ R \in 1 .. Len(node) /\ Tree(node) /\ walk.of \in Ropes

LEMMA WalkingHolds ==
    ASSUME RopeInv, Walking
    PROVE  OnTheWay(root[walk.of])
<1>1. walk # NoWalk
  BY DEF Walking, NoWalk
<1>2. Underway(node, root, walk)
  BY <1>1 DEF RopeInv
<1>3. walk.of \in Ropes
  BY <1>2 DEF Underway, InWalk
<1>4. walk.r \in 1 .. Len(node)
  BY <1>2 DEF Underway, Where, Way, Walking
<1>. QED
  BY <1>2, <1>3, <1>4, LenOf DEF OnTheWay, Walking

\* A step to the node r, with the rest of the walk as given.
LEMMA WalkMoved ==
    ASSUME RopeInv, Underway(node, root, walk),
           Grows(node, node'), Len(node') = Len(node), UNCHANGED <<root, size, out>>,
           NEW r, NEW down \in BOOLEAN, NEW off, NEW buf,
           walk' = [walk EXCEPT !.off = off, !.down = down, !.r = r, !.buf = buf],
           Written(TextIn(node)[root[walk.of]], buf, off),
           Where(node', TextIn(node'), root[walk.of], r, down, off)
    PROVE  RopeInv' /\ RopeStep
<1>1. /\ RopesStand(node', root', size') /\ Strs(node', root') = Strs(node, root)
      /\ TextIn(node') = TextIn(node)
  BY RelinkedRopes
<1>2. walk \in InWalk /\ walk.of \in Ropes
  BY DEF Underway, InWalk
<1>3. root[walk.of] \in 1 .. Len(node) /\ Len(TextIn(node)[root[walk.of]]) \in Nat
      /\ Len(node) \in Nat
  BY <1>2, LenOf, LenProperties
<1>4. off \in Nat /\ buf \in Seq(Chars)
  BY <1>3 DEF Written
<1>5. r \in Nat
  <2>1. r = Null \/ r \in 1 .. Len(node')
    BY DEF Where, Way
  <2>. QED
    BY <1>3, <2>1 DEF Null
<1>6. /\ walk' \in InWalk /\ walk'.of = walk.of
      /\ walk'.r = r /\ walk'.down = down /\ walk'.off = off /\ walk'.buf = buf
  BY <1>2, <1>4, <1>5 DEF InWalk
<1>7. Underway(node', root', walk')
  BY <1>1, <1>6 DEF Underway
<1>. QED
  BY <1>1, <1>7, IsStutter DEF RopeInv

LEMMA DescendGood ==
    ASSUME RopeInv, Descend
    PROVE  RopeInv' /\ RopeStep
<1>1. PICK R : R = root[walk.of]
  OBVIOUS
<1>2. PICK r : r = walk.r
  OBVIOUS
<1>3. PICK c : c = node[r].left
  OBVIOUS
<1>4. /\ Walking /\ walk.down /\ node[r].kind = "concat"
      /\ node' = [node EXCEPT ![r].temp_left = TRUE, ![c].temp = r]
      /\ walk' = [walk EXCEPT !.r = c] /\ UNCHANGED <<root, size, out>>
  BY <1>2, <1>3 DEF Descend, Here, Moves
<1>5. OnTheWay(R)
  BY <1>1, <1>4, WalkingHolds
<1>6. /\ Tree(node) /\ r \in 1 .. Len(node) /\ r # Null /\ Underway(node, root, walk)
      /\ walk \in InWalk
  BY <1>2, <1>5 DEF OnTheWay, Underway
<1>7. c # Null
  <2>1. Len(node) \in Nat
    BY <1>6, LenProperties DEF Tree
  <2>2. Older(node, r)
    BY <1>4, <1>6, NodeType
  <2>. QED
    BY <1>3, <1>6, <2>1, <2>2 DEF Older, Null
<1>8. Linked(node, node', r, c, TRUE)
  BY <1>3, <1>4, <1>6, <1>7, DownLinks
<1>9. Where(node, TextIn(node), R, r, TRUE, walk.off)
  <2>1. walk.down = TRUE
    BY <1>4, <1>6 DEF InWalk
  <2>. QED
    BY <1>1, <1>2, <1>6, <2>1 DEF Underway
<1>10. Where(node', TextIn(node'), R, c, TRUE, walk.off)
  BY <1>4, <1>6, <1>7, <1>8, <1>9, WalkDown
<1>11. walk' = [walk EXCEPT !.off = walk.off, !.down = TRUE, !.r = c, !.buf = walk.buf]
  BY <1>4, <1>6 DEF InWalk
<1>12. Written(TextIn(node)[root[walk.of]], walk.buf, walk.off)
  BY <1>6 DEF Underway
<1>13. Grows(node, node') /\ Len(node') = Len(node)
  BY <1>8 DEF Linked
<1>14. UNCHANGED <<root, size, out>> /\ Underway(node, root, walk)
  BY <1>4, <1>6
<1>. HIDE <1>4
<1>. QED
  BY <1>1, <1>10, <1>11, <1>12, <1>13, <1>14, WalkMoved

LEMMA TurnRightGood ==
    ASSUME RopeInv, TurnRight
    PROVE  RopeInv' /\ RopeStep
<1>1. PICK R : R = root[walk.of]
  OBVIOUS
<1>2. PICK r : r = walk.r
  OBVIOUS
<1>3. PICK c : c = node[r].right
  OBVIOUS
<1>4. /\ Walking /\ ~walk.down /\ node[r].temp_left /\ c # Null
      /\ node' = [node EXCEPT ![r].temp_left = FALSE, ![c].temp = r]
      /\ walk' = [walk EXCEPT !.down = TRUE, !.r = c] /\ UNCHANGED <<root, size, out>>
  BY <1>2, <1>3 DEF TurnRight, Here, Moves
<1>5. OnTheWay(R)
  BY <1>1, <1>4, WalkingHolds
<1>6. /\ Tree(node) /\ r \in 1 .. Len(node) /\ r # Null /\ Underway(node, root, walk)
      /\ walk \in InWalk
  BY <1>2, <1>5 DEF OnTheWay, Underway
<1>7. Where(node, TextIn(node), R, r, FALSE, walk.off)
  <2>1. walk.down = FALSE
    BY <1>4, <1>6 DEF InWalk
  <2>. QED
    BY <1>1, <1>2, <1>6, <2>1 DEF Underway
<1>8. node[r].kind = "concat"
  BY <1>6, <1>7 DEF Where
<1>9. Linked(node, node', r, c, FALSE)
  BY <1>3, <1>4, <1>6, <1>8, DownLinks
<1>10. Where(node', TextIn(node'), R, c, TRUE, walk.off)
  BY <1>4, <1>6, <1>7, <1>8, <1>9, WalkDown
<1>11. walk' = [walk EXCEPT !.off = walk.off, !.down = TRUE, !.r = c, !.buf = walk.buf]
  BY <1>4, <1>6 DEF InWalk
<1>12. Written(TextIn(node)[root[walk.of]], walk.buf, walk.off)
  BY <1>6 DEF Underway
<1>13. Grows(node, node') /\ Len(node') = Len(node)
  BY <1>9 DEF Linked
<1>. QED
  BY <1>1, <1>4, <1>6, <1>10, <1>11, <1>12, <1>13, WalkMoved

LEMMA AscendGood ==
    ASSUME RopeInv, Ascend
    PROVE  RopeInv' /\ RopeStep
<1>1. PICK R : R = root[walk.of]
  OBVIOUS
<1>2. PICK r : r = walk.r
  OBVIOUS
<1>3. /\ Walking /\ ~walk.down /\ ~(node[r].temp_left /\ node[r].right # Null)
      /\ node' = node
      /\ walk' = [walk EXCEPT !.r = node[r].temp] /\ UNCHANGED <<root, size, out>>
  BY <1>2 DEF Ascend, Here, Moves
<1>4. OnTheWay(R)
  BY <1>1, <1>3, WalkingHolds
<1>5. /\ Tree(node) /\ r \in 1 .. Len(node) /\ r # Null /\ Underway(node, root, walk)
      /\ walk \in InWalk
  BY <1>2, <1>4 DEF OnTheWay, Underway
<1>6. Where(node, TextIn(node), R, r, FALSE, walk.off)
  <2>1. walk.down = FALSE
    BY <1>3, <1>5 DEF InWalk
  <2>. QED
    BY <1>1, <1>2, <1>5, <2>1 DEF Underway
<1>7. Where(node', TextIn(node'), R, node[r].temp, FALSE, walk.off)
  <2>1. Where(node, TextIn(node), R, node[r].temp, FALSE, walk.off)
    BY <1>3, <1>5, <1>6, WalkOn
  <2>. QED
    BY <1>3, <2>1
<1>8. walk' = [walk EXCEPT !.off = walk.off, !.down = FALSE, !.r = node[r].temp, !.buf = walk.buf]
  BY <1>3, <1>5 DEF InWalk
<1>9. Written(TextIn(node)[root[walk.of]], walk.buf, walk.off)
  BY <1>5 DEF Underway
<1>10. Grows(node, node') /\ Len(node') = Len(node)
  <2>1. Len(node) \in Nat
    BY <1>5, LenProperties DEF Tree
  <2>. QED
    BY <1>3, <1>5, <2>1 DEF Grows, Keeps
<1>. QED
  BY <1>1, <1>3, <1>5, <1>7, <1>8, <1>9, <1>10, WalkMoved

LEMMA CopyLeafGood ==
    ASSUME RopeInv, CopyLeaf
    PROVE  RopeInv' /\ RopeStep
<1>1. PICK R : R = root[walk.of]
  OBVIOUS
<1>2. PICK r : r = walk.r
  OBVIOUS
<1>3. PICK off : off = walk.off - Len(node[r].text)
  OBVIOUS
<1>4. PICK buf : buf = Copied(walk.buf, node[r].text, off, walk.off)
  OBVIOUS
<1>5. /\ Walking /\ walk.down /\ node[r].kind = "str" /\ node' = node
      /\ walk' = [walk EXCEPT !.off = off, !.down = FALSE, !.r = node[r].temp, !.buf = buf]
      /\ UNCHANGED <<root, size, out>>
  BY <1>2, <1>3, <1>4 DEF CopyLeaf, Here, Moves, Copied
<1>6. OnTheWay(R)
  BY <1>1, <1>5, WalkingHolds
<1>7. /\ Tree(node) /\ r \in 1 .. Len(node) /\ r # Null /\ Underway(node, root, walk)
      /\ walk \in InWalk /\ R \in 1 .. Len(node)
  BY <1>2, <1>6 DEF OnTheWay, Underway
<1>8. /\ Where(node, TextIn(node), R, r, TRUE, walk.off)
      /\ Written(TextIn(node)[R], walk.buf, walk.off)
  <2>1. walk.down = TRUE
    BY <1>5, <1>7 DEF InWalk
  <2>. QED
    BY <1>1, <1>2, <1>7, <2>1 DEF Underway
<1>9. /\ Where(node, TextIn(node), R, node[r].temp, FALSE, off)
      /\ Written(TextIn(node)[R], buf, off)
  <2>1. Tree(node) /\ R \in 1 .. Len(node) /\ r # Null /\ node[r].kind = "str"
    BY <1>5, <1>7
  <2>. QED
    BY <1>3, <1>4, <1>8, <2>1, WalkLeaf
<1>10. Grows(node, node') /\ Len(node') = Len(node)
  <2>1. Len(node) \in Nat
    BY <1>7, LenProperties DEF Tree
  <2>. QED
    BY <1>5, <1>7, <2>1 DEF Grows, Keeps
<1>. HIDE <1>3, <1>4
<1>11. Where(node', TextIn(node'), R, node[r].temp, FALSE, off)
  BY <1>5, <1>9
<1>. QED
  BY <1>1, <1>5, <1>7, <1>9, <1>10, <1>11, WalkMoved

LEMMA ReturnGood ==
    ASSUME RopeInv, Return
    PROVE  RopeInv' /\ RopeStep
<1>1. /\ walk # NoWalk /\ walk.r = Null /\ out' = <<walk.buf>> /\ walk' = NoWalk
      /\ UNCHANGED <<node, root, size>>
  BY DEF Return
<1>2. Underway(node, root, walk)
  BY <1>1 DEF RopeInv
<1>3. PICK x : x = walk.of
  OBVIOUS
<1>4. PICK t : t = TextIn(node)[root[x]]
  OBVIOUS
<1>5. x \in Ropes /\ Written(t, walk.buf, walk.off) /\ walk.off = 0
  BY <1>1, <1>2, <1>3, <1>4 DEF Underway, InWalk, Where
<1>6. t \in Seq(Chars) /\ Len(t) \in Nat
  BY <1>4, <1>5, LenOf, LenProperties
<1>7. walk.buf = t
  <2>1. /\ walk.buf \in Seq(Chars) /\ Len(walk.buf) = Len(t)
        /\ \A i \in 1 .. Len(t) : walk.buf[i] = t[i]
    BY <1>5, <1>6 DEF Written
  <2>. QED
    BY <1>6, <2>1, SeqEqual
<1>8. Strs(node', root') = Strs(node, root) /\ RopeInv'
  BY <1>1 DEF RopeInv
<1>9. Strings!Read(x)
  BY <1>1, <1>4, <1>5, <1>7, <1>8, IsRead
<1>10. Strings!Step
  BY <1>5, <1>9 DEF Strings!Step
<1>. QED
  BY <1>8, <1>10 DEF RopeStep

LEMMA StartsGood ==
    ASSUME NEW n, NEW roots, NEW sizes, Start(n, roots, sizes)
    PROVE  RopesStand(n, roots, sizes) /\ Strs(n, roots) = First
<1>1. /\ Tree(n)
      /\ roots \in [Ropes -> Nat] /\ sizes \in [Ropes -> Nat]
      /\ \A x \in Ropes : /\ IsRoot(n, roots[x])
                          /\ TextIn(n)[roots[x]] = First[x]
                          /\ sizes[x] = Len(First[x])
  BY StartGood
<1>2. First = [x \in Ropes |-> First[x]]
  BY RopeAssumption DEF Ropes
<1>3. Strs(n, roots) = First
  BY <1>1, <1>2 DEF Strs
<1>. QED
  BY <1>1, <1>3 DEF RopesStand

LEMMA InstantiateGood ==
    ASSUME RopeInv, Instantiate
    PROVE  RopeInv' /\ RopeStep
<1>1. Start(node', root', size') /\ walk' = NoWalk /\ out' = << >>
  BY DEF Instantiate
<1>2. RopesStand(node', root', size') /\ Strs(node', root') = First
  BY <1>1, StartsGood
<1>3. Strings!Start'
  BY <1>1, <1>2, Mapped DEF Strings!Start
<1>. QED
  BY <1>1, <1>2, <1>3 DEF RopeInv, RopeStep, Strings!Step

LEMMA RopeInitGood ==
    ASSUME Init
    PROVE  RopeInv /\ Strings!Start
<1>1. RopesStand(node, root, size) /\ Strs(node, root) = First
  BY StartsGood DEF Init
<1>. QED
  BY <1>1, Mapped DEF Init, RopeInv, Strings!Start

LEMMA RopeNextGood ==
    ASSUME RopeInv, [Next]_vars
    PROVE  RopeInv' /\ RopeStep
<1>1. CASE UNCHANGED vars
  <2>1. RopeInv' /\ Strs(node', root') = Strs(node, root) /\ out' = out
    BY <1>1 DEF vars, RopeInv
  <2>. QED
    BY <2>1, IsStutter
<1>2. CASE Step
  BY <1>2, DescendGood, CopyLeafGood, TurnRightGood, AscendGood, ReturnGood DEF Step
<1>3. CASE Next /\ ~Step
  BY <1>3, ConstructGood, CopyGood, AppendTextGood, AppendRopeGood, AtGood, CStrGood,
     InstantiateGood DEF Next
<1>. QED
  BY <1>1, <1>2, <1>3

LEMMA RopeInvHolds == Spec => []RopeInv
<1>1. RopeInv /\ [Next]_vars => RopeInv'
  BY RopeNextGood
<1>. QED
  BY <1>1, RopeInitGood, PTL DEF Spec

\* c_str never leaves its buffer and always has the end of the text in it,
\* without a gap, for any pieces, any number of ropes and nodes and whatever
\* links earlier walks left in the nodes it shares: the nodes on its way are
\* linked upwards one by one and their halves say what is still to come.
THEOREM TailIsWritten == Spec => []TailWritten
<1>1. RopeInv => TailWritten
  <2>. SUFFICES ASSUME RopeInv, walk # NoWalk
                PROVE  /\ walk.off >= 0
                       /\ \A i \in walk.off + 1 .. size[walk.of] :
                            walk.buf[i] = TextOf(walk.of)[i]
    BY DEF TailWritten
  <2>1. Underway(node, root, walk)
    BY DEF RopeInv
  <2>2. PICK x : x = walk.of
    OBVIOUS
  <2>3. x \in Ropes /\ Written(TextIn(node)[root[x]], walk.buf, walk.off)
    BY <2>1, <2>2 DEF Underway, InWalk
  <2>4. size[x] = Len(TextIn(node)[root[x]]) /\ size[x] \in Nat
    BY <2>3, LenOf
  <2>5. TextOf(x) = TextIn(node)[root[x]]
    BY DEF TextOf
  <2>. QED
    BY <2>2, <2>3, <2>4, <2>5 DEF Written
<1>. QED
  BY <1>1, RopeInvHolds, PTL

\* Ropes are strings, for any pieces and any number of them: an append or a
\* copy changes the string of one rope only, a walk of c_str changes none,
\* and what c_str and at return is what the rope was put together from.
THEOREM RopesAreStrings == Spec => ImplementsText
<1>1. RopeInv /\ [Next]_vars
        => RopeInv' /\ [Strings!Step]_<<[x \in Ropes |-> TextOf(x)], out>>
  BY RopeNextGood DEF RopeStep
<1>. QED
  BY <1>1, RopeInitGood, PTL DEF Spec, ImplementsText, Strings!TextSpec

-----------------------------------------------------------------------------
(* The singleton.                                                          *)

Rows == Values \cup {Absent}

RowTypes ==
    /\ row \in Rows /\ kept \in Rows
    /\ gen \in Gens
    /\ seen \in [Insts -> [Gens -> Rows]]

\* What the object has loaded is the row of the host: no item survives the
\* removal of its row, and none keeps a value that was overwritten.
ItemsCurrent ==
    \A i \in Insts, g \in Gens :
      seen[i][g] # Absent => g = gen /\ seen[i][g] = row

SingletonInv == RowTypes /\ ItemsCurrent

RegisterStep == [Reg!Step]_<<row, kept, ans>>

\* What every call of the object has to show.
CallGood == SingletonInv' /\ RegisterStep

-----------------------------------------------------------------------------
(* The ways a call ends.                                                   *)

\* The objects of a new action have loaded nothing.
LEMMA FreshInv ==
    ASSUME row' \in Rows, kept' \in Rows, FreshObjects
    PROVE  SingletonInv'
<1>1. 0 \in Gens
  BY ValuesAssumption DEF Gens
<1> QED
  BY <1>1 DEF SingletonInv, RowTypes, ItemsCurrent, FreshObjects, NoItems, Rows

\* A failed check is a rollback of the register.
LEMMA AbortGood ==
    ASSUME SingletonInv, NEW why, Abort(why)
    PROVE  CallGood
<1>1. row' \in Rows /\ kept' \in Rows
  BY DEF Abort, SingletonInv, RowTypes
<1>2. SingletonInv'
  BY <1>1, FreshInv DEF Abort
<1>3. Reg!Rollback
  BY DEF Abort, FreshObjects, Reg!Rollback
<1> QED  BY <1>2, <1>3 DEF CallGood, RegisterStep, Reg!Step

\* A call that answers with the row of the host is a read of the register.
LEMMA AnswerGood ==
    ASSUME SingletonInv, NEW i \in Insts, NEW s, s = seen \/ s = Loaded(i),
           Answers(row, s)
    PROVE  CallGood
<1>1. SingletonInv'
  BY DEF Answers, SingletonInv, RowTypes, ItemsCurrent, Loaded
<1>2. Reg!Read
  BY DEF Answers, Reg!Read
<1> QED  BY <1>1, <1>2 DEF CallGood, RegisterStep, Reg!Step

\* The item find() takes has the value of the row.
LEMMA FoundIsRow ==
    ASSUME SingletonInv, NEW i \in Insts, NEW g \in Gens, Found(i, g)
    PROVE  g = gen /\ seen[i][g] = row /\ row # Absent
BY DEF SingletonInv, ItemsCurrent, Found

LEMMA EmplaceGood ==
    ASSUME SingletonInv, NEW i \in Insts, Insts = {i}, NEW v \in Values,
           NEW answer \in {v, Absent}, row = Absent, Emplace(i, v, answer)
    PROVE  CallGood
<1>1. CASE ~own /\ Abort("check")
  BY <1>1, AbortGood
<1>2. CASE own /\ ~Abort("check")
  <2>1. row' = v /\ ans' = answer /\ UNCHANGED kept
    BY <1>2 DEF Emplace
  <2>2. seen' = [seen EXCEPT ![i][gen] = v] /\ UNCHANGED gen
    BY <1>2 DEF Emplace
  <2>3. RowTypes'
    BY <2>1, <2>2 DEF SingletonInv, RowTypes, Rows
  <2>4. ItemsCurrent'
    BY <2>1, <2>2 DEF SingletonInv, RowTypes, ItemsCurrent
  <2>5. Reg!Create(v) \/ Reg!Put(v)
    BY <2>1 DEF Reg!Create, Reg!Put
  <2> QED  BY <2>3, <2>4, <2>5 DEF CallGood, SingletonInv, RegisterStep, Reg!Step
<1> QED  BY <1>1, <1>2, AbortGood DEF Emplace

\* modify() through an item of the row of the host.
LEMMA ModifyGood ==
    ASSUME SingletonInv, NEW i \in Insts, Insts = {i}, NEW v \in Values, row # Absent,
           NEW s, s = seen \/ s = Loaded(i), Modify(i, gen, v, s)
    PROVE  CallGood
<1>1. CASE \E why : Abort(why)
  BY <1>1, AbortGood
<1>2. CASE ~\E why : Abort(why)
  <2>1. row' = v /\ ans' = Absent /\ UNCHANGED kept
    BY <1>2 DEF Modify
  <2>2. seen' = [s EXCEPT ![i][gen] = v] /\ UNCHANGED gen
    BY <1>2 DEF Modify
  <2>3. RowTypes'
    BY <2>1, <2>2 DEF SingletonInv, RowTypes, Rows, Loaded
  <2>4. ItemsCurrent'
    BY <2>1, <2>2 DEF SingletonInv, RowTypes, ItemsCurrent, Loaded
  <2>5. Reg!Put(v)
    BY <2>1 DEF Reg!Put
  <2> QED  BY <2>3, <2>4, <2>5 DEF CallGood, SingletonInv, RegisterStep, Reg!Step
<1> QED  BY <1>1, <1>2

\* erase() through an item of the row of the host: no item is left behind.
LEMMA EraseGood ==
    ASSUME SingletonInv, NEW i \in Insts, Insts = {i}, row # Absent,
           NEW s, s = seen \/ s = Loaded(i), Erase(i, gen, s)
    PROVE  CallGood
<1>1. CASE \E why : Abort(why)
  BY <1>1, AbortGood
<1>2. CASE ~\E why : Abort(why)
  <2>1. row' = Absent /\ ans' = Absent /\ UNCHANGED kept
    BY <1>2 DEF Erase
  <2>2. /\ seen' = [s EXCEPT ![i][gen] = Absent]
        /\ gen < MaxGen /\ gen' = gen + 1
    BY <1>2 DEF Erase
  <2>3. gen' \in Gens
    BY <2>2, ValuesAssumption DEF SingletonInv, RowTypes, Gens
  <2>4. RowTypes'
    BY <2>1, <2>2, <2>3 DEF SingletonInv, RowTypes, Rows, Loaded
  <2>5. \A g \in Gens : seen'[i][g] = Absent
    BY <2>2 DEF SingletonInv, RowTypes, ItemsCurrent, Loaded
  <2>6. ItemsCurrent'
    BY <2>5 DEF ItemsCurrent
  <2>7. Reg!Delete
    BY <2>1 DEF Reg!Delete
  <2> QED  BY <2>4, <2>6, <2>7 DEF CallGood, SingletonInv, RegisterStep, Reg!Step
<1> QED  BY <1>1, <1>2

-----------------------------------------------------------------------------
(* The member functions.                                                   *)

LEMMA SingletonInitGood == SingletonInit => SingletonInv /\ Reg!Start
<1>1. 0 \in Gens
  BY ValuesAssumption DEF Gens
<1> QED
  BY <1>1 DEF SingletonInit, SingletonInv, RowTypes, ItemsCurrent, NoItems, Rows, Reg!Start

LEMMA SingletonNextGood ==
    ASSUME SingletonInv, \A i, j \in Insts : i = j, [SingletonNext]_singletonVars
    PROVE  CallGood
<1>1. ASSUME NEW i \in Insts, NEW g \in Gens, Found(i, g),
             Answers(seen[i][g], seen)
      PROVE  CallGood
  BY <1>1, FoundIsRow, AnswerGood
<1>2. ASSUME NEW i \in Insts, Answers(row, Loaded(i))
      PROVE  CallGood
  BY <1>2, AnswerGood
<1>3. ASSUME NEW i \in Insts
      PROVE  Insts = {i}
  OBVIOUS
<1>4. ASSUME NEW i \in Insts, Exists(i)
      PROVE  CallGood
  BY <1>1, <1>2, <1>4 DEF Exists
<1>5. ASSUME NEW i \in Insts, Get(i)
      PROVE  CallGood
  BY <1>1, <1>2, <1>5, AbortGood DEF Get
<1>6. ASSUME NEW i \in Insts, Remove(i)
      PROVE  CallGood
  <2>1. ASSUME NEW g \in Gens, Found(i, g), Erase(i, g, seen)
        PROVE  CallGood
    BY <2>1, <1>3, FoundIsRow, EraseGood
  <2>2. ASSUME row # Absent, Erase(i, gen, Loaded(i))
        PROVE  CallGood
    BY <2>2, <1>3, EraseGood
  <2>3. ASSUME row = Absent, Answers(Absent, seen)
        PROVE  CallGood
    BY <2>3, AnswerGood
  <2> QED  BY <1>6, <2>1, <2>2, <2>3 DEF Remove
<1>7. ASSUME NEW i \in Insts, NEW v \in Values, Set(i, v)
      PROVE  CallGood
  <2>1. ASSUME NEW g \in Gens, Found(i, g), Modify(i, g, v, seen)
        PROVE  CallGood
    BY <2>1, <1>3, FoundIsRow, ModifyGood
  <2>2. ASSUME row # Absent, Modify(i, gen, v, Loaded(i))
        PROVE  CallGood
    BY <2>2, <1>3, ModifyGood
  <2>3. ASSUME row = Absent, Emplace(i, v, Absent)
        PROVE  CallGood
    BY <2>3, <1>3, EmplaceGood
  <2> QED  BY <1>7, <2>1, <2>2, <2>3 DEF Set
<1>8. ASSUME NEW i \in Insts, NEW v \in Values, GetOrCreate(i, v)
      PROVE  CallGood
  <2>1. ASSUME row = Absent, Emplace(i, v, v)
        PROVE  CallGood
    BY <2>1, <1>3, EmplaceGood
  <2> QED  BY <1>1, <1>2, <1>8, <2>1 DEF GetOrCreate
<1>9. ASSUME EndAction
      PROVE  CallGood
  <2>1. row' \in Rows /\ kept' \in Rows
    BY <1>9 DEF EndAction, SingletonInv, RowTypes
  <2>2. SingletonInv'
    BY <1>9, <2>1, FreshInv DEF EndAction
  <2>3. Reg!Commit
    BY <1>9 DEF EndAction, FreshObjects, Reg!Commit
  <2> QED  BY <2>2, <2>3 DEF CallGood, RegisterStep, Reg!Step
<1>10. ASSUME UNCHANGED singletonVars
       PROVE  CallGood
  BY <1>10 DEF singletonVars, CallGood, RegisterStep, SingletonInv, RowTypes, ItemsCurrent
<1> QED
  BY <1>4, <1>5, <1>6, <1>7, <1>8, <1>9, <1>10 DEF SingletonNext

\* While every table is used through one singleton object, what the object
\* has loaded is the row of the host: the answers find() gives without asking
\* the host are never stale.
THEOREM LoadedIsRow ==
    ASSUME \A i, j \in Insts : i = j
    PROVE  SingletonSpec => []ItemsCurrent
<1>1. SingletonInv /\ [SingletonNext]_singletonVars => SingletonInv'
  BY SingletonNextGood DEF CallGood
<1>2. SingletonInv => ItemsCurrent
  BY DEF SingletonInv
<1> QED  BY <1>1, <1>2, SingletonInitGood, PTL DEF SingletonSpec

\* A contract that uses one singleton object per table sees a register, for
\* every set of values and any number of removals within an action: set,
\* get_or_create and remove take effect at once, every read answers with the
\* last of them and an abort restores what the action began with.
THEOREM SingletonIsRegister ==
    ASSUME \A i, j \in Insts : i = j
    PROVE  SingletonSpec => ImplementsRegister
<1>1. SingletonInv /\ [SingletonNext]_singletonVars => SingletonInv' /\ [Reg!Step]_<<row, kept, ans>>
  BY SingletonNextGood DEF CallGood, RegisterStep
<1> QED
  BY <1>1, SingletonInitGood, PTL DEF SingletonSpec, ImplementsRegister, Reg!RegisterSpec
=============================================================================
