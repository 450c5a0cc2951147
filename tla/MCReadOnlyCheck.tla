-------------------------- MODULE MCReadOnlyCheck --------------------------
(* Units with a host function w that writes, methods f and g and the        *)
(* read-only action a, which call one another, one pointer, and a further   *)
(* declaration d: of a function of another unit, of g above its definition, *)
(* or the definition of the action outside the class.                       *)
EXTENDS ReadOnlyCheck

Calls(fs) == {[op |-> "call", fn |-> h] : h \in fs}
Sets(op, fs) == {[op |-> op, var |-> "v", fn |-> h] : h \in fs}
Through == [op |-> "indirect", var |-> "v"]
Nested == [op |-> "nested", fn |-> "w"]

UpTo(n, S) == UNION {[1 .. k -> S] : k \in 0 .. n}

StatementsOfF == Calls({"g", "a", "w"}) \cup Sets("assign", {"w"}) \cup {Through}
BodiesOfF == UpTo(2, StatementsOfF)
BodiesOfG == UpTo(1, Calls({"f", "w"}) \cup Sets("assign", {"f"}) \cup {Nested})
BodiesOfA == UpTo(2, Calls({"f", "g"}) \cup Sets("init", {"w"})
                       \cup Sets("assign", {"f", "d"}) \cup {Through})

Fn(h) == [fn |-> h]
W == <<[var |-> "v", fn |-> "w"]>>
Orders == {<<Fn("f"), Fn("a"), Fn("g")>>, W \o <<Fn("f"), Fn("a"), Fn("g")>>,
           <<Fn("a"), Fn("g"), Fn("f")>>}

Same == [h \in Functions |-> h]

Unit(o, bf, bg, ba, bd, definition) ==
    [decls |-> <<Fn("w")>> \o o,
     body  |-> [w |-> << >>, f |-> bf, g |-> bg, a |-> ba, d |-> bd],
     definition |-> definition]

\* The statements bs where calls of g resolve to d.
Resolved(bs) ==
    << >> \o [i \in DOMAIN bs |-> IF bs[i] = [op |-> "call", fn |-> "g"]
                                  THEN [op |-> "call", fn |-> "d"] ELSE bs[i]]

HelperBelow(bf, bg, ba) ==
    Unit(<<Fn("d"), Fn("f"), Fn("a"), Fn("g")>>, Resolved(bf), bg, Resolved(ba), << >>,
         [Same EXCEPT !["d"] = "g"])

ActionBelow(bf, bg, ba) ==
    Unit(<<Fn("a"), Fn("f"), Fn("g"), Fn("d")>>, bf, bg, << >>, ba, [Same EXCEPT !["a"] = "d"])

MCUnits ==
    {Unit(<<Fn("d")>> \o o, bf, bg, ba, << >>, Same) :
       o \in Orders, bf \in BodiesOfF, bg \in BodiesOfG, ba \in BodiesOfA}
      \cup {HelperBelow(bf, bg, ba) :
              bf \in UpTo(1, StatementsOfF), bg \in BodiesOfG, ba \in BodiesOfA}
      \cup {ActionBelow(bf, bg, ba) :
              bf \in UpTo(1, StatementsOfF), bg \in BodiesOfG, ba \in BodiesOfA}
=============================================================================
