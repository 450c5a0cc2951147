------------------------------ MODULE MCTester ------------------------------
(* Programs of two tests, the first with up to two statements.  m and n are *)
(* messages of the contract's asserts.                                      *)
EXTENDS TesterVerdict, Functions, FiniteSetsExt

A(m) == [op |-> "assert", msg |-> m]
Q(must, ok) == [op |-> "equal", must |-> must, ok |-> ok]
X(must, code) == [op |-> "expect", must |-> must, want |-> "m", code |-> code]
P(must, ok, code) == [op |-> "print", must |-> must, ok |-> ok, code |-> code]
T(code) == [op |-> "test", code |-> code]
S == [op |-> "silence", on |-> TRUE]

Bodies ==
    {<< >>, <<A("m")>>, <<A("n")>>, <<Q(TRUE, FALSE)>>,
     <<Q(FALSE, FALSE), A("m")>>, <<P(TRUE, FALSE, << >>)>>, <<S>>, <<S, A("n")>>}

Inner == {X(must, body) : must \in BOOLEAN, body \in Bodies}

Deep ==
    {X(must, <<x>> \o tail) :
       must \in BOOLEAN, x \in Inner, tail \in {<< >>, <<A("m")>>}}
      \cup {P(must, TRUE, <<x>>) : must \in BOOLEAN, x \in Inner}

Plain ==
    {A("m"), Q(TRUE, TRUE), Q(TRUE, FALSE), Q(FALSE, FALSE),
     S}
      \cup Inner
      \cup {P(must, ok, body) :
              must \in BOOLEAN, ok \in BOOLEAN, body \in {<< >>, <<A("m")>>}}

One == {<< >>} \cup {<<s>> : s \in Plain \cup Deep}

Two == {<<s, t>> : s, t \in Plain}

Second ==
    {T(<< >>), T(<<Q(FALSE, FALSE)>>), T(<<A("m")>>), T(<<X(TRUE, << >>)>>),
     T(<<X(FALSE, <<A("m")>>)>>), A("m")}

Tests == {T(c) : c \in One \cup Two} \cup Second

\* All of them, and what occurs in their code.
MCStatements ==
    Tests \cup Plain \cup Deep \cup UNION {Range(body) : body \in Bodies}

MCPrograms ==
    {<<x, y>> : x \in {T(c) : c \in One \cup Two} \cup {A("m"), S}, y \in Second}
      \cup {<<T(<<A("m")>>), S, y>> : y \in Second}

RECURSIVE DepthOf(_)
DepthOf(st) ==
    IF st.op \in {"test", "expect", "print"} /\ st.code # << >>
    THEN 1 + Max({DepthOf(inner) : inner \in Range(st.code)}) ELSE 0

MCDepth == [st \in MCStatements |-> DepthOf(st)]
=============================================================================
