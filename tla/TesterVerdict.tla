---------------------------- MODULE TesterVerdict ----------------------------
(***************************************************************************)
(* What the tests of a program should come to, by the documentation of     *)
(* the macros (docs/05_features/40_native-tester-compilation.md): a CHECK  *)
(* that fails fails the test and lets it go on, a REQUIRE that fails halts *)
(* it, and an assert inside a function that is expected to assert goes no  *)
(* further than this expectation.                                          *)
(***************************************************************************)
EXTENDS Tester

CONSTANT
    Depth   \* how deep the statements inside a statement are nested

None == "none"

\* A statement is a finite text.
ASSUME DepthAssumption ==
    /\ Depth \in [Statements -> Nat]
    /\ \A st \in Statements : st.op \in {"test", "expect", "print"} =>
         \A i \in DOMAIN st.code : Depth[st.code[i]] < Depth[st]

\* main() runs tests; of the other statements it has asserts and
\* silence_output.  A test is not inside another one.
ASSUME FormAssumption ==
    /\ \A p \in Programs : \A i \in DOMAIN p : p[i].op \in {"test", "assert", "silence"}
    /\ \A st \in Statements :
         /\ st.op \in {"test", "assert", "equal", "expect", "print", "silence"}
         /\ st.op = "assert" => st.msg # None
         /\ st.op = "expect" => st.want # None
         /\ st.op \in {"equal", "expect", "print"} => st.must \in BOOLEAN
         /\ st.op \in {"equal", "print"} => st.ok \in BOOLEAN
         /\ st.op \in {"test", "expect", "print"} =>
              \A i \in DOMAIN st.code : st.code[i].op # "test"

-----------------------------------------------------------------------------

\* An outcome: the assert that leaves the statements, or None, and whether
\* some CHECK among them failed.
Passed == [assert |-> None, failed |-> FALSE]

Asserts(msg) == [assert |-> msg, failed |-> FALSE]

\* The outcome of a list, out being that of each statement: the statements run
\* up to the first one that asserts.
Listed(out, code) ==
    LET runs  == {i \in DOMAIN code : \A j \in 1 .. i - 1 : out[code[j]].assert = None}
        stops == {i \in runs : out[code[i]].assert # None}
    IN  [assert |-> IF stops = {} THEN None ELSE out[code[CHOOSE i \in stops : TRUE]].assert,
         failed |-> \E i \in runs : out[code[i]].failed]

\* A REQUIRE or a CHECK of something that is met or not.
Judged(st, met, msg, inner) ==
    [assert |-> IF st.must /\ ~met THEN msg ELSE None,
     failed |-> inner.failed \/ (~st.must /\ ~met)]

\* The outcome of a statement, inner being that of the code in it.
OutcomeOf(st, inner) ==
    CASE st.op = "assert" -> Asserts(st.msg)
      [] st.op = "equal"  -> Judged(st, st.ok, "not equal", Passed)
      [] st.op = "expect" ->
           Judged(st, inner.assert = st.want,
                  IF inner.assert = None THEN "no assert" ELSE "wrong assert", inner)
      [] st.op = "print"  ->
           IF inner.assert # None THEN inner ELSE Judged(st, st.ok, "wrong print", inner)
      [] OTHER            -> Passed

Outcome[st \in Statements] ==
    OutcomeOf(st, IF st.op \in {"expect", "print"} THEN Listed(Outcome, st.code) ELSE Passed)

TestFails(st) ==
    LET o == Listed(Outcome, st.code) IN o.failed \/ o.assert # None

\* main() asserts before any test.
EarlyAssert ==
    \E i \in DOMAIN prog :
      prog[i].op = "assert" /\ \A j \in 1 .. i - 1 : prog[j].op = "silence"

Verdict ==
    IF EarlyAssert THEN "-1"
    ELSE IF \E i \in DOMAIN prog : prog[i].op = "test" /\ TestFails(prog[i])
    THEN "1" ELSE "0"

\* The expectations in a statement, each as its level: 1, or 2 if it is inside
\* the function of another one, and so on.
Levels[st \in Statements] ==
    LET inner == IF st.op \in {"test", "expect", "print"}
                 THEN UNION {Levels[st.code[i]] : i \in DOMAIN st.code} ELSE {}
    IN  IF st.op = "expect" THEN {1} \cup {level + 1 : level \in inner} ELSE inner

Nested == \E i \in DOMAIN prog : 2 \in Levels[prog[i]]

\* main() asserts after it has run a test.  The jump leads back to where
\* that test failed, and main() comes to the same assert again.
LateAssert ==
    \E i, j \in DOMAIN prog : i < j /\ prog[i].op = "test" /\ prog[j].op = "assert"

-----------------------------------------------------------------------------

\* The program reports a failure exactly when one of its tests fails,
\* although every test starts with the flag cleared and may be left by a
\* jump; with nested expectations it may report one too many, as the inner
\* expect_assert takes the jump buffer of the outer one away, never one too
\* few.
VerdictExact ==
    \/ exit = "running"
    \/ exit = Verdict
    \/ Nested /\ exit = "1"

\* An assert is delivered to the innermost expectation that is running, if
\* there is one, and its frame is still on the stack; else to the test.
\* Nested expectations may miss theirs.
TargetIsRunning == TargetOnStack /\ (Open # {} => ptr = "test_env" \/ Nested)

\* Every program whose main() does not assert behind a test returns.
Terminates == LateAssert \/ <>(exit # "running")
=============================================================================
