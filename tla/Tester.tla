------------------------------- MODULE Tester -------------------------------
(***************************************************************************)
(* Unit tests of contracts built natively (libraries/native: tester.hpp,   *)
(* crt.cpp, the asserts of intrinsics.cpp).  main() runs tests; a failed   *)
(* assert of the contract, or a failed REQUIRE, jumps with longjmp to the  *)
(* buffer ___env_ptr points to: env, set by _wrap_main and then by every   *)
(* EOSIO_TEST, or test_env, set by the expect_assert that runs a function  *)
(* which is expected to assert.                                            *)
(*                                                                         *)
(* The program is data: a list of statements, chosen at the start, that    *)
(* the actions execute one by one on a stack of calls.  Messages are       *)
(* members of a small set; how verdicts are printed is left out.           *)
(***************************************************************************)
EXTENDS Naturals, Sequences

CONSTANTS
    Programs,    \* what main() may be, as lists of statements
    Statements   \* the statements in them

\* The statements, each a record with the field op:
\*   test    code          EOSIO_TEST of a test with this code, in main()
\*   assert  msg           the contract, or main(), fails an eosio::check
\*   equal   must, ok      REQUIRE_EQUAL if must, else CHECK_EQUAL
\*   expect  must, want, code   REQUIRE_ASSERT or CHECK_ASSERT of the message
\*   print   must, ok, code     REQUIRE_PRINT or CHECK_PRINT
\*   silence on            silence_output
ASSUME ProgramsAssumption ==
    /\ Programs \subseteq Seq(Statements)
    /\ \A st \in Statements :
         /\ st.op \in {"test", "expect", "print"} => st.code \in Seq(Statements)
         /\ st.op = "silence" => st.on \in BOOLEAN

VARIABLES
    prog,     \* the statements of main()
    stack,    \* the active calls, [by |-> statement, code |-> what is left,
              \* caught |-> whether its setjmp returned by a jump,
              \* quiet |-> ___disable_output when it began]
    ptr,      \* ___env_ptr: "env" or "test_env"
    env,      \* where env leads: "wrap" or what is left of main()
    testenv,  \* where test_env leads: a position in the stack
    failed,   \* ___has_failed
    earlier,  \* ___earlier_unit_test_has_failed
    quiet,    \* ___disable_output
    err,      \* std_err: the messages in it
    exit      \* "running", or what _wrap_main returned: 0, 1 or -1

vars == <<prog, stack, ptr, env, testenv, failed, earlier, quiet, err, exit>>

Call(by, code) == [by |-> by, code |-> code, caught |-> FALSE, quiet |-> quiet]

Main == [op |-> "main"]

Wrap == <<"wrap">>

Init ==
    /\ prog \in Programs
    /\ quiet \in BOOLEAN
    /\ stack = <<Call(Main, prog)>>
    /\ ptr = "env" /\ env = Wrap /\ testenv = 0
    /\ failed = FALSE /\ earlier = FALSE
    /\ err = << >>
    /\ exit = "running"

Top == stack[Len(stack)]

Under == SubSeq(stack, 1, Len(stack) - 1)

\* The statement that is next.
Upcoming ==
    IF exit = "running" /\ ~Top.caught /\ Top.code # << >> THEN {Head(Top.code)} ELSE {}

\* The call that runs for a statement op is about to return.
Ends(op) ==
    /\ exit = "running"
    /\ ~Top.caught /\ Top.code = << >> /\ Top.by.op = op

Advanced == [stack EXCEPT ![Len(stack)].code = Tail(@)]

\* std_err with a message more.  Only an expect_assert looks at it, for one
\* message: longer contents are all alike.
Put(messages, msg) == IF messages = << >> THEN <<msg>> ELSE <<"several", "messages">>

-----------------------------------------------------------------------------

\* eosio_assert with a false condition: the message goes to std_err and
\* longjmp to the buffer "to" cuts the stack back.  In main() the jump leads
\* into the else branch of the last EOSIO_TEST, in _wrap_main to its end.
Longjmp(to, messages, msg) ==
    /\ err' = Put(messages, msg)
    /\ \/ /\ to = "test_env"
          /\ stack' = [SubSeq(stack, 1, testenv) EXCEPT ![testenv].caught = TRUE]
          /\ UNCHANGED <<failed, exit>>
       \/ /\ to = "env" /\ env = Wrap
          /\ exit' = "-1"
          /\ UNCHANGED <<stack, failed>>
       \/ /\ to = "env" /\ env # Wrap
          /\ stack' = <<Call(Main, Tail(env))>>
          /\ failed' = TRUE
          /\ UNCHANGED exit

BeginRestartsOnAbort(st) ==
    /\ st.op = "test"
    /\ env' = <<"test">> \o Top.code
    /\ stack' = Append(Advanced, Call(st, st.code))
    /\ earlier' = failed
    /\ failed' = FALSE
    /\ UNCHANGED <<prog, ptr, testenv, quiet, err, exit>>

\* EOSIO_TEST and EOSIO_TEST_BEGIN.
Begin(st) ==
    /\ st.op = "test"
    /\ env' = <<"test">> \o Tail(Top.code)
    /\ stack' = Append(Advanced, Call(st, st.code))
    /\ earlier' = failed
    /\ failed' = FALSE
    /\ UNCHANGED <<prog, ptr, testenv, quiet, err, exit>>

EndForgetsEarlier ==
    /\ Ends("test")
    /\ stack' = Under
    /\ earlier' = failed
    /\ UNCHANGED <<prog, ptr, env, testenv, failed, quiet, err, exit>>

\* EOSIO_TEST_END: the verdict of the earlier tests is not forgotten.
End ==
    /\ Ends("test")
    /\ stack' = Under
    /\ failed' = (failed \/ earlier)
    /\ earlier' = failed'
    /\ UNCHANGED <<prog, ptr, env, testenv, quiet, err, exit>>

Assert(st) ==
    /\ st.op = "assert"
    /\ Longjmp(ptr, err, st.msg)
    /\ UNCHANGED <<prog, ptr, env, testenv, earlier, quiet>>

\* CHECK_EQUAL sets the flag and goes on, REQUIRE_EQUAL is an assert.
Equal(st) ==
    /\ st.op = "equal"
    /\ \/ /\ st.ok
          /\ stack' = Advanced
          /\ UNCHANGED <<failed, err, exit>>
       \/ /\ ~st.ok /\ ~st.must
          /\ stack' = Advanced
          /\ failed' = TRUE
          /\ UNCHANGED <<err, exit>>
       \/ /\ ~st.ok /\ st.must
          /\ Longjmp(ptr, err, "not equal")
    /\ UNCHANGED <<prog, ptr, env, testenv, earlier, quiet>>

SilenceOutput(st) ==
    /\ st.op = "silence"
    /\ quiet' = st.on
    /\ stack' = Advanced
    /\ UNCHANGED <<prog, ptr, env, testenv, failed, earlier, err, exit>>

-----------------------------------------------------------------------------
(* expect_assert.                                                          *)

\* The function begins to run.
Expect(st) ==
    /\ st.op = "expect"
    /\ err' = << >>
    /\ ptr' = "test_env"
    /\ testenv' = Len(stack) + 1
    /\ stack' = Append(Advanced, Call(st, st.code))
    /\ UNCHANGED <<prog, env, failed, earlier, quiet, exit>>

UnmetUnsilences(must, disable_out, messages, msg) ==
    \/ /\ ~must
       /\ failed' = TRUE
       /\ stack' = Under
       /\ err' = messages
       /\ quiet' = FALSE
       /\ UNCHANGED exit
    \/ /\ must
       /\ quiet' = FALSE
       /\ Longjmp(ptr', messages, msg)

\* A failed expectation: CHECK sets the flag and puts disable_out, what it
\* read of ___disable_output, back; REQUIRE asserts, with the output no longer
\* silenced.
Unmet(must, disable_out, messages, msg) ==
    \/ /\ ~must
       /\ failed' = TRUE
       /\ stack' = Under
       /\ err' = messages
       /\ quiet' = disable_out
       /\ UNCHANGED exit
    \/ /\ must
       /\ quiet' = FALSE
       /\ Longjmp(ptr', messages, msg)

\* The function returned without an assert.  disable_out was read before it
\* began.
NoAssert ==
    /\ Ends("expect")
    /\ ptr' = "env"
    /\ Unmet(Top.by.must, Top.quiet, err, "no assert")
    /\ UNCHANGED <<prog, env, testenv, earlier>>

CaughtKeepsEnv ==
    /\ exit = "running" /\ Top.caught
    /\ UNCHANGED ptr
    /\ \/ /\ err = <<Top.by.want>>
          /\ stack' = Under /\ err' = << >>
          /\ UNCHANGED <<failed, quiet, exit>>
       \/ /\ err # <<Top.by.want>>
          /\ Unmet(Top.by.must, quiet, << >>, "wrong assert")
    /\ UNCHANGED <<prog, env, testenv, earlier>>

\* It asserted: is std_err what the test wants?  disable_out is read again
\* when setjmp returns by the jump.
Caught ==
    /\ exit = "running" /\ Top.caught
    /\ ptr' = "env"
    /\ \/ /\ err = <<Top.by.want>>
          /\ stack' = Under /\ err' = << >>
          /\ UNCHANGED <<failed, quiet, exit>>
       \/ /\ err # <<Top.by.want>>
          /\ Unmet(Top.by.must, quiet, << >>, "wrong assert")
    /\ UNCHANGED <<prog, env, testenv, earlier>>

-----------------------------------------------------------------------------
(* expect_print: the function runs with the buffers as they are.           *)

ExpectPrint(st) ==
    /\ st.op = "print"
    /\ stack' = Append(Advanced, Call(st, st.code))
    /\ UNCHANGED <<prog, ptr, env, testenv, failed, earlier, quiet, err, exit>>

Printed ==
    /\ Ends("print")
    /\ UNCHANGED ptr
    /\ \/ /\ Top.by.ok
          /\ stack' = Under
          /\ UNCHANGED <<failed, quiet, err, exit>>
       \/ /\ ~Top.by.ok
          /\ Unmet(Top.by.must, quiet, err, "wrong print")
    /\ UNCHANGED <<prog, env, testenv, earlier>>

\* main() returns has_failed().
Return ==
    /\ Ends("main")
    /\ exit' = IF failed THEN "1" ELSE "0"
    /\ UNCHANGED <<prog, stack, ptr, env, testenv, failed, earlier, quiet, err>>

Statement(st) ==
    Begin(st) \/ Assert(st) \/ Equal(st) \/ SilenceOutput(st)
      \/ Expect(st) \/ ExpectPrint(st)

Next ==
    \/ \E st \in Upcoming : Statement(st)
    \/ End \/ NoAssert \/ Caught \/ Printed \/ Return

\* A program runs on its own until it returns.
Spec == Init /\ [][Next]_vars /\ WF_vars(Next)

-----------------------------------------------------------------------------

\* The expectations that are running.
Open == {i \in DOMAIN stack : stack[i].by.op = "expect"}

\* The frame that test_env jumps to is on the stack while ___env_ptr leads to
\* it, and it is the innermost expectation.
TargetOnStack == ptr = "test_env" => testenv \in Open /\ \A i \in Open : i <= testenv

\* The macros switch the output on for their own messages and back.  Apart
\* from silence_output itself, a failed REQUIRE_ASSERT or REQUIRE_PRINT, which
\* jumps away in between, leaves it switched on; and a CHECK_ASSERT of a
\* function that does not assert leaves it as it was before the function ran,
\* whatever silence_output the function called.
SilenceExplained ==
    [][/\ quiet' # quiet =>
            \/ Top.code # << >> /\ Head(Top.code).op = "silence"
            \/ Top.by.op \in {"expect", "print"} /\ Top.by.must
            \/ Ends("expect") /\ quiet' = Top.quiet
       /\ Ends("expect") /\ ~Top.by.must => quiet' = Top.quiet]_vars
=============================================================================
