---------------------------- MODULE TesterProofs ----------------------------
(***************************************************************************)
(* The jumps of the unit tester, its silenced output and its verdict, for  *)
(* every program of tests.                                                 *)
(*                                                                         *)
(* JumpInv is about the stack and the buffers only.  VerdictInv relates    *)
(* the state of a test that is running to the verdict that TesterVerdict   *)
(* defines by recursion on its statements: View(i) is what will leave the  *)
(* i-th call of the stack, computed from what is left of its code and from *)
(* what will leave the call above it; the flag ___has_failed, together     *)
(* with what is still to fail, is the verdict of the test (Carries).  A    *)
(* step moves a failure from what is to come to the flag, or an assert     *)
(* from the call that raised it to the one whose setjmp returns.           *)
(***************************************************************************)
EXTENDS TesterVerdict, SequenceTheorems, NaturalsInduction, WellFoundedInduction, TLAPS

Frames ==
    [by : Statements \cup {Main}, code : Seq(Statements), caught : BOOLEAN, quiet : BOOLEAN]

Types ==
    /\ stack \in Seq(Frames) /\ stack # << >>
    /\ env # Wrap => Tail(env) \in Seq(Statements)
    /\ ptr \in {"env", "test_env"}
    /\ quiet \in BOOLEAN

\* The first call is that of main().
RootIsMain == stack[1].by.op = "main"

\* Only an expectation is left by a jump to test_env.
CaughtExpects == \A i \in DOMAIN stack : stack[i].caught => stack[i].by.op = "expect"

JumpInv == Types /\ RootIsMain /\ CaughtExpects /\ TargetOnStack

-----------------------------------------------------------------------------
(* The stack.                                                              *)

LEMMA StackFacts ==
    ASSUME Types
    PROVE  /\ Len(stack) \in Nat /\ Len(stack) >= 1 /\ DOMAIN stack = 1 .. Len(stack)
           /\ \A i \in 1 .. Len(stack) : stack[i] \in Frames
           /\ Top \in Frames /\ Top.code \in Seq(Statements)
<1>1. Len(stack) \in Nat /\ Len(stack) >= 1 /\ DOMAIN stack = 1 .. Len(stack)
  BY EmptySeq, LenProperties DEF Types
<1>2. \A i \in 1 .. Len(stack) : stack[i] \in Frames
  BY LenProperties DEF Types
<1>3. Top \in Frames
  BY <1>1, <1>2 DEF Top
<1>. QED
  BY <1>1, <1>2, <1>3 DEF Frames

\* A stack with the same calls in the same places, none of them newly caught.
Alike(s) ==
    /\ s \in Seq(Frames) /\ Len(s) = Len(stack)
    /\ \A i \in 1 .. Len(stack) : s[i].by = stack[i].by /\ s[i].caught = stack[i].caught

LEMMA AdvancedAlike ==
    ASSUME Types, Top.code # << >>
    PROVE  Alike(Advanced)
<1>1. Len(stack) \in Nat /\ Len(stack) \in 1 .. Len(stack) /\ Top \in Frames
      /\ Tail(Top.code) \in Seq(Statements)
  BY StackFacts, HeadTailProperties
<1>. DEFINE e == [Top EXCEPT !.code = Tail(Top.code)]
<1>2. e \in Frames /\ e.by = Top.by /\ e.caught = Top.caught
  <2>1. ASSUME NEW c \in Seq(Statements)
        PROVE  /\ [Top EXCEPT !.code = c] \in Frames
               /\ [Top EXCEPT !.code = c].by = Top.by /\ [Top EXCEPT !.code = c].caught = Top.caught
    BY <1>1 DEF Frames
  <2>. QED
    BY <1>1, <2>1
<1>3. Advanced = [stack EXCEPT ![Len(stack)] = e]
  BY DEF Advanced, Top
<1>. HIDE DEF e
<1>4. /\ Advanced \in Seq(Frames) /\ Len(Advanced) = Len(stack)
      /\ \A j \in 1 .. Len(stack) : Advanced[j] = IF j = Len(stack) THEN e ELSE stack[j]
  BY <1>1, <1>2, <1>3, ExceptSeq DEF Types
<1>. QED
  BY <1>1, <1>2, <1>4 DEF Alike, Top

\* A stack with one call more.
More(s, by) ==
    /\ s \in Seq(Frames) /\ Len(s) = Len(stack) + 1
    /\ \A i \in 1 .. Len(stack) : s[i].by = stack[i].by /\ s[i].caught = stack[i].caught
    /\ s[Len(stack) + 1].by = by /\ s[Len(stack) + 1].caught = FALSE

LEMMA CallPushed ==
    ASSUME Types, Top.code # << >>, NEW st \in Statements, st.code \in Seq(Statements)
    PROVE  More(Append(Advanced, Call(st, st.code)), st)
<1>1. Call(st, st.code) \in Frames
  BY DEF Call, Frames, Types
<1>2. Call(st, st.code).by = st /\ Call(st, st.code).caught = FALSE
  BY DEF Call
<1>3. Alike(Advanced)
  BY AdvancedAlike
<1>4. /\ Append(Advanced, Call(st, st.code)) \in Seq(Frames)
      /\ Len(Append(Advanced, Call(st, st.code))) = Len(Advanced) + 1
      /\ \A i \in 1 .. Len(Advanced) : Append(Advanced, Call(st, st.code))[i] = Advanced[i]
      /\ Append(Advanced, Call(st, st.code))[Len(Advanced) + 1] = Call(st, st.code)
  BY <1>1, <1>3, AppendProperties DEF Alike
<1>. QED
  BY <1>2, <1>3, <1>4 DEF Alike, More

\* The first n calls of the stack, the last of them perhaps caught.
Cut(s, n) ==
    /\ s \in Seq(Frames) /\ Len(s) = n
    /\ \A i \in 1 .. n : s[i].by = stack[i].by /\ (i # n => s[i].caught = stack[i].caught)

LEMMA PrefixCut ==
    ASSUME Types, NEW n \in 1 .. Len(stack)
    PROVE  /\ Cut(SubSeq(stack, 1, n), n)
           /\ \A i \in 1 .. n : SubSeq(stack, 1, n)[i] = stack[i]
<1>1. /\ Len(stack) \in Nat /\ n \in Nat /\ n >= 1 /\ 1 \in Int /\ n \in Int
      /\ \A i \in 1 .. n : stack[i] \in Frames
  BY StackFacts
<1>2. /\ SubSeq(stack, 1, n) \in Seq(Frames)
      /\ Len(SubSeq(stack, 1, n)) = IF 1 <= n THEN n - 1 + 1 ELSE 0
      /\ \A i \in 1 .. n - 1 + 1 : SubSeq(stack, 1, n)[i] = stack[1 + i - 1]
  BY <1>1, SubSeqProperties
<1>3. Len(SubSeq(stack, 1, n)) = n /\ \A i \in 1 .. n : SubSeq(stack, 1, n)[i] = stack[i]
  BY <1>1, <1>2
<1>. QED
  BY <1>2, <1>3 DEF Cut

LEMMA JumpCut ==
    ASSUME Types, NEW n \in 1 .. Len(stack)
    PROVE  Cut([SubSeq(stack, 1, n) EXCEPT ![n].caught = TRUE], n)
<1>. DEFINE s == SubSeq(stack, 1, n)
            e == [stack[n] EXCEPT !.caught = TRUE]
<1>1. s \in Seq(Frames) /\ Len(s) = n /\ n \in 1 .. n /\ \A i \in 1 .. n : s[i] = stack[i]
  BY PrefixCut, StackFacts DEF Cut
<1>2. stack[n] \in Frames
  BY StackFacts
<1>3. e \in Frames /\ e.by = stack[n].by
  BY <1>2 DEF Frames
<1>4. [s EXCEPT ![n].caught = TRUE] = [s EXCEPT ![n] = e]
  BY <1>1
<1>. HIDE DEF e, s
<1>5. /\ [s EXCEPT ![n] = e] \in Seq(Frames) /\ Len([s EXCEPT ![n] = e]) = n
      /\ \A i \in 1 .. n : [s EXCEPT ![n] = e][i] = IF i = n THEN e ELSE s[i]
  BY <1>1, <1>3, ExceptSeq
<1>6. Cut([s EXCEPT ![n] = e], n)
  BY <1>1, <1>3, <1>5 DEF Cut
<1>. QED
  BY <1>4, <1>6 DEF s

-----------------------------------------------------------------------------
(* What keeps the invariant.                                               *)

LEMMA AlikeKeeps ==
    ASSUME JumpInv, Alike(stack'), UNCHANGED <<ptr, env, testenv>>, quiet' \in BOOLEAN
    PROVE  JumpInv'
<1>1. /\ Len(stack) \in Nat /\ Len(stack) >= 1 /\ DOMAIN stack = 1 .. Len(stack)
      /\ stack' \in Seq(Frames) /\ Len(stack') = Len(stack)
      /\ \A i \in 1 .. Len(stack) : stack'[i].by = stack[i].by /\ stack'[i].caught = stack[i].caught
  BY StackFacts DEF JumpInv, Alike
<1>2. stack' # << >> /\ DOMAIN stack' = 1 .. Len(stack)
  BY <1>1, EmptySeq, LenProperties
<1>3. Types'
  BY <1>1, <1>2 DEF JumpInv, Types
<1>4. RootIsMain' /\ CaughtExpects'
  BY <1>1, <1>2 DEF JumpInv, RootIsMain, CaughtExpects
<1>5. Open' = Open
  BY <1>1, <1>2 DEF Open
<1>. QED
  BY <1>3, <1>4, <1>5 DEF JumpInv, TargetOnStack

LEMMA MoreKeeps ==
    ASSUME JumpInv, NEW st, More(stack', st), Types',
           \/ st.op = "expect" /\ testenv' = Len(stack) + 1
           \/ st.op # "expect" /\ UNCHANGED <<ptr, testenv>>
    PROVE  JumpInv'
<1>1. /\ Len(stack) \in Nat /\ Len(stack) >= 1 /\ DOMAIN stack = 1 .. Len(stack)
      /\ stack' \in Seq(Frames) /\ Len(stack') = Len(stack) + 1
      /\ \A i \in 1 .. Len(stack) : stack'[i].by = stack[i].by /\ stack'[i].caught = stack[i].caught
      /\ stack'[Len(stack) + 1].by = st /\ stack'[Len(stack) + 1].caught = FALSE
  BY StackFacts DEF JumpInv, More
<1>2. DOMAIN stack' = 1 .. Len(stack) + 1
  BY <1>1, LenProperties
<1>3. RootIsMain'
  BY <1>1 DEF JumpInv, RootIsMain
<1>4. CaughtExpects'
  BY <1>1, <1>2 DEF JumpInv, CaughtExpects
<1>5. Open' = IF st.op = "expect" THEN Open \cup {Len(stack) + 1} ELSE Open
  <2>1. \A i \in 1 .. Len(stack) + 1 : i \in 1 .. Len(stack) \/ i = Len(stack) + 1
    BY <1>1
  <2>2. \A i \in 1 .. Len(stack) : i \in Open' <=> i \in Open
    <3>1. \A i \in 1 .. Len(stack) : i \in 1 .. Len(stack) + 1
      BY <1>1
    <3>. QED
      BY <1>1, <1>2, <3>1 DEF Open
  <2>3. Len(stack) + 1 \in Open' <=> st.op = "expect"
    BY <1>1, <1>2 DEF Open
  <2>4. Open \subseteq 1 .. Len(stack) /\ Open' \subseteq 1 .. Len(stack) + 1
    BY <1>1, <1>2 DEF Open
  <2>5. CASE st.op = "expect"
    <3>1. Open' = Open \cup {Len(stack) + 1}
      BY <2>1, <2>2, <2>3, <2>4, <2>5
    <3>. QED
      BY <2>5, <3>1
  <2>6. CASE st.op # "expect"
    <3>1. Open' = Open
      BY <2>1, <2>2, <2>3, <2>4, <2>6
    <3>. QED
      BY <2>6, <3>1
  <2>. QED
    BY <2>5, <2>6
<1>6. Open \subseteq 1 .. Len(stack)
  BY <1>1 DEF Open
<1>7. TargetOnStack'
  BY <1>1, <1>5, <1>6 DEF JumpInv, TargetOnStack
<1>. QED
  BY <1>3, <1>4, <1>7 DEF JumpInv

\* The frames behind n are gone: a return, or a jump to the n-th.
LEMMA CutKeeps ==
    ASSUME JumpInv, NEW n \in 1 .. Len(stack), Cut(stack', n), UNCHANGED <<env, testenv>>,
           quiet' \in BOOLEAN,
           stack'[n].caught => stack[n].by.op = "expect",
           ptr' = "env" \/ (ptr' = ptr /\ \A i \in Open : i <= n)
    PROVE  JumpInv'
<1>1. /\ Len(stack) \in Nat /\ DOMAIN stack = 1 .. Len(stack) /\ n \in Nat /\ n >= 1
      /\ stack' \in Seq(Frames) /\ Len(stack') = n
      /\ \A i \in 1 .. n : stack'[i].by = stack[i].by /\ (i # n => stack'[i].caught = stack[i].caught)
      /\ \A i \in 1 .. n : i \in 1 .. Len(stack)
  BY StackFacts DEF JumpInv, Cut
<1>2. stack' # << >> /\ DOMAIN stack' = 1 .. n
  BY <1>1, EmptySeq, LenProperties
<1>3. Types'
  BY <1>1, <1>2 DEF JumpInv, Types
<1>4. RootIsMain'
  BY <1>1 DEF JumpInv, RootIsMain
<1>5. CaughtExpects'
  <2>. SUFFICES ASSUME NEW i \in 1 .. n, stack'[i].caught
                PROVE  stack'[i].by.op = "expect"
    BY <1>2 DEF CaughtExpects
  <2>. QED
    BY <1>1 DEF JumpInv, CaughtExpects
<1>6. Open' = Open \cap (1 .. n)
  BY <1>1, <1>2 DEF Open
<1>7. TargetOnStack'
  <2>1. ASSUME ptr' = "test_env"
        PROVE  ptr = "test_env" /\ \A i \in Open : i <= n
    BY <2>1
  <2>2. Open \subseteq 1 .. Len(stack)
    BY <1>1 DEF Open
  <2>3. ASSUME ptr' = "test_env"
        PROVE  testenv \in Open' /\ \A i \in Open' : i <= testenv
    <3>1. testenv \in Open /\ \A i \in Open : i <= testenv
      BY <2>1, <2>3 DEF JumpInv, TargetOnStack
    <3>2. testenv \in 1 .. n
      BY <1>1, <2>1, <2>2, <2>3, <3>1
    <3>. QED
      BY <1>6, <3>1, <3>2
  <2>. QED
    BY <2>3 DEF TargetOnStack
<1>. QED
  BY <1>3, <1>4, <1>5, <1>7 DEF JumpInv

LEMMA ReturnKeeps ==
    ASSUME JumpInv, stack' = Under, UNCHANGED <<env, testenv>>, Top.by.op # "main",
           quiet' \in BOOLEAN,
           ptr' = "env" \/ (ptr' = ptr /\ Top.by.op # "expect")
    PROVE  JumpInv'
<1>1. Len(stack) \in Nat /\ Len(stack) >= 1 /\ DOMAIN stack = 1 .. Len(stack)
  BY StackFacts DEF JumpInv
<1>2. Len(stack) # 1
  BY DEF JumpInv, RootIsMain, Top
<1>. DEFINE n == Len(stack) - 1
<1>3. n \in 1 .. Len(stack) /\ n \in Nat /\ Len(stack) = n + 1
  BY <1>1, <1>2
<1>. HIDE DEF n
<1>4. stack' = SubSeq(stack, 1, n)
  BY DEF Under, n
<1>5. Cut(stack', n) /\ stack'[n] = stack[n]
  BY <1>3, <1>4, PrefixCut DEF JumpInv
<1>6. stack'[n].caught => stack[n].by.op = "expect"
  BY <1>1, <1>3, <1>5 DEF JumpInv, CaughtExpects
<1>7. Top.by.op # "expect" => \A i \in Open : i <= n
  BY <1>1, <1>3 DEF Open, Top
<1>. QED
  BY <1>3, <1>5, <1>6, <1>7, CutKeeps

LEMMA JumpKeeps ==
    ASSUME JumpInv, NEW messages, NEW msg, Longjmp(ptr', messages, msg), UNCHANGED <<env, testenv>>,
           ptr' \in {ptr, "env"}, quiet' \in BOOLEAN
    PROVE  JumpInv'
<1>1. CASE ptr' = "test_env"
  <2>1. /\ ptr = "test_env" /\ testenv \in Open /\ (\A i \in Open : i <= testenv)
        /\ stack' = [SubSeq(stack, 1, testenv) EXCEPT ![testenv].caught = TRUE]
    BY <1>1 DEF Longjmp, JumpInv, TargetOnStack
  <2>2. testenv \in 1 .. Len(stack) /\ stack[testenv].by.op = "expect"
    BY <2>1, StackFacts DEF Open, JumpInv
  <2>3. Cut(stack', testenv)
    BY <2>1, <2>2, JumpCut DEF JumpInv
  <2>. QED
    BY <1>1, <2>1, <2>2, <2>3, CutKeeps
<1>2. CASE ptr' = "env" /\ env = Wrap
  <2>1. stack' = stack
    BY <1>2 DEF Longjmp
  <2>2. Types' /\ RootIsMain' /\ CaughtExpects'
    BY <1>2, <2>1 DEF JumpInv, Types, RootIsMain, CaughtExpects
  <2>. QED
    BY <1>2, <2>2 DEF JumpInv, TargetOnStack
<1>3. CASE ptr' = "env" /\ env # Wrap
  <2>1. stack' = <<Call(Main, Tail(env))>> /\ Tail(env) \in Seq(Statements)
    BY <1>3 DEF Longjmp, JumpInv, Types
  <2>2. Call(Main, Tail(env)) \in Frames
    BY <2>1 DEF Call, Frames, JumpInv, Types
  <2>3. Call(Main, Tail(env)).by = Main /\ Call(Main, Tail(env)).caught = FALSE
    BY DEF Call
  <2>4. stack' \in Seq(Frames) /\ stack' # << >> /\ Len(stack') = 1
        /\ stack'[1] = Call(Main, Tail(env)) /\ DOMAIN stack' = 1 .. 1
    BY <2>1, <2>2
  <2>5. Types'
    BY <1>3, <2>4 DEF JumpInv, Types
  <2>6. RootIsMain' /\ CaughtExpects'
    BY <2>3, <2>4 DEF RootIsMain, CaughtExpects, Main
  <2>. QED
    BY <1>3, <2>5, <2>6 DEF JumpInv, TargetOnStack
<1>. QED
  BY <1>1, <1>2, <1>3 DEF JumpInv, Types

LEMMA UnmetKeeps ==
    ASSUME JumpInv, NEW must, NEW out \in BOOLEAN, NEW messages, NEW msg,
           Unmet(must, out, messages, msg),
           UNCHANGED <<env, testenv>>, Top.by.op # "main",
           ptr' = "env" \/ (ptr' = ptr /\ Top.by.op # "expect")
    PROVE  JumpInv'
<1>1. quiet' \in BOOLEAN
  BY DEF Unmet
<1>2. CASE Longjmp(ptr', messages, msg)
  BY <1>1, <1>2, JumpKeeps
<1>3. CASE stack' = Under
  BY <1>1, <1>3, ReturnKeeps
<1>. QED
  BY <1>2, <1>3 DEF Unmet

-----------------------------------------------------------------------------

LEMMA JumpStarts ==
    ASSUME Init
    PROVE  JumpInv
<1>1. /\ stack = <<Call(Main, prog)>> /\ prog \in Seq(Statements) /\ ptr = "env" /\ env = Wrap
      /\ quiet \in BOOLEAN
  BY ProgramsAssumption DEF Init
<1>2. Call(Main, prog) \in Frames
  BY <1>1 DEF Call, Frames
<1>3. Call(Main, prog).by = Main /\ Call(Main, prog).caught = FALSE
  BY DEF Call
<1>4. /\ stack \in Seq(Frames) /\ stack # << >> /\ stack[1] = Call(Main, prog)
      /\ DOMAIN stack = 1 .. 1
  BY <1>1, <1>2
<1>. QED
  BY <1>1, <1>3, <1>4 DEF JumpInv, Types, RootIsMain, CaughtExpects, TargetOnStack, Main

LEMMA StatementKeeps ==
    ASSUME JumpInv, NEW st \in Upcoming, Statement(st)
    PROVE  JumpInv'
<1>1. Types /\ ~Top.caught /\ Top.code # << >> /\ st = Head(Top.code)
  BY DEF JumpInv, Upcoming
<1>2. st \in Statements /\ Tail(Top.code) \in Seq(Statements)
  BY <1>1, StackFacts, HeadTailProperties
<1>3. Alike(Advanced)
  BY <1>1, AdvancedAlike
<1>4. ASSUME st.op \in {"test", "expect", "print"}, stack' = Append(Advanced, Call(st, st.code))
      PROVE  More(stack', st) /\ stack' \in Seq(Frames) /\ stack' # << >>
  <2>1. More(stack', st)
    BY <1>1, <1>2, <1>4, CallPushed, ProgramsAssumption
  <2>2. Len(stack') # 0
    BY <1>1, <2>1, StackFacts DEF More
  <2>. QED
    BY <2>1, <2>2, EmptySeq DEF More
<1>5. CASE Begin(st)
  <2>1. /\ st.op = "test" /\ env' = <<"test">> \o Tail(Top.code)
        /\ stack' = Append(Advanced, Call(st, st.code)) /\ UNCHANGED <<ptr, testenv>>
    BY <1>5 DEF Begin
  <2>2. Tail(env') \in Seq(Statements)
    <3>1. ASSUME NEW s \in Seq(Statements)
          PROVE  Tail(<<"test">> \o s) = s
      <4>. DEFINE c == <<"test">> \o s
                  A == Statements \cup {"test"}
      <4>1. <<"test">> \in Seq(A) /\ s \in Seq(A) /\ Len(<<"test">>) = 1 /\ Len(s) \in Nat
        BY <3>1, LenProperties
      <4>2. /\ c \in Seq(A) /\ Len(c) = 1 + Len(s)
            /\ \A i \in 1 .. 1 + Len(s) : c[i] = IF i <= 1 THEN <<"test">>[i] ELSE s[i - 1]
        BY <4>1, ConcatProperties
      <4>3. c # << >>
        BY <4>1, <4>2, EmptySeq
      <4>. HIDE DEF c
      <4>4. /\ Tail(c) \in Seq(A) /\ Len(Tail(c)) = Len(c) - 1
            /\ \A i \in 1 .. Len(Tail(c)) : Tail(c)[i] = c[i + 1]
        BY <4>2, <4>3, HeadTailProperties
      <4>5. Len(Tail(c)) = Len(s)
        BY <4>1, <4>2, <4>4
      <4>6. \A i \in 1 .. Len(s) : Tail(c)[i] = s[i]
        BY <4>1, <4>2, <4>4, <4>5
      <4>7. Tail(c) = s
        BY <4>1, <4>4, <4>5, <4>6, SeqEqual
      <4>. QED
        BY <4>7 DEF c
    <3>. QED
      BY <1>2, <2>1, <3>1
  <2>3. Types'
    BY <1>1, <1>4, <1>5, <2>1, <2>2 DEF Types, Begin
  <2>. QED
    BY <1>4, <2>1, <2>3, MoreKeeps
<1>6. CASE Assert(st)
  BY <1>1, <1>6, JumpKeeps DEF Assert, Types
<1>7. CASE Equal(st)
  <2>1. CASE stack' = Advanced
    BY <1>1, <1>3, <1>7, <2>1, AlikeKeeps DEF Equal, Types
  <2>2. CASE Longjmp(ptr, err, "not equal")
    BY <1>1, <1>7, <2>2, JumpKeeps DEF Equal, Types
  <2>. QED
    BY <1>7, <2>1, <2>2 DEF Equal
<1>8. CASE SilenceOutput(st)
  <2>1. quiet' \in BOOLEAN
    BY <1>2, <1>8, ProgramsAssumption DEF SilenceOutput
  <2>. QED
    BY <1>3, <1>8, <2>1, AlikeKeeps DEF SilenceOutput
<1>9. CASE Expect(st)
  <2>1. /\ st.op = "expect" /\ ptr' = "test_env" /\ testenv' = Len(stack) + 1 /\ env' = env
        /\ stack' = Append(Advanced, Call(st, st.code)) /\ quiet' = quiet
    BY <1>9 DEF Expect
  <2>2. Types'
    BY <1>1, <1>4, <2>1 DEF Types
  <2>. QED
    BY <1>4, <2>1, <2>2, MoreKeeps
<1>10. CASE ExpectPrint(st)
  <2>1. /\ st.op = "print" /\ UNCHANGED <<ptr, testenv, env>>
        /\ stack' = Append(Advanced, Call(st, st.code)) /\ quiet' = quiet
    BY <1>10 DEF ExpectPrint
  <2>2. Types'
    BY <1>1, <1>4, <2>1 DEF Types
  <2>. QED
    BY <1>4, <2>1, <2>2, MoreKeeps
<1>. QED
  BY <1>5, <1>6, <1>7, <1>8, <1>9, <1>10 DEF Statement

LEMMA CaughtIsExpect ==
    ASSUME JumpInv, Top.caught
    PROVE  Top.by.op = "expect"
<1>1. Len(stack) \in DOMAIN stack
  BY StackFacts DEF JumpInv
<1>. QED
  BY <1>1 DEF JumpInv, CaughtExpects, Top

LEMMA JumpKept ==
    ASSUME JumpInv, [Next]_vars
    PROVE  JumpInv'
<1>1. quiet \in BOOLEAN /\ Top.quiet \in BOOLEAN
  BY StackFacts DEF JumpInv, Types, Frames
<1>2. CASE End
  BY <1>1, <1>2, ReturnKeeps DEF End, Ends
<1>3. CASE NoAssert
  <2>1. /\ Top.by.op # "main" /\ ptr' = "env" /\ UNCHANGED <<env, testenv>>
        /\ Unmet(Top.by.must, Top.quiet, err, "no assert")
    BY <1>3 DEF NoAssert, Ends
  <2>. QED
    BY <1>1, <2>1, UnmetKeeps
<1>4. CASE Caught
  <2>1. /\ Top.by.op # "main" /\ ptr' = "env" /\ UNCHANGED <<env, testenv>>
        /\ \/ stack' = Under /\ quiet' = quiet
           \/ Unmet(Top.by.must, quiet, << >>, "wrong assert")
    BY <1>4, CaughtIsExpect DEF Caught
  <2>. QED
    BY <1>1, <2>1, ReturnKeeps, UnmetKeeps
<1>5. CASE Printed
  <2>1. /\ Top.by.op = "print" /\ UNCHANGED <<ptr, env, testenv>>
        /\ \/ stack' = Under /\ quiet' = quiet
           \/ Unmet(Top.by.must, quiet, err, "wrong print")
    BY <1>5 DEF Printed, Ends
  <2>. QED
    BY <1>1, <2>1, ReturnKeeps, UnmetKeeps
<1>6. CASE Return \/ UNCHANGED vars
  <2>1. UNCHANGED <<stack, ptr, env, testenv, quiet>>
    BY <1>6 DEF Return, vars
  <2>. QED
    BY <2>1 DEF JumpInv, Types, RootIsMain, CaughtExpects, TargetOnStack, Open
<1>. QED
  BY <1>2, <1>3, <1>4, <1>5, <1>6, StatementKeeps DEF Next

\* Whenever ___env_ptr leads to test_env, the setjmp it jumps to belongs to a
\* call of expect_assert that has not returned, and to the innermost one:
\* no program makes a failed assert jump into a frame that is gone.
THEOREM JumpsToLiveFrames == Spec => []TargetOnStack
<1>1. Init => JumpInv
  BY JumpStarts
<1>2. JumpInv /\ [Next]_vars => JumpInv'
  BY JumpKept
<1>3. JumpInv => TargetOnStack
  BY DEF JumpInv
<1>. QED
  BY <1>1, <1>2, <1>3, PTL DEF Spec

\* Whatever a program expects inside what it expects, silence begins and ends
\* only where it asks for that, where a REQUIRE_ASSERT or REQUIRE_PRINT fails,
\* and where a CHECK_ASSERT that saw no assert puts back what was before it.
THEOREM SilenceKept == Spec => SilenceExplained
<1>. DEFINE Quiet ==
       /\ quiet' # quiet =>
            \/ Top.code # << >> /\ Head(Top.code).op = "silence"
            \/ Top.by.op \in {"expect", "print"} /\ Top.by.must
            \/ Ends("expect") /\ quiet' = Top.quiet
       /\ Ends("expect") /\ ~Top.by.must => quiet' = Top.quiet
<1>1. Init => JumpInv
  BY JumpStarts
<1>2. JumpInv /\ [Next]_vars => JumpInv'
  BY JumpKept
<1>3. JumpInv /\ [Next]_vars => [Quiet]_vars
  <2>. SUFFICES ASSUME JumpInv, Next
                PROVE  Quiet
    OBVIOUS
  <2>1. CASE End \/ Return
    BY <2>1 DEF End, Return, Ends
  <2>2. CASE NoAssert
    BY <2>2 DEF NoAssert, Ends, Unmet
  <2>3. CASE Caught
    <3>1. Top.caught /\ Top.by.op = "expect"
      BY <2>3, CaughtIsExpect DEF Caught
    <3>2. quiet' # quiet => Top.by.must
      BY <2>3 DEF Caught, Unmet
    <3>. QED
      BY <3>1, <3>2 DEF Ends
  <2>4. CASE Printed
    BY <2>4 DEF Printed, Ends, Unmet
  <2>5. ASSUME NEW st \in Upcoming, Statement(st)
        PROVE  Quiet
    <3>1. Top.code # << >> /\ st = Head(Top.code)
      BY DEF Upcoming
    <3>2. quiet' # quiet => Head(Top.code).op = "silence"
      BY <2>5, <3>1 DEF Statement, Begin, Assert, Equal, Expect, ExpectPrint, SilenceOutput
    <3>. QED
      BY <3>1, <3>2 DEF Ends
  <2>. QED
    BY <2>1, <2>2, <2>3, <2>4, <2>5 DEF Next
<1>. QED
  BY <1>1, <1>2, <1>3, PTL DEF Spec, SilenceExplained

-----------------------------------------------------------------------------
(* Recursion on statements.                                                *)

\* A set of naturals that is not empty has a least element.
LEMMA Smallest ==
    ASSUME NEW S \in SUBSET Nat, S # {}
    PROVE  \E n \in S : \A k \in S : n <= k
<1>1. PICK n \in S : \A k \in S : ~(<<k, n>> \in OpToRel(<, Nat))
  BY NatLessThanWellFounded, WFMin
<1>2. \A k \in S : ~(k < n)
  BY <1>1 DEF OpToRel
<1>. QED
  BY <1>2

\* Induction over how deep a statement is nested.
LEMMA DepthInduction ==
    ASSUME NEW Q,
           \A st \in Statements :
             (\A x \in Statements : Depth[x] < Depth[st] => x \in Q) => st \in Q
    PROVE  \A st \in Statements : st \in Q
<1>. DEFINE D == {Depth[st] : st \in {x \in Statements : x \notin Q}}
<1>0. Depth \in [Statements -> Nat]
  BY DepthAssumption
<1>1. D \in SUBSET Nat
  BY <1>0
<1>2. SUFFICES ASSUME NEW y \in Statements, y \notin Q
               PROVE  FALSE
  OBVIOUS
<1>3. PICK d \in D : \A e \in D : d <= e
  <2>1. D # {}
    BY <1>2
  <2>. HIDE DEF D
  <2>. QED
    BY <1>1, <2>1, Smallest
<1>4. PICK st \in Statements : st \notin Q /\ d = Depth[st]
  BY <1>3
<1>5. PICK x \in Statements : Depth[x] < Depth[st] /\ x \notin Q
  BY <1>4
<1>6. Depth[x] \in D
  BY <1>5
<1>7. d <= Depth[x]
  <2>. HIDE DEF D
  <2>. QED
    BY <1>3, <1>6
<1>. QED
  BY <1>0, <1>4, <1>5, <1>7

\* f and g agree on the statements that are less deep than n.
Same(f, g, n) == \A st \in Statements : Depth[st] < n => f[st] = g[st]

\* What F says of a statement depends on the statements less deep only.
Descends(F, V) ==
    /\ F \in [[Statements -> V] -> [Statements -> V]]
    /\ \A f, g \in [Statements -> V] : \A st \in Statements :
         Same(f, g, Depth[st]) => F[f][st] = F[g][st]

\* f solves the equation for the statements less deep than n.
Solves(F, f, n) == Same(f, F[f], n)

\* Two solutions of a recursion on statements are one.
LEMMA SolutionsAgree ==
    ASSUME NEW V, NEW F, Descends(F, V),
           NEW f \in [Statements -> V], NEW g \in [Statements -> V],
           NEW n \in Nat, NEW m \in Nat, Solves(F, f, n), Solves(F, g, m), n <= m
    PROVE  Same(f, g, n)
<1>. DEFINE Bad == {st \in Statements : Depth[st] < n /\ f[st] # g[st]}
            D   == {Depth[st] : st \in Bad}
<1>0. Depth \in [Statements -> Nat]
  BY DepthAssumption
<1>1. D \in SUBSET Nat
  BY <1>0
<1>2. SUFFICES ASSUME Bad # {}
               PROVE  FALSE
  BY DEF Same
<1>3. PICK d \in D : \A e \in D : d <= e
  <2>1. D # {}
    BY <1>2
  <2>. HIDE DEF D
  <2>. QED
    BY <1>1, <2>1, Smallest
<1>4. PICK st \in Bad : d = Depth[st]
  BY <1>3
<1>5. st \in Statements /\ Depth[st] \in Nat /\ Depth[st] < n /\ Depth[st] < m /\ f[st] # g[st]
  BY <1>0, <1>4
<1>6. Same(f, g, Depth[st])
  <2>. SUFFICES ASSUME NEW x \in Statements, Depth[x] < Depth[st], f[x] # g[x]
                PROVE  FALSE
    BY DEF Same
  <2>1. Depth[x] \in Nat /\ Depth[x] < n
    BY <1>0, <1>5
  <2>2. Depth[x] \in D
    BY <2>1
  <2>3. d <= Depth[x]
    <3>. HIDE DEF D
    <3>. QED
      BY <1>3, <2>2
  <2>. QED
    BY <1>4, <1>5, <2>1, <2>3
<1>7. F[f][st] = F[g][st]
  BY <1>5, <1>6 DEF Descends
<1>. QED
  BY <1>5, <1>7 DEF Solves, Same

\* There is one for the statements up to a depth.
LEMMA SolutionUpTo ==
    ASSUME NEW V, V # {}, NEW F, Descends(F, V)
    PROVE  \A n \in Nat : \E f \in [Statements -> V] : Solves(F, f, n)
<1>. DEFINE P(n) == \E f \in [Statements -> V] : Solves(F, f, n)
            Bad  == {n \in Nat : ~P(n)}
<1>0. Depth \in [Statements -> Nat]
  BY DepthAssumption
<1>1. P(0)
  <2>1. PICK v \in V : TRUE
    OBVIOUS
  <2>. DEFINE f == [st \in Statements |-> v]
  <2>2. f \in [Statements -> V]
    OBVIOUS
  <2>3. Solves(F, f, 0)
    BY <1>0 DEF Solves, Same
  <2>. QED
    BY <2>2, <2>3
<1>2. ASSUME NEW n \in Nat, P(n)
      PROVE  P(n + 1)
  <2>1. PICK f \in [Statements -> V] : Solves(F, f, n)
    BY <1>2
  <2>2. PICK g : g = F[f]
    OBVIOUS
  <2>3. g \in [Statements -> V]
    BY <2>2 DEF Descends
  <2>4. ASSUME NEW st \in Statements, Depth[st] < n + 1
        PROVE  g[st] = F[g][st]
    <3>1. Depth[st] \in Nat /\ Depth[st] <= n
      BY <1>0, <2>4
    <3>2. Same(f, g, Depth[st])
      BY <1>0, <2>1, <2>2, <3>1 DEF Solves, Same
    <3>3. F[f][st] = F[g][st]
      BY <2>3, <3>2 DEF Descends
    <3>. QED
      BY <2>2, <3>3
  <2>5. Solves(F, g, n + 1)
    BY <2>4 DEF Solves, Same
  <2>. QED
    BY <2>3, <2>5
<1>. HIDE DEF P
<1>3. Bad = {}
  <2>1. SUFFICES ASSUME Bad # {}
                 PROVE  FALSE
    OBVIOUS
  <2>2. PICK e \in Bad : \A c \in Bad : e <= c
    <3>1. Bad \in SUBSET Nat
      OBVIOUS
    <3>. HIDE DEF Bad
    <3>. QED
      BY <2>1, <3>1, Smallest
  <2>3. e - 1 \in Nat /\ e - 1 \notin Bad /\ (e - 1) + 1 = e
    BY <1>1, <2>2
  <2>. QED
    BY <1>2, <2>2, <2>3
<1>. QED
  BY <1>3 DEF P

\* A recursion that descends has a solution.
LEMMA SolutionExists ==
    ASSUME NEW V, V # {}, NEW F, Descends(F, V)
    PROVE  \E f \in [Statements -> V] : \A st \in Statements : f[st] = F[f][st]
<1>. DEFINE G == [n \in Nat |-> CHOOSE f \in [Statements -> V] : Solves(F, f, n)]
            h == [st \in Statements |-> G[Depth[st] + 1][st]]
<1>0. Depth \in [Statements -> Nat]
  BY DepthAssumption
<1>1. \A n \in Nat : G[n] \in [Statements -> V] /\ Solves(F, G[n], n)
  BY SolutionUpTo
<1>. HIDE DEF G
<1>2. h \in [Statements -> V]
  BY <1>0, <1>1
<1>3. ASSUME NEW st \in Statements
      PROVE  h[st] = F[h][st]
  <2>1. PICK d \in Nat : d = Depth[st]
    BY <1>0
  <2>2. PICK g : g = G[d + 1]
    OBVIOUS
  <2>3. g \in [Statements -> V] /\ Solves(F, g, d + 1) /\ d + 1 \in Nat
    BY <1>1, <2>2
  <2>4. g[st] = F[g][st] /\ h[st] = g[st]
    BY <2>1, <2>2, <2>3 DEF Solves, Same
  <2>5. Same(g, h, d)
    <3>. SUFFICES ASSUME NEW x \in Statements, Depth[x] < d
                  PROVE  g[x] = h[x]
      BY DEF Same
    <3>1. PICK e \in Nat : e = Depth[x]
      BY <1>0
    <3>2. e + 1 \in Nat /\ e + 1 <= d + 1
      BY <3>1
    <3>3. G[e + 1] \in [Statements -> V] /\ Solves(F, G[e + 1], e + 1) /\ h[x] = G[e + 1][x]
      BY <1>1, <3>1, <3>2
    <3>4. Same(G[e + 1], g, e + 1)
      BY <2>3, <3>2, <3>3, SolutionsAgree
    <3>. QED
      BY <3>1, <3>3, <3>4 DEF Same
  <2>6. F[g][st] = F[h][st]
    BY <1>2, <2>1, <2>3, <2>5 DEF Descends
  <2>. QED
    BY <2>4, <2>6
<1>. QED
  BY <1>2, <1>3

-----------------------------------------------------------------------------
(* What the recursive functions of the verdict are.                        *)

Msgs == {None, "not equal", "no assert", "wrong assert", "wrong print"}
          \cup {st.msg : st \in {x \in Statements : x.op = "assert"}}

Outcomes == [assert : Msgs, failed : BOOLEAN]

Runs(out, code) == {i \in DOMAIN code : \A j \in 1 .. i - 1 : out[code[j]].assert = None}

Stops(out, code) == {i \in Runs(out, code) : out[code[i]].assert # None}

\* A record of the fields of an outcome.
Whole(o) == o = [assert |-> o.assert, failed |-> o.failed]

LEMMA SameOutcome ==
    ASSUME NEW o, NEW p, Whole(o), Whole(p), o.assert = p.assert, o.failed = p.failed
    PROVE  o = p
  BY Zenon DEF Whole

\* An outcome is the record of its parts.
LEMMA IsWhole ==
    ASSUME NEW o \in Outcomes
    PROVE  Whole(o) /\ o.assert \in Msgs /\ o.failed \in BOOLEAN
  BY DEF Outcomes, Whole

LEMMA IsOutcome ==
    ASSUME NEW o, Whole(o), o.assert \in Msgs, o.failed \in BOOLEAN
    PROVE  o \in Outcomes
<1>1. [assert |-> o.assert, failed |-> o.failed] \in Outcomes
  BY DEF Outcomes
<1>. QED
  BY <1>1, Zenon DEF Whole

\* The parts of the outcome of a list.
LEMMA ListedParts ==
    ASSUME NEW out, NEW code
    PROVE  /\ Whole(Listed(out, code)) /\ Listed(out, code).failed \in BOOLEAN
           /\ Listed(out, code).assert = IF Stops(out, code) = {} THEN None
                ELSE out[code[CHOOSE i \in Stops(out, code) : TRUE]].assert
           /\ Listed(out, code).failed <=> \E i \in Runs(out, code) : out[code[i]].failed
<1>. DEFINE m == IF Stops(out, code) = {} THEN None
                 ELSE out[code[CHOOSE i \in Stops(out, code) : TRUE]].assert
            b == \E i \in Runs(out, code) : out[code[i]].failed
<1>1. Listed(out, code) = [assert |-> m, failed |-> b]
  BY DEF Listed, Stops, Runs
<1>2. b \in BOOLEAN
  OBVIOUS
<1>. HIDE DEF m, b
<1>3. Listed(out, code).assert = m /\ Listed(out, code).failed = b /\ Whole(Listed(out, code))
  BY <1>1 DEF Whole
<1>4. Listed(out, code).failed <=> b
  BY <1>3, Zenon
<1>5. Listed(out, code).failed \in BOOLEAN
  BY <1>2, <1>3, Zenon
<1>. QED
  BY <1>3, <1>4, <1>5 DEF m, b

LEMMA ListedType ==
    ASSUME NEW out, NEW code, \A i \in DOMAIN code : out[code[i]] \in Outcomes
    PROVE  Listed(out, code) \in Outcomes
<1>1. \A i \in DOMAIN code : out[code[i]].assert \in Msgs
  BY DEF Outcomes
<1>2. (CHOOSE i \in Stops(out, code) : TRUE) \in DOMAIN code \/ Stops(out, code) = {}
  BY DEF Stops, Runs
<1>3. None \in Msgs
  BY DEF Msgs
<1>4. Listed(out, code).assert \in Msgs /\ Listed(out, code).failed \in BOOLEAN
  BY <1>1, <1>2, <1>3, ListedParts
<1>. QED
  BY <1>4, ListedParts, IsOutcome

LEMMA ListedEmpty ==
    ASSUME NEW out
    PROVE  Listed(out, << >>) = Passed
<1>1. Runs(out, << >>) = {} /\ Stops(out, << >>) = {}
  BY DEF Runs, Stops
<1>2. Listed(out, << >>).assert = None /\ ~Listed(out, << >>).failed
  BY <1>1, ListedParts
<1>3. Listed(out, << >>).failed = FALSE
  BY <1>2, ListedParts
<1>4. Whole(Passed) /\ Passed.assert = None /\ Passed.failed = FALSE
  BY DEF Whole, Passed
<1>. QED
  BY <1>2, <1>3, <1>4, ListedParts, SameOutcome

\* Two that agree on the statements of a list.
LEMMA ListedSame ==
    ASSUME NEW f, NEW g, NEW code \in Seq(Statements), \A i \in DOMAIN code : f[code[i]] = g[code[i]]
    PROVE  Listed(f, code) = Listed(g, code)
<1>1. Runs(f, code) = Runs(g, code)
  <2>1. \A i \in DOMAIN code : \A j \in 1 .. i - 1 : j \in DOMAIN code
    BY LenProperties
  <2>. QED
    BY <2>1 DEF Runs
<1>2. Stops(f, code) = Stops(g, code)
  BY <1>1 DEF Stops, Runs
<1>3. Stops(g, code) \subseteq DOMAIN code /\ Runs(g, code) \subseteq DOMAIN code
  BY DEF Stops, Runs
<1>4. PICK S : S = Stops(g, code)
  OBVIOUS
<1>5. S # {} => f[code[CHOOSE i \in S : TRUE]] = g[code[CHOOSE i \in S : TRUE]]
  BY <1>3, <1>4
<1>6. Listed(f, code).assert = Listed(g, code).assert
  <2>1. Listed(f, code).assert = IF Stops(f, code) = {} THEN None
          ELSE f[code[CHOOSE i \in Stops(f, code) : TRUE]].assert
    BY ListedParts
  <2>2. Listed(g, code).assert = IF Stops(g, code) = {} THEN None
          ELSE g[code[CHOOSE i \in Stops(g, code) : TRUE]].assert
    BY ListedParts
  <2>3. Listed(f, code).assert = IF S = {} THEN None ELSE f[code[CHOOSE i \in S : TRUE]].assert
    BY <1>2, <1>4, <2>1
  <2>4. Listed(g, code).assert = IF S = {} THEN None ELSE g[code[CHOOSE i \in S : TRUE]].assert
    BY <1>4, <2>2
  <2>. QED
    BY <1>5, <2>3, <2>4
<1>7. Listed(f, code).failed <=> Listed(g, code).failed
  <2>1. Listed(f, code).failed <=> \E i \in Runs(f, code) : f[code[i]].failed
    BY ListedParts
  <2>2. Listed(g, code).failed <=> \E i \in Runs(g, code) : g[code[i]].failed
    BY ListedParts
  <2>3. (\E i \in Runs(f, code) : f[code[i]].failed) <=> \E i \in Runs(g, code) : g[code[i]].failed
    BY <1>1, <1>3
  <2>. QED
    BY <2>1, <2>2, <2>3
<1>8. Listed(f, code).failed \in BOOLEAN /\ Listed(g, code).failed \in BOOLEAN
      /\ Whole(Listed(f, code)) /\ Whole(Listed(g, code))
  BY ListedParts
<1>9. Listed(f, code).failed = Listed(g, code).failed
  BY <1>7, <1>8
<1>. QED
  BY <1>6, <1>8, <1>9, SameOutcome

\* One outcome and then another one.
Then(first, rest) ==
    IF first.assert # None THEN first
    ELSE [assert |-> rest.assert, failed |-> first.failed \/ rest.failed]

\* The parts of what comes of one thing after another.
LEMMA ThenParts ==
    ASSUME NEW first, NEW rest, Whole(first), Whole(rest),
           first.failed \in BOOLEAN, rest.failed \in BOOLEAN
    PROVE  /\ Whole(Then(first, rest)) /\ Then(first, rest).failed \in BOOLEAN
           /\ first.assert # None => Then(first, rest) = first
           /\ first.assert = None =>
                /\ Then(first, rest).assert = rest.assert
                /\ Then(first, rest).failed <=> (first.failed \/ rest.failed)
<1>1. CASE first.assert # None
  BY <1>1 DEF Then
<1>2. CASE first.assert = None
  <2>1. PICK b \in BOOLEAN : b <=> (first.failed \/ rest.failed)
    BY Zenon
  <2>2. b = (first.failed \/ rest.failed)
    BY <2>1
  <2>3. Then(first, rest) = [assert |-> rest.assert, failed |-> b]
    BY <1>2, <2>2, Zenon DEF Then
  <2>4. Whole(Then(first, rest)) /\ Then(first, rest).assert = rest.assert /\ Then(first, rest).failed = b
    BY <2>3 DEF Whole
  <2>. QED
    BY <1>2, <2>1, <2>4, Zenon
<1>. QED
  BY <1>1, <1>2

\* The statements run one after the other.
LEMMA ListedRuns ==
    ASSUME NEW out \in [Statements -> Outcomes], NEW code \in Seq(Statements), code # << >>
    PROVE  Listed(out, code) = Then(out[Head(code)], Listed(out, Tail(code)))
<1>1. /\ Len(code) \in Nat /\ Len(code) >= 1 /\ DOMAIN code = 1 .. Len(code)
      /\ \A i \in 1 .. Len(code) : code[i] \in Statements
      /\ Head(code) = code[1] /\ Tail(code) \in Seq(Statements) /\ Len(Tail(code)) = Len(code) - 1
      /\ DOMAIN Tail(code) = 1 .. Len(code) - 1
      /\ \A i \in 1 .. Len(code) - 1 : Tail(code)[i] = code[i + 1]
  <2>1. Len(code) \in Nat /\ Len(code) # 0
    BY EmptySeq, LenProperties
  <2>2. /\ Head(code) = code[1] /\ Tail(code) \in Seq(Statements) /\ Len(Tail(code)) = Len(code) - 1
        /\ \A i \in 1 .. Len(Tail(code)) : Tail(code)[i] = code[i + 1]
    BY HeadTailProperties
  <2>. QED
    BY <2>1, <2>2, LenProperties
<1>2. PICK n \in Nat : n = Len(code) - 1
  <2>1. Len(code) - 1 \in Nat
    BY <1>1
  <2>. QED
    BY <2>1
<1>3. PICK t : t = Tail(code)
  OBVIOUS
<1>4. /\ DOMAIN code = 1 .. n + 1 /\ DOMAIN t = 1 .. n
      /\ \A i \in 1 .. n : t[i] = code[i + 1]
      /\ \A i \in 1 .. n + 1 : out[code[i]].assert \in Msgs /\ out[code[i]].failed \in BOOLEAN
  <2>1. Len(code) = n + 1
    BY <1>1, <1>2
  <2>. QED
    BY <1>1, <1>2, <1>3, <2>1 DEF Outcomes
<1>5. out[code[1]] \in Outcomes
  BY <1>1
<1>6. CASE out[code[1]].assert # None
  <2>1. Runs(out, code) = {1}
    <3>1. 1 \in Runs(out, code)
      BY <1>4 DEF Runs
    <3>2. \A i \in Runs(out, code) : i = 1
      <4>. TAKE i \in Runs(out, code)
      <4>1. i \in 1 .. n + 1 /\ \A j \in 1 .. i - 1 : out[code[j]].assert = None
        BY <1>4 DEF Runs
      <4>2. 1 \notin 1 .. i - 1
        BY <1>6, <4>1
      <4>. QED
        BY <4>1, <4>2
    <3>. QED
      BY <3>1, <3>2
  <2>2. Stops(out, code) = {1}
    BY <1>6, <2>1 DEF Stops
  <2>3. (CHOOSE i \in {1} : TRUE) = 1
    OBVIOUS
  <2>4. Listed(out, code).assert = out[code[1]].assert
    BY <2>2, <2>3, ListedParts
  <2>5. Listed(out, code).failed <=> out[code[1]].failed
    BY <2>1, ListedParts
  <2>6. Listed(out, code).failed = out[code[1]].failed
    BY <1>5, <2>5, ListedParts, IsWhole
  <2>7. Listed(out, code) = out[code[1]]
    BY <1>5, <2>4, <2>6, ListedParts, IsWhole, SameOutcome
  <2>. QED
    BY <1>1, <1>6, <2>7 DEF Then
<1>7. CASE out[code[1]].assert = None
  <2>1. 1 \in Runs(out, code)
    BY <1>4 DEF Runs
  <2>2. ASSUME NEW i \in 1 .. n
        PROVE  i + 1 \in Runs(out, code) <=> i \in Runs(out, t)
    <3>1. i + 1 \in 1 .. n + 1 /\ (i + 1) - 1 = i
      OBVIOUS
    <3>2. i + 1 \in Runs(out, code) <=> \A j \in 1 .. i : out[code[j]].assert = None
      BY <1>4, <3>1 DEF Runs
    <3>3. i \in Runs(out, t) <=> \A j \in 1 .. i - 1 : out[t[j]].assert = None
      BY <1>4 DEF Runs
    <3>4. \A j \in 1 .. i - 1 : t[j] = code[j + 1]
      BY <1>4
    <3>5. ASSUME \A j \in 1 .. i : out[code[j]].assert = None, NEW j \in 1 .. i - 1
          PROVE  out[t[j]].assert = None
      BY <3>4, <3>5
    <3>6. ASSUME \A j \in 1 .. i - 1 : out[t[j]].assert = None, NEW j \in 1 .. i
          PROVE  out[code[j]].assert = None
      <4>1. CASE j = 1
        BY <1>7, <4>1
      <4>2. CASE j # 1
        <5>1. j - 1 \in 1 .. i - 1 /\ (j - 1) + 1 = j
          BY <4>2
        <5>. QED
          BY <3>4, <3>6, <5>1
      <4>. QED
        BY <4>1, <4>2
    <3>. QED
      BY <3>2, <3>3, <3>5, <3>6
  <2>3. Runs(out, code) \subseteq 1 .. n + 1 /\ Runs(out, t) \subseteq 1 .. n
    BY <1>4 DEF Runs
  <2>4. \A i \in 1 .. n + 1 : i = 1 \/ (i - 1 \in 1 .. n /\ (i - 1) + 1 = i)
    OBVIOUS
  <2>5. (\E i \in Runs(out, code) : out[code[i]].failed)
          <=> (out[code[1]].failed \/ \E i \in Runs(out, t) : out[t[i]].failed)
    <3>1. ASSUME NEW i \in Runs(out, code), out[code[i]].failed, i # 1
          PROVE  i - 1 \in Runs(out, t) /\ out[t[i - 1]].failed
      BY <1>4, <2>2, <2>3, <2>4, <3>1
    <3>2. ASSUME NEW i \in Runs(out, t), out[t[i]].failed
          PROVE  i + 1 \in Runs(out, code) /\ out[code[i + 1]].failed
      BY <1>4, <2>2, <2>3, <3>2
    <3>. QED
      BY <2>1, <3>1, <3>2
  <2>6. Listed(out, code).assert = Listed(out, t).assert
    <3>1. CASE Stops(out, t) = {}
      <4>1. Stops(out, code) = {}
        <5>. SUFFICES ASSUME NEW i \in Stops(out, code)
                      PROVE  FALSE
          OBVIOUS
        <5>1. i \in Runs(out, code) /\ out[code[i]].assert # None /\ i # 1
          BY <1>7 DEF Stops
        <5>2. i - 1 \in Runs(out, t) /\ t[i - 1] = code[i]
          BY <1>4, <2>2, <2>3, <2>4, <5>1
        <5>. QED
          BY <3>1, <5>1, <5>2 DEF Stops
      <4>. QED
        BY <3>1, <4>1, ListedParts
    <3>2. CASE Stops(out, t) # {}
      <4>1. PICK i \in Stops(out, t) : i = CHOOSE x \in Stops(out, t) : TRUE
        BY <3>2
      <4>2. i \in Runs(out, t) /\ out[t[i]].assert # None /\ i \in 1 .. n
        BY <2>3 DEF Stops
      <4>3. i + 1 \in Stops(out, code) /\ t[i] = code[i + 1]
        BY <1>4, <2>2, <4>2 DEF Stops
      <4>4. ASSUME NEW k \in Stops(out, code)
            PROVE  k = i + 1
        <5>1. /\ k \in 1 .. n + 1 /\ out[code[k]].assert # None
              /\ \A j \in 1 .. k - 1 : out[code[j]].assert = None
          BY <1>4 DEF Stops, Runs
        <5>2. /\ i + 1 \in 1 .. n + 1 /\ out[code[i + 1]].assert # None
              /\ \A j \in 1 .. (i + 1) - 1 : out[code[j]].assert = None
          BY <1>4, <4>3 DEF Stops, Runs
        <5>3. ~(k < i + 1)
          BY <4>2, <5>1, <5>2
        <5>4. ~(i + 1 < k)
          BY <4>2, <5>1, <5>2
        <5>. QED
          BY <4>2, <5>1, <5>3, <5>4
      <4>5. (CHOOSE x \in Stops(out, code) : TRUE) = i + 1
        BY <4>3, <4>4
      <4>6. Listed(out, code).assert = out[code[i + 1]].assert
        BY <4>3, <4>5, ListedParts
      <4>7. Listed(out, t).assert = out[t[i]].assert
        BY <3>2, <4>1, ListedParts
      <4>. QED
        BY <4>3, <4>6, <4>7
    <3>. QED
      BY <3>1, <3>2
  <2>7. Listed(out, code).failed <=> (out[code[1]].failed \/ Listed(out, t).failed)
    BY <2>5, ListedParts
  <2>8. /\ Whole(Then(out[code[1]], Listed(out, t)))
        /\ Then(out[code[1]], Listed(out, t)).assert = Listed(out, t).assert
        /\ Then(out[code[1]], Listed(out, t)).failed <=> (out[code[1]].failed \/ Listed(out, t).failed)
        /\ Then(out[code[1]], Listed(out, t)).failed \in BOOLEAN
    <3>1. /\ Whole(out[code[1]]) /\ Whole(Listed(out, t))
          /\ out[code[1]].failed \in BOOLEAN /\ Listed(out, t).failed \in BOOLEAN
      BY <1>5, IsWhole, ListedParts
    <3>. QED
      BY <1>7, <3>1, ThenParts
  <2>9. Listed(out, code).failed = Then(out[code[1]], Listed(out, t)).failed
    BY <2>7, <2>8, ListedParts
  <2>. QED
    BY <1>1, <1>3, <2>6, <2>8, <2>9, ListedParts, SameOutcome
<1>. QED
  BY <1>6, <1>7

\* The parts of what a REQUIRE or a CHECK comes to.
LEMMA JudgedParts ==
    ASSUME NEW st, st.must \in BOOLEAN, NEW met \in BOOLEAN, NEW msg, NEW inner, inner.failed \in BOOLEAN
    PROVE  /\ Whole(Judged(st, met, msg, inner)) /\ Judged(st, met, msg, inner).failed \in BOOLEAN
           /\ (st.must /\ ~met) => Judged(st, met, msg, inner).assert = msg
           /\ ~(st.must /\ ~met) => Judged(st, met, msg, inner).assert = None
           /\ Judged(st, met, msg, inner).failed <=> (inner.failed \/ (~st.must /\ ~met))
<1>1. PICK b \in BOOLEAN : b <=> (inner.failed \/ (~st.must /\ ~met))
  BY Zenon
<1>2. b = (inner.failed \/ (~st.must /\ ~met))
  BY <1>1
<1>3. PICK m : m = IF st.must /\ ~met THEN msg ELSE None
  BY Zenon
<1>4. Judged(st, met, msg, inner) = [assert |-> m, failed |-> b]
  BY <1>2, <1>3, Zenon DEF Judged
<1>5. /\ Whole(Judged(st, met, msg, inner)) /\ Judged(st, met, msg, inner).assert = m
      /\ Judged(st, met, msg, inner).failed = b
  BY <1>4 DEF Whole
<1>6. ((st.must /\ ~met) => m = msg) /\ (~(st.must /\ ~met) => m = None)
  BY <1>3, Zenon
<1>7. (st.must /\ ~met) => Judged(st, met, msg, inner).assert = msg
  BY <1>5, <1>6, Zenon
<1>8. ~(st.must /\ ~met) => Judged(st, met, msg, inner).assert = None
  BY <1>5, <1>6, Zenon
<1>9. Judged(st, met, msg, inner).failed <=> (inner.failed \/ (~st.must /\ ~met))
  BY <1>1, <1>5, Zenon
<1>10. Judged(st, met, msg, inner).failed \in BOOLEAN
  BY <1>5, Zenon
<1>. QED
  BY <1>5, <1>7, <1>8, <1>9, <1>10, Zenon

LEMMA AssertsParts ==
    ASSUME NEW m
    PROVE  /\ Whole(Asserts(m)) /\ Asserts(m).assert = m /\ Asserts(m).failed = FALSE
           /\ Passed = Asserts(None)
  BY DEF Whole, Asserts, Passed

\* What a statement that holds code makes of the outcome of this code.
Wanted(st, inner) == inner.assert = st.want

\* The outcome by the kind of the statement.
LEMMA OutcomeCases ==
    ASSUME NEW st, NEW inner
    PROVE  /\ st.op = "assert" => OutcomeOf(st, inner) = Asserts(st.msg)
           /\ st.op = "equal" => OutcomeOf(st, inner) = Judged(st, st.ok, "not equal", Passed)
           /\ st.op = "expect" => OutcomeOf(st, inner) =
                Judged(st, Wanted(st, inner),
                       IF inner.assert = None THEN "no assert" ELSE "wrong assert", inner)
           /\ st.op = "print" =>
                /\ inner.assert # None => OutcomeOf(st, inner) = inner
                /\ inner.assert = None =>
                     OutcomeOf(st, inner) = Judged(st, st.ok, "wrong print", inner)
           /\ st.op \in {"silence", "test"} => OutcomeOf(st, inner) = Passed
<1>1. ASSUME st.op = "assert" PROVE OutcomeOf(st, inner) = Asserts(st.msg)
  BY <1>1 DEF OutcomeOf
<1>2. ASSUME st.op = "equal" PROVE OutcomeOf(st, inner) = Judged(st, st.ok, "not equal", Passed)
  BY <1>2 DEF OutcomeOf
<1>3. ASSUME st.op = "expect"
      PROVE  OutcomeOf(st, inner) =
                Judged(st, Wanted(st, inner),
                       IF inner.assert = None THEN "no assert" ELSE "wrong assert", inner)
  BY <1>3 DEF OutcomeOf, Wanted
<1>4. ASSUME st.op = "print", inner.assert # None PROVE OutcomeOf(st, inner) = inner
  BY <1>4 DEF OutcomeOf
<1>5. ASSUME st.op = "print", inner.assert = None
      PROVE  OutcomeOf(st, inner) = Judged(st, st.ok, "wrong print", inner)
  BY <1>5 DEF OutcomeOf
<1>6. ASSUME st.op \in {"silence", "test"} PROVE OutcomeOf(st, inner) = Passed
  BY <1>6 DEF OutcomeOf
<1>. QED
  BY <1>1, <1>2, <1>3, <1>4, <1>5, <1>6

\* The statement an outcome of its code passes through.
Frame(st) == st \in Statements /\ st.op \in {"expect", "print"}

\* The fields of REQUIRE_ASSERT, CHECK_ASSERT and those for prints.
LEMMA FrameParts ==
    ASSUME NEW st, Frame(st)
    PROVE  /\ st.must \in BOOLEAN /\ (st.op = "print" => st.ok \in BOOLEAN)
           /\ (st.op = "expect" => st.want # None) /\ st.code \in Seq(Statements)
           /\ \A i \in DOMAIN st.code : st.code[i] \in Statements /\ st.code[i].op # "test"
<1>1. st \in Statements /\ st.op \in {"expect", "print"}
  BY DEF Frame
<1>2. st.code \in Seq(Statements)
  BY <1>1, ProgramsAssumption
<1>3. \A i \in DOMAIN st.code : st.code[i] \in Statements
  BY <1>2, LenProperties
<1>. QED
  BY <1>1, <1>2, <1>3, FormAssumption

\* What an expectation makes of the outcome of its function.
ExpectMakes(st, inner, o) ==
    /\ Whole(o) /\ o.failed \in BOOLEAN
    /\ inner.assert = st.want => o.assert = None /\ (o.failed <=> inner.failed)
    /\ (inner.assert # st.want /\ ~st.must) => o.assert = None /\ o.failed
    /\ (inner.assert # st.want /\ st.must) =>
         /\ o.assert = IF inner.assert = None THEN "no assert" ELSE "wrong assert"
         /\ o.failed <=> inner.failed

LEMMA ExpectMade ==
    ASSUME NEW st, Frame(st), st.op = "expect", NEW inner, inner.failed \in BOOLEAN
    PROVE  ExpectMakes(st, inner, OutcomeOf(st, inner))
<1>1. st.must \in BOOLEAN
  BY FrameParts
<1>2. PICK met \in BOOLEAN : met <=> inner.assert = st.want
  BY Zenon
<1>3. met = Wanted(st, inner)
  BY <1>2 DEF Wanted
<1>4. PICK msg : msg = IF inner.assert = None THEN "no assert" ELSE "wrong assert"
  BY Zenon
<1>5. OutcomeOf(st, inner) = Judged(st, Wanted(st, inner),
                       IF inner.assert = None THEN "no assert" ELSE "wrong assert", inner)
  BY OutcomeCases
<1>6. OutcomeOf(st, inner) = Judged(st, met, msg, inner)
  BY <1>3, <1>4, <1>5, Zenon
<1>7. PICK o : o = OutcomeOf(st, inner)
  OBVIOUS
<1>8. /\ Whole(o) /\ o.failed \in BOOLEAN
      /\ (st.must /\ ~met) => o.assert = msg
      /\ ~(st.must /\ ~met) => o.assert = None
      /\ o.failed <=> (inner.failed \/ (~st.must /\ ~met))
  BY <1>1, <1>6, <1>7, JudgedParts
<1>9. ExpectMakes(st, inner, o)
  BY <1>1, <1>2, <1>4, <1>8, Zenon DEF ExpectMakes
<1>. QED
  BY <1>7, <1>9

\* What a function that prints makes of its outcome.
PrintMakes(st, inner, o) ==
    /\ Whole(o) /\ o.failed \in BOOLEAN
    /\ inner.assert # None => o = inner
    /\ (inner.assert = None /\ st.ok) => o.assert = None /\ (o.failed <=> inner.failed)
    /\ (inner.assert = None /\ ~st.ok /\ ~st.must) => o.assert = None /\ o.failed
    /\ (inner.assert = None /\ ~st.ok /\ st.must) =>
         o.assert = "wrong print" /\ (o.failed <=> inner.failed)

LEMMA PrintMade ==
    ASSUME NEW st, Frame(st), st.op = "print", NEW inner, Whole(inner), inner.failed \in BOOLEAN
    PROVE  PrintMakes(st, inner, OutcomeOf(st, inner))
<1>1. st.must \in BOOLEAN /\ st.ok \in BOOLEAN
  BY FrameParts
<1>2. PICK o : o = OutcomeOf(st, inner)
  OBVIOUS
<1>3. CASE inner.assert # None
  <2>1. o = inner
    BY <1>2, <1>3, OutcomeCases
  <2>2. PrintMakes(st, inner, inner)
    BY <1>3 DEF PrintMakes
  <2>. QED
    BY <1>2, <2>1, <2>2
<1>4. CASE inner.assert = None
  <2>1. o = Judged(st, st.ok, "wrong print", inner)
    BY <1>2, <1>4, OutcomeCases
  <2>2. PICK met \in BOOLEAN : met = st.ok
    BY <1>1, Zenon
  <2>3. PICK msg : msg = "wrong print"
    OBVIOUS
  <2>4. o = Judged(st, met, msg, inner)
    BY <2>1, <2>2, <2>3, Zenon
  <2>5. /\ Whole(o) /\ o.failed \in BOOLEAN
        /\ (st.must /\ ~met) => o.assert = msg
        /\ ~(st.must /\ ~met) => o.assert = None
        /\ o.failed <=> (inner.failed \/ (~st.must /\ ~met))
    BY <1>1, <2>4, JudgedParts
  <2>6. PrintMakes(st, inner, o)
    BY <1>1, <1>4, <2>2, <2>3, <2>5, Zenon DEF PrintMakes
  <2>. QED
    BY <1>2, <2>6
<1>. QED
  BY <1>3, <1>4

\* The failures in the code of a statement are failures of the statement; its
\* assert depends on the assert that leaves the code only.
LEMMA FrameMade ==
    ASSUME NEW st, Frame(st), NEW inner \in Outcomes
    PROVE  /\ OutcomeOf(st, inner).assert = OutcomeOf(st, Asserts(inner.assert)).assert
           /\ OutcomeOf(st, inner).failed <=>
                (inner.failed \/ OutcomeOf(st, Asserts(inner.assert)).failed)
           /\ Whole(OutcomeOf(st, inner)) /\ OutcomeOf(st, inner).failed \in BOOLEAN
           /\ Whole(OutcomeOf(st, Asserts(inner.assert)))
           /\ OutcomeOf(st, Asserts(inner.assert)).failed \in BOOLEAN
<1>1. Whole(inner) /\ inner.failed \in BOOLEAN
  BY IsWhole
<1>2. PICK bare : bare = Asserts(inner.assert)
  OBVIOUS
<1>3. Whole(bare) /\ bare.assert = inner.assert /\ bare.failed = FALSE /\ bare.failed \in BOOLEAN
  BY <1>2, AssertsParts
<1>4. PICK o : o = OutcomeOf(st, inner)
  OBVIOUS
<1>5. PICK p : p = OutcomeOf(st, bare)
  OBVIOUS
<1>6. CASE st.op = "expect"
  <2>1. st.must \in BOOLEAN
    BY FrameParts
  <2>2. ExpectMakes(st, inner, o) /\ ExpectMakes(st, bare, p)
    BY <1>1, <1>3, <1>4, <1>5, <1>6, ExpectMade
  <2>3. o.assert = p.assert
    BY <1>3, <2>1, <2>2 DEF ExpectMakes
  <2>4. o.failed <=> (inner.failed \/ p.failed)
    BY <1>3, <2>1, <2>2 DEF ExpectMakes
  <2>5. Whole(o) /\ o.failed \in BOOLEAN /\ Whole(p) /\ p.failed \in BOOLEAN
    BY <2>2 DEF ExpectMakes
  <2>. QED
    BY <1>2, <1>4, <1>5, <2>3, <2>4, <2>5
<1>7. CASE st.op = "print"
  <2>1. st.must \in BOOLEAN /\ st.ok \in BOOLEAN
    BY <1>7, FrameParts
  <2>2. PrintMakes(st, inner, o) /\ PrintMakes(st, bare, p)
    BY <1>1, <1>3, <1>4, <1>5, <1>7, PrintMade
  <2>3. o.assert = p.assert
    BY <1>3, <2>1, <2>2 DEF PrintMakes
  <2>4. o.failed <=> (inner.failed \/ p.failed)
    BY <1>3, <2>1, <2>2 DEF PrintMakes
  <2>5. Whole(o) /\ o.failed \in BOOLEAN /\ Whole(p) /\ p.failed \in BOOLEAN
    BY <2>2 DEF PrintMakes
  <2>. QED
    BY <1>2, <1>4, <1>5, <2>3, <2>4, <2>5
<1>. QED
  BY <1>6, <1>7 DEF Frame

\* The outcome of a statement is one if that of its code is.
LEMMA OutcomeType ==
    ASSUME NEW st \in Statements, NEW inner \in Outcomes
    PROVE  OutcomeOf(st, inner) \in Outcomes
<1>0. /\ {None, "not equal", "no assert", "wrong assert", "wrong print"} \subseteq Msgs
      /\ Whole(inner) /\ inner.assert \in Msgs /\ inner.failed \in BOOLEAN
  BY IsWhole DEF Msgs
<1>1. ASSUME NEW m \in Msgs
      PROVE  Asserts(m) \in Outcomes
  BY DEF Asserts, Outcomes
<1>2. Passed \in Outcomes
  BY <1>0 DEF Passed, Outcomes
<1>3. CASE st.op = "assert"
  <2>1. st.msg \in Msgs
    BY <1>3 DEF Msgs
  <2>. QED
    BY <1>1, <1>3, <2>1, OutcomeCases
<1>4. CASE st.op = "equal"
  <2>1. st.must \in BOOLEAN /\ st.ok \in BOOLEAN
    BY <1>4, FormAssumption
  <2>2. PICK none : none = Passed
    OBVIOUS
  <2>3. none.failed \in BOOLEAN
    BY <2>2 DEF Passed
  <2>4. PICK met \in BOOLEAN : met = st.ok
    BY <2>1, Zenon
  <2>5. PICK msg : msg = "not equal"
    OBVIOUS
  <2>6. PICK o : o = Judged(st, met, msg, none)
    OBVIOUS
  <2>7. /\ Whole(o) /\ o.failed \in BOOLEAN
        /\ (st.must /\ ~met) => o.assert = msg
        /\ ~(st.must /\ ~met) => o.assert = None
    BY <2>1, <2>3, <2>6, JudgedParts
  <2>8. o.assert \in Msgs
    BY <1>0, <2>5, <2>7
  <2>9. o = Judged(st, st.ok, "not equal", Passed)
    BY <2>2, <2>4, <2>5, <2>6, Zenon
  <2>. QED
    BY <1>4, <2>7, <2>8, <2>9, IsOutcome, OutcomeCases
<1>5. CASE st.op = "expect"
  <2>1. PICK o : o = OutcomeOf(st, inner)
    OBVIOUS
  <2>. Frame(st)
    BY <1>5 DEF Frame
  <2>2. inner.failed \in BOOLEAN
    BY <1>0
  <2>3. ExpectMakes(st, inner, OutcomeOf(st, inner))
    BY <1>5, <2>2, ExpectMade
  <2>4. ExpectMakes(st, inner, o)
    BY <2>1, <2>3
  <2>5. st.must \in BOOLEAN
    BY FrameParts
  <2>6. Whole(o) /\ o.failed \in BOOLEAN /\ o.assert \in Msgs
    BY <1>0, <2>4, <2>5 DEF ExpectMakes
  <2>. QED
    BY <2>1, <2>6, IsOutcome
<1>6. CASE st.op = "print"
  <2>1. PICK o : o = OutcomeOf(st, inner)
    OBVIOUS
  <2>2. PrintMakes(st, inner, o) /\ st.must \in BOOLEAN /\ st.ok \in BOOLEAN
    BY <1>0, <1>6, <2>1, PrintMade, FrameParts DEF Frame
  <2>3. Whole(o) /\ o.failed \in BOOLEAN /\ o.assert \in Msgs
    BY <1>0, <2>2 DEF PrintMakes
  <2>. QED
    BY <2>1, <2>3, IsOutcome
<1>7. CASE st.op \in {"silence", "test"}
  BY <1>2, <1>7, OutcomeCases
<1>. QED
  BY <1>3, <1>4, <1>5, <1>6, <1>7, FormAssumption

\* What the code of a statement comes to, f being that of each statement.
InnerOf(f, st) == IF st.op \in {"expect", "print"} THEN Listed(f, st.code) ELSE Passed

\* The outcomes satisfy the equation that defines them.
LEMMA OutcomeUnfolds ==
    /\ Outcome \in [Statements -> Outcomes]
    /\ \A st \in Statements : Outcome[st] = OutcomeOf(st, InnerOf(Outcome, st))
<1>. DEFINE F == [f \in [Statements -> Outcomes] |-> [st \in Statements |-> OutcomeOf(st, InnerOf(f, st))]]
<1>1. Passed \in Outcomes
  BY DEF Passed, Outcomes, Msgs
<1>2. ASSUME NEW f \in [Statements -> Outcomes], NEW st \in Statements
      PROVE  InnerOf(f, st) \in Outcomes /\ OutcomeOf(st, InnerOf(f, st)) \in Outcomes
  <2>1. InnerOf(f, st) \in Outcomes
    <3>1. st.op \in {"expect", "print"} => \A i \in DOMAIN st.code : st.code[i] \in Statements
      BY ProgramsAssumption, LenProperties
    <3>2. st.op \in {"expect", "print"} => Listed(f, st.code) \in Outcomes
      BY <3>1, ListedType
    <3>. QED
      BY <1>1, <3>2 DEF InnerOf
  <2>. QED
    BY <2>1, OutcomeType
<1>3. Descends(F, Outcomes)
  <2>1. F \in [[Statements -> Outcomes] -> [Statements -> Outcomes]]
    BY <1>2
  <2>2. ASSUME NEW f \in [Statements -> Outcomes], NEW g \in [Statements -> Outcomes],
               NEW st \in Statements, Same(f, g, Depth[st])
        PROVE  F[f][st] = F[g][st]
    <3>1. InnerOf(f, st) = InnerOf(g, st)
      <4>1. CASE st.op \in {"expect", "print"}
        <5>1. st.code \in Seq(Statements)
          BY <4>1, ProgramsAssumption
        <5>2. \A i \in DOMAIN st.code : st.code[i] \in Statements /\ Depth[st.code[i]] < Depth[st]
          BY <4>1, <5>1, LenProperties, DepthAssumption
        <5>3. \A i \in DOMAIN st.code : f[st.code[i]] = g[st.code[i]]
          BY <2>2, <5>2 DEF Same
        <5>4. Listed(f, st.code) = Listed(g, st.code)
          BY <5>1, <5>3, ListedSame
        <5>. QED
          BY <4>1, <5>4 DEF InnerOf
      <4>2. CASE st.op \notin {"expect", "print"}
        BY <4>2 DEF InnerOf
      <4>. QED
        BY <4>1, <4>2
    <3>. QED
      BY <3>1
  <2>. HIDE DEF F
  <2>. QED
    BY <2>1, <2>2 DEF Descends
<1>4. \E f \in [Statements -> Outcomes] : \A st \in Statements : f[st] = F[f][st]
  <2>. HIDE DEF F
  <2>. QED
    BY <1>1, <1>3, SolutionExists
<1>5. PICK f \in [Statements -> Outcomes] : \A st \in Statements : f[st] = OutcomeOf(st, InnerOf(f, st))
  BY <1>4
<1>6. f = [st \in Statements |-> OutcomeOf(st, InnerOf(f, st))]
  BY <1>5
<1>7. Outcome = [st \in Statements |-> OutcomeOf(st, InnerOf(Outcome, st))]
  BY <1>6 DEF Outcome, InnerOf
<1>8. \A st \in Statements : Outcome[st] = OutcomeOf(st, InnerOf(Outcome, st))
  BY <1>7
<1>. DEFINE Q == {st \in Statements : Outcome[st] \in Outcomes}
<1>9. ASSUME NEW st \in Statements, \A x \in Statements : Depth[x] < Depth[st] => x \in Q
      PROVE  st \in Q
  <2>1. st.op \in {"expect", "print"} => Listed(Outcome, st.code) \in Outcomes
    <3>. SUFFICES ASSUME st.op \in {"expect", "print"}
                  PROVE  Listed(Outcome, st.code) \in Outcomes
      OBVIOUS
    <3>1. \A i \in DOMAIN st.code : st.code[i] \in Statements /\ Depth[st.code[i]] < Depth[st]
      BY ProgramsAssumption, LenProperties, DepthAssumption
    <3>2. \A i \in DOMAIN st.code : Outcome[st.code[i]] \in Outcomes
      BY <1>9, <3>1
    <3>. QED
      BY <3>2, ListedType
  <2>2. InnerOf(Outcome, st) \in Outcomes
    BY <1>1, <2>1 DEF InnerOf
  <2>. QED
    BY <1>8, <2>2, OutcomeType
<1>10. \A st \in Statements : st \in Q
  <2>. HIDE DEF Q
  <2>. QED
    BY <1>9, DepthInduction
<1>. QED
  BY <1>7, <1>8, <1>10

\* The expectations in the code of a statement.
LevelsInside(f, st) ==
    IF st.op \in {"test", "expect", "print"}
    THEN UNION {f[st.code[i]] : i \in DOMAIN st.code} ELSE {}

LevelsAt(f, st) ==
    IF st.op = "expect" THEN {1} \cup {level + 1 : level \in LevelsInside(f, st)}
    ELSE LevelsInside(f, st)

\* The levels satisfy the equation that defines them.
LEMMA LevelsUnfold ==
    \A st \in Statements : Levels[st] \subseteq Nat /\ Levels[st] = LevelsAt(Levels, st)
<1>. DEFINE V == SUBSET Nat
            F == [f \in [Statements -> V] |-> [st \in Statements |-> LevelsAt(f, st)]]
<1>1. ASSUME NEW st \in Statements, st.op \in {"test", "expect", "print"}
      PROVE  \A i \in DOMAIN st.code : st.code[i] \in Statements /\ Depth[st.code[i]] < Depth[st]
  BY <1>1, ProgramsAssumption, LenProperties, DepthAssumption
<1>2. ASSUME NEW f, NEW st \in Statements,
             st.op \in {"test", "expect", "print"} => \A i \in DOMAIN st.code : f[st.code[i]] \in V
      PROVE  LevelsAt(f, st) \in V
  <2>1. LevelsInside(f, st) \in V
    BY <1>2 DEF LevelsInside
  <2>. QED
    BY <2>1 DEF LevelsAt
<1>3. Descends(F, V)
  <2>1. F \in [[Statements -> V] -> [Statements -> V]]
    <3>1. ASSUME NEW f \in [Statements -> V], NEW st \in Statements
          PROVE  LevelsAt(f, st) \in V
      <4>. HIDE DEF V
      <4>. QED
        BY <1>1, <1>2
    <3>. HIDE DEF V
    <3>. QED
      BY <3>1
  <2>2. ASSUME NEW f \in [Statements -> V], NEW g \in [Statements -> V],
               NEW st \in Statements, Same(f, g, Depth[st])
        PROVE  F[f][st] = F[g][st]
    <3>1. LevelsInside(f, st) = LevelsInside(g, st)
      <4>1. CASE st.op \in {"test", "expect", "print"}
        <5>1. \A i \in DOMAIN st.code : f[st.code[i]] = g[st.code[i]]
          BY <1>1, <2>2, <4>1 DEF Same
        <5>. QED
          BY <4>1, <5>1 DEF LevelsInside
      <4>2. CASE st.op \notin {"test", "expect", "print"}
        BY <4>2 DEF LevelsInside
      <4>. QED
        BY <4>1, <4>2
    <3>2. LevelsAt(f, st) = LevelsAt(g, st)
      BY <3>1 DEF LevelsAt
    <3>. HIDE DEF V
    <3>. QED
      BY <3>2
  <2>. HIDE DEF F, V
  <2>. QED
    BY <2>1, <2>2 DEF Descends
<1>4. \E f \in [Statements -> V] : \A st \in Statements : f[st] = F[f][st]
  <2>1. V # {}
    OBVIOUS
  <2>. HIDE DEF F, V
  <2>. QED
    BY <1>3, <2>1, SolutionExists
<1>5. PICK f \in [Statements -> V] : \A st \in Statements : f[st] = LevelsAt(f, st)
  <2>. HIDE DEF V
  <2>. QED
    BY <1>4
<1>6. f = [st \in Statements |-> LevelsAt(f, st)]
  BY <1>5
<1>7. Levels = [st \in Statements |-> LevelsAt(Levels, st)]
  BY <1>6 DEF Levels, LevelsAt, LevelsInside
<1>8. \A st \in Statements : Levels[st] = LevelsAt(Levels, st)
  BY <1>7
<1>. DEFINE Q == {st \in Statements : Levels[st] \in V}
<1>9. ASSUME NEW st \in Statements, \A x \in Statements : Depth[x] < Depth[st] => x \in Q
      PROVE  st \in Q
  <2>1. st.op \in {"test", "expect", "print"} => \A i \in DOMAIN st.code : Levels[st.code[i]] \in V
    BY <1>1, <1>9
  <2>. HIDE DEF V
  <2>. QED
    BY <1>2, <1>8, <2>1
<1>10. \A st \in Statements : st \in Q
  <2>. HIDE DEF Q
  <2>. QED
    BY <1>9, DepthInduction
<1>. QED
  BY <1>8, <1>10

\* An expectation is at level 1 in itself and hides those in it one level
\* further down.
LEMMA LevelsOf ==
    ASSUME NEW st \in Statements, st.op \in {"test", "expect", "print"}, NEW i \in DOMAIN st.code
    PROVE  /\ st.op = "expect" => (1 \in Levels[st.code[i]] => 2 \in Levels[st])
           /\ st.op # "expect" => Levels[st.code[i]] \subseteq Levels[st]
<1>1. Levels[st] = LevelsAt(Levels, st)
  BY LevelsUnfold
<1>2. Levels[st.code[i]] \subseteq LevelsInside(Levels, st)
  BY DEF LevelsInside
<1>3. ASSUME st.op = "expect", 1 \in Levels[st.code[i]]
      PROVE  2 \in Levels[st]
  <2>1. 1 \in LevelsInside(Levels, st)
    BY <1>2, <1>3
  <2>2. 2 \in {level + 1 : level \in LevelsInside(Levels, st)}
    BY <2>1
  <2>. QED
    BY <1>1, <1>3, <2>2 DEF LevelsAt
<1>4. ASSUME st.op # "expect"
      PROVE  Levels[st.code[i]] \subseteq Levels[st]
  BY <1>1, <1>2, <1>4 DEF LevelsAt
<1>. QED
  BY <1>3, <1>4

\* An expectation has the level of itself.
LEMMA ExpectHasLevel ==
    ASSUME NEW st \in Statements, st.op = "expect"
    PROVE  1 \in Levels[st]
  BY LevelsUnfold DEF LevelsAt

-----------------------------------------------------------------------------
(* What the calls on a stack will still come to.                           *)

\* A stack of a test that is running, with a call of main() below it.
Layered(s) ==
    /\ s \in Seq(Frames) /\ Len(s) >= 2
    /\ \A i \in 3 .. Len(s) : Frame(s[i].by)
    /\ \A i \in 2 .. Len(s) - 1 : ~s[i].caught

\* What leaves the i-th call, a being the asserts that leave the calls above
\* it and e what is in std_err.
View(s, e, a, i) ==
    IF i = Len(s) THEN IF s[i].caught THEN Asserts(e[1]) ELSE Listed(Outcome, s[i].code)
    ELSE Then(OutcomeOf(s[i + 1].by, Asserts(a[i + 1])), Listed(Outcome, s[i].code))

Chain(s, e, a) == \A i \in 2 .. Len(s) : a[i] = View(s, e, a, i).assert

Pending(s, e, a) == \E i \in 2 .. Len(s) : View(s, e, a, i).failed

\* p reports q, perhaps without need if expectations are nested.
Agree(p, q) == (q => p) /\ (Nested \/ (p => q))

\* The flag f and what is to come tell whether q.
Carries(s, e, f, q) ==
    \E a : Chain(s, e, a) /\ Agree(f \/ Pending(s, e, a) \/ a[2] # None, q)

LEMMA LayerFacts ==
    ASSUME NEW s, Layered(s)
    PROVE  /\ Len(s) \in Nat /\ DOMAIN s = 1 .. Len(s)
           /\ \A i \in 1 .. Len(s) :
                s[i] \in Frames /\ s[i].code \in Seq(Statements) /\ s[i].caught \in BOOLEAN
<1>1. Len(s) \in Nat /\ DOMAIN s = 1 .. Len(s) /\ \A i \in 1 .. Len(s) : s[i] \in Frames
  BY LenProperties DEF Layered
<1>. QED
  BY <1>1 DEF Frames

\* What an expectation makes of an assert.
LEMMA FramePasses ==
    ASSUME NEW st, Frame(st), NEW m
    PROVE  /\ Whole(OutcomeOf(st, Asserts(m))) /\ OutcomeOf(st, Asserts(m)).failed \in BOOLEAN
           /\ (st.op = "print" /\ m # None) => OutcomeOf(st, Asserts(m)) = Asserts(m)
<1>1. PICK bare : bare = Asserts(m)
  OBVIOUS
<1>2. Whole(bare) /\ bare.assert = m /\ bare.failed = FALSE
  BY <1>1, AssertsParts
<1>3. bare.failed \in BOOLEAN
  BY <1>2
<1>4. CASE st.op = "expect"
  <2>1. ExpectMakes(st, bare, OutcomeOf(st, bare))
    BY <1>3, <1>4, ExpectMade
  <2>. QED
    BY <1>1, <1>4, <2>1 DEF ExpectMakes
<1>5. CASE st.op = "print"
  <2>1. PrintMakes(st, bare, OutcomeOf(st, bare))
    BY <1>2, <1>3, <1>5, PrintMade
  <2>2. /\ Whole(OutcomeOf(st, bare)) /\ OutcomeOf(st, bare).failed \in BOOLEAN
        /\ m # None => OutcomeOf(st, bare) = bare
    BY <1>2, <2>1 DEF PrintMakes
  <2>. QED
    BY <1>1, <2>2
<1>. QED
  BY <1>4, <1>5 DEF Frame

\* The last call.
LEMMA ViewTop ==
    ASSUME NEW s, Layered(s), NEW e, NEW a
    PROVE  /\ Len(s) \in 2 .. Len(s)
           /\ s[Len(s)].caught => View(s, e, a, Len(s)) = Asserts(e[1])
           /\ ~s[Len(s)].caught => View(s, e, a, Len(s)) = Listed(Outcome, s[Len(s)].code)
           /\ View(s, e, a, Len(s)).failed \in BOOLEAN
<1>1. Len(s) \in 2 .. Len(s)
  BY LayerFacts DEF Layered
<1>2. s[Len(s)].caught \in BOOLEAN
  BY <1>1, LayerFacts
<1>3. CASE s[Len(s)].caught
  <2>1. View(s, e, a, Len(s)) = Asserts(e[1])
    BY <1>3 DEF View
  <2>2. View(s, e, a, Len(s)).failed \in BOOLEAN
    BY <2>1, AssertsParts
  <2>. QED
    BY <1>1, <1>3, <2>1, <2>2
<1>4. CASE ~s[Len(s)].caught
  <2>1. View(s, e, a, Len(s)) = Listed(Outcome, s[Len(s)].code)
    BY <1>4 DEF View
  <2>2. View(s, e, a, Len(s)).failed \in BOOLEAN
    BY <2>1, ListedParts
  <2>. QED
    BY <1>1, <1>4, <2>1, <2>2
<1>. QED
  BY <1>3, <1>4

\* A call below it.
LEMMA ViewBelow ==
    ASSUME NEW s, Layered(s), NEW e, NEW a, NEW i \in 2 .. Len(s) - 1,
           NEW o, o = OutcomeOf(s[i + 1].by, Asserts(a[i + 1]))
    PROVE  /\ View(s, e, a, i).failed \in BOOLEAN
           /\ o.assert # None => View(s, e, a, i) = o
           /\ o.assert = None =>
                /\ View(s, e, a, i).assert = Listed(Outcome, s[i].code).assert
                /\ View(s, e, a, i).failed <=> (o.failed \/ Listed(Outcome, s[i].code).failed)
<1>1. i # Len(s) /\ i + 1 \in 3 .. Len(s)
  BY LayerFacts DEF Layered
<1>2. Frame(s[i + 1].by)
  BY <1>1 DEF Layered
<1>3. PICK l : l = Listed(Outcome, s[i].code)
  OBVIOUS
<1>4. View(s, e, a, i) = Then(o, l)
  BY <1>1, <1>3 DEF View
<1>5. Whole(o) /\ o.failed \in BOOLEAN
  BY <1>2, FramePasses
<1>6. Whole(l) /\ l.failed \in BOOLEAN
  BY <1>3, ListedParts
<1>7. /\ Then(o, l).failed \in BOOLEAN
      /\ o.assert # None => Then(o, l) = o
      /\ o.assert = None =>
           Then(o, l).assert = l.assert /\ (Then(o, l).failed <=> (o.failed \/ l.failed))
  BY <1>5, <1>6, ThenParts
<1>. QED
  BY <1>3, <1>4, <1>7

\* Nothing but the call itself, the statement of the next one and what leaves
\* it matters.
LEMMA ViewKept ==
    ASSUME NEW s, NEW r, NEW e, NEW d, NEW a, NEW b, NEW i, i # Len(s), i # Len(r),
           s[i + 1].by = r[i + 1].by, s[i].code = r[i].code, a[i + 1] = b[i + 1]
    PROVE  View(s, e, a, i) = View(r, d, b, i)
  BY DEF View

\* Steps that keep what leaves the test and what fails in it.
LEMMA CarriesOn ==
    ASSUME NEW s, NEW e, NEW a, NEW f, NEW q, Agree(f \/ Pending(s, e, a) \/ a[2] # None, q),
           NEW r, NEW d, NEW b, NEW g, Chain(r, d, b), b[2] = a[2],
           (g \/ Pending(r, d, b)) <=> (f \/ Pending(s, e, a))
    PROVE  Carries(r, d, g, q)
  BY DEF Carries, Agree

\* The stack r is s after the next statement of its last call.
StepsOver(s, r) ==
    /\ Layered(s) /\ Layered(r) /\ Len(r) = Len(s)
    /\ ~s[Len(s)].caught /\ s[Len(s)].code # << >>
    /\ \A i \in 1 .. Len(s) - 1 : r[i] = s[i]
    /\ r[Len(s)].by = s[Len(s)].by /\ ~r[Len(s)].caught
    /\ r[Len(s)].code = Tail(s[Len(s)].code)

\* The outcome of the last call before and after its next statement.
LEMMA NextStatement ==
    ASSUME NEW code \in Seq(Statements), code # << >>, NEW o, o = Outcome[Head(code)],
           NEW l, l = Listed(Outcome, code), NEW t, t = Listed(Outcome, Tail(code))
    PROVE  /\ Head(code) \in Statements /\ Tail(code) \in Seq(Statements)
           /\ o \in Outcomes /\ l \in Outcomes /\ t \in Outcomes
           /\ o.assert # None => l = o
           /\ o.assert = None => l.assert = t.assert /\ (l.failed <=> (o.failed \/ t.failed))
<1>1. Head(code) \in Statements /\ Tail(code) \in Seq(Statements)
  BY HeadTailProperties
<1>2. Outcome \in [Statements -> Outcomes]
  BY OutcomeUnfolds
<1>3. ASSUME NEW c \in Seq(Statements)
      PROVE  Listed(Outcome, c) \in Outcomes
  <2>1. \A i \in DOMAIN c : c[i] \in Statements
    BY LenProperties
  <2>. QED
    BY <1>2, <2>1, ListedType
<1>4. o \in Outcomes /\ l \in Outcomes /\ t \in Outcomes
  BY <1>1, <1>2, <1>3
<1>5. l = Then(o, t)
  BY <1>2, ListedRuns
<1>6. Whole(o) /\ Whole(t) /\ o.failed \in BOOLEAN /\ t.failed \in BOOLEAN
  BY <1>4, IsWhole
<1>7. /\ o.assert # None => Then(o, t) = o
      /\ o.assert = None =>
           Then(o, t).assert = t.assert /\ (Then(o, t).failed <=> (o.failed \/ t.failed))
  BY <1>6, ThenParts
<1>. QED
  BY <1>1, <1>4, <1>5, <1>7

\* A statement that does not assert: a failure moves from what is to come to
\* the flag.
LEMMA StepCarries ==
    ASSUME NEW s, NEW r, StepsOver(s, r), NEW e, NEW d, NEW f, NEW q, Carries(s, e, f, q),
           NEW o, o = Outcome[Head(s[Len(s)].code)], o.assert = None,
           NEW g, g <=> (f \/ o.failed)
    PROVE  Carries(r, d, g, q)
<1>1. PICK a : Chain(s, e, a) /\ Agree(f \/ Pending(s, e, a) \/ a[2] # None, q)
  BY DEF Carries
<1>2. PICK n \in Nat : n = Len(s) /\ n = Len(r) /\ n >= 2
  BY LayerFacts DEF StepsOver, Layered
<1>3. /\ Layered(s) /\ Layered(r) /\ n \in 2 .. n /\ n \in 1 .. n /\ ~s[n].caught /\ ~r[n].caught
      /\ s[n].code \in Seq(Statements) /\ s[n].code # << >> /\ r[n].code = Tail(s[n].code)
  BY <1>2, LayerFacts DEF StepsOver
<1>4. PICK l : l = Listed(Outcome, s[n].code)
  OBVIOUS
<1>5. PICK t : t = Listed(Outcome, Tail(s[n].code))
  OBVIOUS
<1>6. l.assert = t.assert /\ (l.failed <=> (o.failed \/ t.failed))
  BY <1>2, <1>3, <1>4, <1>5, NextStatement
<1>7. View(s, e, a, n) = l /\ View(r, d, a, n) = t
  BY <1>2, <1>3, <1>4, <1>5, ViewTop
<1>8. ASSUME NEW i \in 2 .. n, i # n
      PROVE  View(s, e, a, i) = View(r, d, a, i)
  <2>1. i \in 1 .. n - 1 /\ i + 1 \in 1 .. n
    BY <1>8
  <2>2. s[i + 1].by = r[i + 1].by /\ s[i].code = r[i].code
    <3>1. \A j \in 1 .. n - 1 : r[j] = s[j]
      BY <1>2 DEF StepsOver
    <3>2. r[n].by = s[n].by
      BY <1>2 DEF StepsOver
    <3>. QED
      BY <2>1, <3>1, <3>2
  <2>3. i # Len(s) /\ i # Len(r)
    BY <1>2, <1>8
  <2>. QED
    BY <2>2, <2>3, Zenon DEF View
<1>9. Chain(r, d, a)
  BY <1>1, <1>2, <1>6, <1>7, <1>8 DEF Chain
<1>10. (g \/ Pending(r, d, a)) <=> (f \/ Pending(s, e, a))
  <2>1. Pending(s, e, a) <=> (l.failed \/ \E i \in 2 .. n : i # n /\ View(s, e, a, i).failed)
    BY <1>2, <1>3, <1>7 DEF Pending
  <2>2. Pending(r, d, a) <=> (t.failed \/ \E i \in 2 .. n : i # n /\ View(s, e, a, i).failed)
    BY <1>2, <1>3, <1>7, <1>8 DEF Pending
  <2>. QED
    BY <1>6, <2>1, <2>2
<1>. QED
  BY <1>1, <1>9, <1>10, CarriesOn

\* The stack r is s with a call for the next statement x.
Enters(s, r, x) ==
    /\ Layered(s) /\ Layered(r) /\ Len(r) = Len(s) + 1
    /\ ~s[Len(s)].caught /\ s[Len(s)].code # << >> /\ x = Head(s[Len(s)].code)
    /\ \A i \in 1 .. Len(s) - 1 : r[i] = s[i]
    /\ r[Len(s)].by = s[Len(s)].by
    /\ r[Len(s)].code = Tail(s[Len(s)].code)
    /\ Frame(x) /\ r[Len(s) + 1].by = x /\ r[Len(s) + 1].code = x.code /\ ~r[Len(s) + 1].caught

\* A call adds what the function comes to.
LEMMA EnterCarries ==
    ASSUME NEW s, NEW r, NEW x, Enters(s, r, x), NEW e, NEW d, NEW f, NEW q, Carries(s, e, f, q)
    PROVE  Carries(r, d, f, q)
<1>1. PICK a : Chain(s, e, a) /\ Agree(f \/ Pending(s, e, a) \/ a[2] # None, q)
  BY DEF Carries
<1>2. PICK n \in Nat : n = Len(s) /\ n + 1 = Len(r) /\ n >= 2
  BY LayerFacts DEF Enters, Layered
<1>3. /\ Layered(s) /\ Layered(r) /\ n \in 2 .. n /\ n \in 1 .. n /\ ~s[n].caught /\ ~r[n + 1].caught
      /\ s[n].code \in Seq(Statements) /\ s[n].code # << >> /\ r[n].code = Tail(s[n].code)
      /\ Frame(x) /\ x = Head(s[n].code) /\ r[n + 1].by = x /\ r[n + 1].code = x.code
  BY <1>2, LayerFacts DEF Enters
<1>4. PICK l : l = Listed(Outcome, s[n].code)
  OBVIOUS
<1>5. PICK t : t = Listed(Outcome, Tail(s[n].code))
  OBVIOUS
<1>6. PICK o : o = Outcome[x]
  OBVIOUS
<1>7. PICK inner : inner = Listed(Outcome, x.code)
  OBVIOUS
<1>8. /\ o.assert # None => l = o
      /\ o.assert = None => l.assert = t.assert /\ (l.failed <=> (o.failed \/ t.failed))
      /\ x \in Statements
  BY <1>3, <1>4, <1>5, <1>6, NextStatement
<1>9. inner \in Outcomes /\ o = OutcomeOf(x, inner)
  <2>1. x.op \in {"expect", "print"} /\ \A i \in DOMAIN x.code : x.code[i] \in Statements
    BY <1>3, FrameParts DEF Frame
  <2>2. inner \in Outcomes
    BY <1>7, <2>1, ListedType, OutcomeUnfolds
  <2>3. InnerOf(Outcome, x) = inner
    BY <1>7, <2>1 DEF InnerOf
  <2>4. o = OutcomeOf(x, InnerOf(Outcome, x))
    BY <1>6, <1>8, OutcomeUnfolds
  <2>. QED
    BY <2>2, <2>3, <2>4
<1>10. PICK p : p = OutcomeOf(x, Asserts(inner.assert))
  OBVIOUS
<1>11. o.assert = p.assert /\ (o.failed <=> (inner.failed \/ p.failed))
  BY <1>3, <1>9, <1>10, FrameMade
<1>. DEFINE b == [i \in Nat |-> IF i = n + 1 THEN inner.assert ELSE a[i]]
<1>12. /\ b[2] = a[2] /\ b[n + 1] = inner.assert
       /\ \A i \in 2 .. n : b[i] = a[i]
  BY <1>2
<1>. HIDE DEF b
<1>13. View(s, e, a, n) = l
  BY <1>2, <1>3, <1>4, ViewTop
<1>14. View(r, d, b, n + 1) = inner
  BY <1>2, <1>3, <1>7, ViewTop
<1>15. /\ p.assert # None => View(r, d, b, n) = p
       /\ p.assert = None =>
            View(r, d, b, n).assert = t.assert /\ (View(r, d, b, n).failed <=> (p.failed \/ t.failed))
  <2>1. n \in 2 .. Len(r) - 1
    BY <1>2
  <2>2. p = OutcomeOf(r[n + 1].by, Asserts(b[n + 1]))
    BY <1>3, <1>10, <1>12
  <2>3. Listed(Outcome, r[n].code) = t
    BY <1>3, <1>5
  <2>. QED
    BY <1>3, <2>1, <2>2, <2>3, ViewBelow
<1>16. View(r, d, b, n).assert = l.assert /\ (l.failed <=> (View(r, d, b, n).failed \/ inner.failed))
  BY <1>8, <1>11, <1>15
<1>17. ASSUME NEW i \in 2 .. n, i # n
       PROVE  View(s, e, a, i) = View(r, d, b, i)
  <2>1. i \in 1 .. n - 1 /\ i + 1 \in 2 .. n /\ i # n + 1
    BY <1>17
  <2>2. s[i + 1].by = r[i + 1].by /\ s[i].code = r[i].code
    <3>1. \A j \in 1 .. n - 1 : r[j] = s[j]
      BY <1>2 DEF Enters
    <3>2. r[n].by = s[n].by
      BY <1>2 DEF Enters
    <3>. QED
      BY <2>1, <3>1, <3>2
  <2>3. a[i + 1] = b[i + 1]
    BY <1>12, <2>1
  <2>. QED
    BY <1>2, <1>17, <2>1, <2>2, <2>3, ViewKept
<1>18. \A i \in 2 .. n + 1 : i = n + 1 \/ i = n \/ (i \in 2 .. n /\ i # n)
  OBVIOUS
<1>19. Chain(r, d, b)
  <2>. SUFFICES ASSUME NEW i \in 2 .. n + 1
                PROVE  b[i] = View(r, d, b, i).assert
    BY <1>2 DEF Chain
  <2>0. \A j \in 2 .. n : a[j] = View(s, e, a, j).assert
    BY <1>1, <1>2 DEF Chain
  <2>1. CASE i = n + 1
    BY <1>12, <1>14, <2>1
  <2>2. CASE i = n
    BY <1>3, <1>12, <1>13, <1>16, <2>0, <2>2
  <2>3. CASE i \in 2 .. n /\ i # n
    BY <1>12, <1>17, <2>0, <2>3
  <2>. QED
    BY <1>18, <2>1, <2>2, <2>3
<1>20. Pending(r, d, b) <=> Pending(s, e, a)
  <2>1. Pending(s, e, a) <=> (l.failed \/ \E i \in 2 .. n : i # n /\ View(s, e, a, i).failed)
    BY <1>2, <1>3, <1>13 DEF Pending
  <2>2. Pending(r, d, b) <=> (\/ inner.failed \/ View(r, d, b, n).failed
                              \/ \E i \in 2 .. n : i # n /\ View(r, d, b, i).failed)
    <3>1. n + 1 \in 2 .. n + 1 /\ n \in 2 .. n + 1 /\ \A i \in 2 .. n : i \in 2 .. n + 1
      BY <1>2
    <3>. QED
      BY <1>2, <1>14, <1>18, <3>1 DEF Pending
  <2>3. (\E i \in 2 .. n : i # n /\ View(r, d, b, i).failed)
          <=> (\E i \in 2 .. n : i # n /\ View(s, e, a, i).failed)
    BY <1>17
  <2>. QED
    BY <1>16, <2>1, <2>2, <2>3
<1>. QED
  BY <1>1, <1>12, <1>19, <1>20, CarriesOn

\* The stack r is s without its last call, that of an expectation.
Leaves(s, r) ==
    /\ Layered(s) /\ Layered(r) /\ Len(s) = Len(r) + 1
    /\ \A i \in 1 .. Len(r) : r[i] = s[i]
    /\ ~r[Len(r)].caught

\* The last call is about to return with the assert m, or None.
Ending(s, e, m) ==
    \/ s[Len(s)].caught /\ m = e[1]
    \/ ~s[Len(s)].caught /\ s[Len(s)].code = << >> /\ m = None

LEMMA EndingView ==
    ASSUME NEW s, Layered(s), NEW e, NEW m, Ending(s, e, m), NEW a
    PROVE  View(s, e, a, Len(s)) = Asserts(m)
<1>1. CASE s[Len(s)].caught /\ m = e[1]
  BY <1>1, ViewTop
<1>2. CASE ~s[Len(s)].caught /\ s[Len(s)].code = << >> /\ m = None
  <2>1. Listed(Outcome, << >>) = Asserts(m)
    BY <1>2, ListedEmpty, AssertsParts
  <2>. QED
    BY <1>2, <2>1, ViewTop
<1>. QED
  BY <1>1, <1>2 DEF Ending

\* What the n-th call, below it, makes of its outcome o.
EndsBelow(s, e, a, n, o) ==
    /\ View(s, e, a, n + 1).failed = FALSE
    /\ o.assert # None => View(s, e, a, n) = o
    /\ o.assert = None =>
         /\ View(s, e, a, n).assert = Listed(Outcome, s[n].code).assert
         /\ View(s, e, a, n).failed <=> (o.failed \/ Listed(Outcome, s[n].code).failed)

LEMMA EndingBelow ==
    ASSUME NEW s, Layered(s), NEW e, NEW m, Ending(s, e, m), NEW a, Chain(s, e, a),
           NEW n \in Nat, n >= 2, n + 1 = Len(s)
    PROVE  EndsBelow(s, e, a, n, OutcomeOf(s[Len(s)].by, Asserts(m)))
<1>0. PICK o : o = OutcomeOf(s[Len(s)].by, Asserts(m))
  OBVIOUS
<1>1. Len(s) \in Nat /\ n \in 2 .. Len(s) - 1 /\ n + 1 = Len(s) /\ Len(s) \in 2 .. Len(s)
  BY LayerFacts
<1>2. View(s, e, a, Len(s)) = Asserts(m)
  BY EndingView
<1>3. a[Len(s)] = m /\ View(s, e, a, Len(s)).failed = FALSE
  BY <1>1, <1>2, AssertsParts DEF Chain
<1>4. o = OutcomeOf(s[n + 1].by, Asserts(a[n + 1]))
  BY <1>0, <1>1, <1>3
<1>5. /\ o.assert # None => View(s, e, a, n) = o
      /\ o.assert = None =>
           /\ View(s, e, a, n).assert = Listed(Outcome, s[n].code).assert
           /\ View(s, e, a, n).failed <=> (o.failed \/ Listed(Outcome, s[n].code).failed)
  BY <1>1, <1>4, ViewBelow
<1>6. EndsBelow(s, e, a, n, o)
  BY <1>1, <1>3, <1>5 DEF EndsBelow
<1>. QED
  BY <1>0, <1>6

\* A call that returns, its expectation met or a CHECK.
LEMMA LeaveCarries ==
    ASSUME NEW s, NEW r, Leaves(s, r), NEW e, NEW d, NEW f, NEW q, Carries(s, e, f, q),
           NEW m, Ending(s, e, m),
           NEW o, o = OutcomeOf(s[Len(s)].by, Asserts(m)), o.assert = None,
           NEW g, g <=> (f \/ o.failed)
    PROVE  Carries(r, d, g, q)
<1>1. PICK a : Chain(s, e, a) /\ Agree(f \/ Pending(s, e, a) \/ a[2] # None, q)
  BY DEF Carries
<1>2. PICK n \in Nat : n + 1 = Len(s) /\ n = Len(r) /\ n >= 2
  BY LayerFacts DEF Leaves, Layered
<1>3. /\ Layered(s) /\ Layered(r) /\ n \in 2 .. n /\ ~r[n].caught
      /\ \A i \in 1 .. n : r[i] = s[i]
  BY <1>2 DEF Leaves
<1>4. PICK l : l = Listed(Outcome, s[n].code)
  OBVIOUS
<1>5. View(r, d, a, n) = l
  <2>1. r[n] = s[n]
    BY <1>2, <1>3
  <2>. QED
    BY <1>2, <1>3, <1>4, <2>1, ViewTop
<1>6. /\ View(s, e, a, n + 1).failed = FALSE
      /\ View(s, e, a, n).assert = l.assert
      /\ View(s, e, a, n).failed <=> (o.failed \/ l.failed)
  <2>1. Chain(s, e, a) /\ n >= 2 /\ n + 1 = Len(s)
    BY <1>1, <1>2
  <2>2. EndsBelow(s, e, a, n, OutcomeOf(s[Len(s)].by, Asserts(m)))
    BY <1>3, <2>1, EndingBelow
  <2>. QED
    BY <1>4, <2>2 DEF EndsBelow
<1>7. ASSUME NEW i \in 2 .. n, i # n
      PROVE  View(s, e, a, i) = View(r, d, a, i)
  <2>1. i \in 1 .. n /\ i + 1 \in 1 .. n /\ i # Len(s) /\ i # Len(r)
    BY <1>2, <1>7
  <2>2. s[i + 1].by = r[i + 1].by /\ s[i].code = r[i].code
    BY <1>3, <2>1
  <2>. QED
    BY <2>1, <2>2, Zenon DEF View
<1>8. Chain(r, d, a)
  <2>. SUFFICES ASSUME NEW i \in 2 .. n
                PROVE  a[i] = View(r, d, a, i).assert
    BY <1>2 DEF Chain
  <2>1. a[i] = View(s, e, a, i).assert
    BY <1>1, <1>2 DEF Chain
  <2>. QED
    BY <1>5, <1>6, <1>7, <2>1
<1>9. (g \/ Pending(r, d, a)) <=> (f \/ Pending(s, e, a))
  <2>1. Pending(s, e, a) <=> (View(s, e, a, n).failed \/ \E i \in 2 .. n : i # n /\ View(s, e, a, i).failed)
    <3>1. /\ \A i \in 2 .. n + 1 : i = n + 1 \/ i \in 2 .. n
          /\ \A i \in 2 .. n : i \in 2 .. n + 1
      OBVIOUS
    <3>. QED
      BY <1>2, <1>3, <1>6, <3>1 DEF Pending
  <2>2. Pending(r, d, a) <=> (l.failed \/ \E i \in 2 .. n : i # n /\ View(s, e, a, i).failed)
    BY <1>2, <1>3, <1>5, <1>7 DEF Pending
  <2>. QED
    BY <1>6, <2>1, <2>2
<1>. QED
  BY <1>1, <1>8, <1>9, CarriesOn

-----------------------------------------------------------------------------
(* An assert on its way.                                                   *)

\* The p-th call of the stack is left by the assert m; those above it are over.
Asserting(s, e, a, p, m) ==
    /\ p \in 2 .. Len(s) /\ m # None
    /\ View(s, e, a, p) = Asserts(m)
    /\ \A i \in 2 .. Len(s) : i > p => ~View(s, e, a, i).failed

\* It goes through the functions that only print.
LEMMA AssertPasses ==
    ASSUME NEW s, Layered(s), NEW e, NEW a, Chain(s, e, a), NEW p, NEW m, Asserting(s, e, a, p, m),
           NEW t \in 2 .. p, \A i \in t + 1 .. p : s[i].by.op = "print"
    PROVE  \A i \in t .. p : View(s, e, a, i) = Asserts(m)
<1>. DEFINE Bad == {k \in Nat : p - k \in t .. p /\ View(s, e, a, p - k) # Asserts(m)}
<1>0. p \in 2 .. Len(s) /\ Len(s) \in Nat /\ p \in Nat /\ t \in Nat /\ m # None
  BY LayerFacts DEF Asserting
<1>1. SUFFICES ASSUME NEW j \in t .. p, View(s, e, a, j) # Asserts(m)
               PROVE  FALSE
  OBVIOUS
<1>2. p - j \in Bad
  <2>1. p - j \in Nat /\ p - (p - j) = j
    BY <1>0
  <2>. QED
    BY <1>1, <2>1
<1>3. PICK k \in Bad : \A c \in Bad : k <= c
  <2>1. Bad \in SUBSET Nat /\ Bad # {}
    BY <1>2
  <2>. HIDE DEF Bad
  <2>. QED
    BY <2>1, Smallest
<1>4. PICK i \in t .. p : i = p - k /\ View(s, e, a, i) # Asserts(m)
  BY <1>3
<1>5. i # p
  BY <1>4 DEF Asserting
<1>6. k \in Nat /\ k - 1 \in Nat /\ p - (k - 1) = i + 1 /\ i + 1 \in t + 1 .. p
      /\ i \in 2 .. Len(s) - 1 /\ i + 1 \in 2 .. Len(s) /\ i + 1 \in 3 .. Len(s) /\ i + 1 \in t .. p
  BY <1>0, <1>3, <1>4, <1>5
<1>7. k - 1 \notin Bad
  <2>. HIDE DEF Bad
  <2>. QED
    BY <1>3, <1>6
<1>8. View(s, e, a, i + 1) = Asserts(m)
  BY <1>6, <1>7
<1>9. a[i + 1] = m
  BY <1>6, <1>8, AssertsParts DEF Chain
<1>10. Frame(s[i + 1].by) /\ s[i + 1].by.op = "print"
  BY <1>6 DEF Layered
<1>11. PICK o : o = OutcomeOf(s[i + 1].by, Asserts(a[i + 1]))
  OBVIOUS
<1>12. o = Asserts(m)
  BY <1>0, <1>9, <1>10, <1>11, FramePasses
<1>13. o.assert # None
  BY <1>0, <1>12, AssertsParts
<1>14. View(s, e, a, i) = o
  BY <1>6, <1>11, <1>13, ViewBelow
<1>. QED
  BY <1>4, <1>12, <1>14

\* The stack r is s cut back to its t-th call, whose setjmp returns.
Catches(s, r, t) ==
    /\ Layered(s) /\ Layered(r) /\ Len(r) = t /\ t \in 2 .. Len(s)
    /\ \A i \in 1 .. t - 1 : r[i] = s[i]
    /\ r[t].by = s[t].by /\ r[t].caught

\* An assert that is caught is what leaves the function then.
LEMMA CatchCarries ==
    ASSUME NEW s, NEW r, NEW t, Catches(s, r, t), NEW e, NEW f, NEW q,
           NEW a, Chain(s, e, a), Agree(f \/ Pending(s, e, a) \/ a[2] # None, q),
           NEW p, NEW m, Asserting(s, e, a, p, m), t <= p,
           \A i \in t + 1 .. p : s[i].by.op = "print"
    PROVE  Carries(r, <<m>>, f, q)
<1>1. /\ Layered(s) /\ Layered(r) /\ Len(s) \in Nat /\ t \in Nat /\ t \in 2 .. Len(s) /\ Len(r) = t
      /\ t \in 2 .. p /\ t \in t .. p /\ p \in 2 .. Len(s) /\ p \in Nat /\ r[t].caught
  BY LayerFacts DEF Catches, Asserting
<1>2. \A i \in t .. p : View(s, e, a, i) = Asserts(m)
  BY <1>1, AssertPasses
<1>3. PICK d : d = <<m>>
  OBVIOUS
<1>4. View(r, d, a, t) = Asserts(m)
  <2>1. d[1] = m
    BY <1>3
  <2>. QED
    BY <1>1, <2>1, ViewTop
<1>5. View(r, d, a, t) = View(s, e, a, t)
  BY <1>1, <1>2, <1>4
<1>6. ASSUME NEW i \in 2 .. t, i # t
      PROVE  View(s, e, a, i) = View(r, d, a, i)
  <2>1. i \in 1 .. t - 1 /\ i + 1 \in 1 .. t /\ i # Len(s) /\ i # Len(r)
    BY <1>1, <1>6
  <2>2. (\A j \in 1 .. t - 1 : r[j] = s[j]) /\ r[t].by = s[t].by
    BY DEF Catches
  <2>3. s[i].code = r[i].code
    BY <2>1, <2>2
  <2>4. s[i + 1].by = r[i + 1].by
    BY <1>1, <2>1, <2>2
  <2>. QED
    BY <2>1, <2>3, <2>4, Zenon DEF View
<1>7. \A i \in 2 .. t : View(s, e, a, i) = View(r, d, a, i)
  BY <1>5, <1>6
<1>8. Chain(r, d, a)
  <2>. SUFFICES ASSUME NEW i \in 2 .. t
                PROVE  a[i] = View(r, d, a, i).assert
    BY <1>1 DEF Chain
  <2>1. i \in 2 .. Len(s)
    BY <1>1
  <2>. QED
    BY <1>7, <2>1 DEF Chain
<1>9. Pending(r, d, a) <=> Pending(s, e, a)
  <2>1. ASSUME NEW i \in 2 .. Len(s), View(s, e, a, i).failed, i > t
        PROVE  FALSE
    <3>1. i <= p
      BY <1>1, <2>1 DEF Asserting
    <3>2. View(s, e, a, i) = Asserts(m)
      BY <1>1, <1>2, <2>1, <3>1
    <3>. QED
      BY <2>1, <3>2, AssertsParts
  <2>2. Pending(s, e, a) <=> \E i \in 2 .. t : View(s, e, a, i).failed
    <3>1. /\ \A i \in 2 .. t : i \in 2 .. Len(s)
          /\ \A i \in 2 .. Len(s) : i > t \/ i \in 2 .. t
      BY <1>1
    <3>. QED
      BY <2>1, <3>1 DEF Pending
  <2>3. Pending(r, d, a) <=> \E i \in 2 .. t : View(s, e, a, i).failed
    BY <1>1, <1>7 DEF Pending
  <2>. QED
    BY <2>2, <2>3
<1>10. Carries(r, d, f, q)
  BY <1>8, <1>9, CarriesOn
<1>. QED
  BY <1>3, <1>10

\* An assert that leaves the test fails it.
LEMMA TestAborts ==
    ASSUME NEW s, Layered(s), NEW e, NEW f, NEW q,
           NEW a, Chain(s, e, a), Agree(f \/ Pending(s, e, a) \/ a[2] # None, q),
           NEW p, NEW m, Asserting(s, e, a, p, m),
           Nested \/ \A i \in 3 .. p : s[i].by.op = "print"
    PROVE  Nested \/ q
<1>. SUFFICES ASSUME ~Nested
              PROVE  q
  OBVIOUS
<1>1. 2 \in 2 .. p /\ 2 \in 2 .. Len(s) /\ p \in Nat /\ m # None
  BY LayerFacts DEF Asserting
<1>2. \A i \in 2 + 1 .. p : s[i].by.op = "print"
  BY <1>1
<1>3. View(s, e, a, 2) = Asserts(m)
  BY <1>1, <1>2, AssertPasses
<1>4. a[2] = m
  BY <1>1, <1>3, AssertsParts DEF Chain
<1>. QED
  BY <1>1, <1>4 DEF Agree

-----------------------------------------------------------------------------
(* The calls on the stack.                                                 *)

Within(c, d) == \A j \in DOMAIN c : \E l \in DOMAIN d : c[j] = d[l]

\* Above main() is a test and above it what it expects; what is left of a call
\* is part of the code it was made for; a setjmp that returned by a jump is
\* that of the last call.
Sound(s) ==
    /\ \A i \in 2 .. Len(s) :
         /\ IF i = 2 THEN s[i].by \in Statements /\ s[i].by.op = "test" ELSE Frame(s[i].by)
         /\ Within(s[i].code, s[i].by.code)
    /\ \A i \in 1 .. Len(s) - 1 : ~s[i].caught

\* Without nested expectations there is none above another one, now or later.
Nests(s) ==
    \A i \in 2 .. Len(s) :
      \/ Nested
      \/ IF \E o \in 2 .. i - 1 : s[o].by.op = "expect"
         THEN 1 \notin Levels[s[i].by] ELSE 2 \notin Levels[s[i].by]

\* A sound stack with a test on it is one the outcomes speak of.
LEMMA SoundLayered ==
    ASSUME NEW s \in Seq(Frames), Sound(s), Len(s) >= 2
    PROVE  Layered(s)
<1>1. Len(s) \in Nat
  BY LenProperties
<1>2. \A i \in 3 .. Len(s) : i \in 2 .. Len(s) /\ i # 2
  BY <1>1
<1>3. \A i \in 2 .. Len(s) - 1 : i \in 1 .. Len(s) - 1
  BY <1>1
<1>. QED
  BY <1>2, <1>3 DEF Sound, Layered

\* The stack r is s cut back to a call that goes on with part of its code.
Shortened(s, r) ==
    /\ s \in Seq(Frames) /\ r \in Seq(Frames) /\ Len(r) \in 1 .. Len(s)
    /\ \A i \in 1 .. Len(r) - 1 : r[i] = s[i]
    /\ r[Len(r)].by = s[Len(r)].by
    /\ Within(r[Len(r)].code, s[Len(r)].code)

LEMMA WithinTrans ==
    ASSUME NEW c, NEW d, NEW k, Within(c, d), Within(d, k)
    PROVE  Within(c, k)
  BY DEF Within

LEMMA WithinTail ==
    ASSUME NEW c \in Seq(Statements), c # << >>
    PROVE  Within(Tail(c), c) /\ Within(c, c)
<1>1. /\ Len(c) \in Nat /\ DOMAIN c = 1 .. Len(c) /\ Tail(c) \in Seq(Statements)
      /\ Len(Tail(c)) = Len(c) - 1 /\ \A i \in 1 .. Len(Tail(c)) : Tail(c)[i] = c[i + 1]
  BY LenProperties, HeadTailProperties
<1>2. DOMAIN Tail(c) = 1 .. Len(c) - 1
  BY <1>1, LenProperties
<1>3. \A j \in 1 .. Len(c) - 1 : j + 1 \in 1 .. Len(c) /\ Tail(c)[j] = c[j + 1]
  BY <1>1
<1>. QED
  BY <1>1, <1>2, <1>3 DEF Within

\* A stack that is cut back stays sound.
LEMMA ShortenedSound ==
    ASSUME NEW s, NEW r, Shortened(s, r), Sound(s)
    PROVE  Sound(r) /\ (Nests(s) => Nests(r))
<1>1. PICK n \in Nat : n = Len(r) /\ n >= 1
  BY LenProperties DEF Shortened
<1>2. /\ Len(s) \in Nat /\ n <= Len(s) /\ \A i \in 1 .. n - 1 : r[i] = s[i]
      /\ r[n].by = s[n].by /\ Within(r[n].code, s[n].code)
  BY <1>1, LenProperties DEF Shortened
<1>3. \A i \in 1 .. n : r[i].by = s[i].by
  BY <1>1, <1>2
<1>4. \A i \in 2 .. n : i \in 2 .. Len(s) /\ i \in 1 .. n
  BY <1>2
<1>5. ASSUME NEW i \in 2 .. n
      PROVE  Within(r[i].code, r[i].by.code)
  <2>1. Within(s[i].code, s[i].by.code)
    BY <1>4 DEF Sound
  <2>2. r[i].by = s[i].by
    BY <1>3, <1>4
  <2>3. CASE i = n
    BY <1>2, <2>1, <2>2, <2>3, WithinTrans
  <2>4. CASE i # n
    <3>1. r[i] = s[i]
      BY <1>2, <2>4
    <3>. QED
      BY <2>1, <3>1
  <2>. QED
    BY <2>3, <2>4
<1>6. \A i \in 1 .. n - 1 : ~r[i].caught
  <2>. TAKE i \in 1 .. n - 1
  <2>1. i \in 1 .. Len(s) - 1 /\ r[i] = s[i]
    BY <1>2
  <2>. QED
    BY <2>1 DEF Sound
<1>7. Sound(r)
  BY <1>1, <1>3, <1>4, <1>5, <1>6 DEF Sound
<1>8. ASSUME Nests(s)
      PROVE  Nests(r)
  <2>. SUFFICES ASSUME NEW i \in 2 .. n, ~Nested
                PROVE  IF \E o \in 2 .. i - 1 : r[o].by.op = "expect"
                       THEN 1 \notin Levels[r[i].by] ELSE 2 \notin Levels[r[i].by]
    BY <1>1 DEF Nests
  <2>1. \A o \in 2 .. i - 1 : o \in 1 .. n
    OBVIOUS
  <2>2. (\E o \in 2 .. i - 1 : r[o].by.op = "expect") <=> (\E o \in 2 .. i - 1 : s[o].by.op = "expect")
    BY <1>3, <2>1
  <2>3. r[i].by = s[i].by /\ i \in 2 .. Len(s)
    BY <1>3, <1>4
  <2>. QED
    BY <1>8, <2>2, <2>3 DEF Nests
<1>. QED
  BY <1>7, <1>8

\* The stack r is s with a call for a statement of the last one.
Deepened(s, r, x) ==
    /\ s \in Seq(Frames) /\ r \in Seq(Frames) /\ Len(s) >= 2 /\ Len(r) = Len(s) + 1
    /\ \A i \in 1 .. Len(s) : r[i] = s[i]
    /\ ~s[Len(s)].caught /\ Frame(x)
    /\ r[Len(r)].by = x /\ r[Len(r)].code = x.code
    /\ \E l \in DOMAIN s[Len(s)].by.code : x = s[Len(s)].by.code[l]

\* So does one with a call for a statement of its last call.
LEMMA DeepenedSound ==
    ASSUME NEW s, NEW r, NEW x, Deepened(s, r, x), Sound(s), Nests(s)
    PROVE  Sound(r) /\ Nests(r)
<1>1. PICK n \in Nat : n = Len(s) /\ n >= 2 /\ n + 1 = Len(r)
  BY LenProperties DEF Deepened
<1>2. /\ \A i \in 1 .. n : r[i] = s[i]
      /\ ~s[n].caught /\ Frame(x) /\ r[n + 1].by = x /\ r[n + 1].code = x.code
      /\ \E l \in DOMAIN s[n].by.code : x = s[n].by.code[l]
  BY <1>1 DEF Deepened
<1>3. \A i \in 2 .. n + 1 : i = n + 1 \/ (i \in 2 .. n /\ i \in 1 .. n)
  BY <1>1
<1>4. Sound(r)
  <2>1. ASSUME NEW i \in 2 .. n + 1
        PROVE  /\ IF i = 2 THEN r[i].by \in Statements /\ r[i].by.op = "test" ELSE Frame(r[i].by)
               /\ Within(r[i].code, r[i].by.code)
    <3>1. CASE i = n + 1
      <4>1. i # 2
        BY <1>1, <3>1
      <4>2. Within(x.code, x.code)
        BY DEF Within
      <4>. QED
        BY <1>2, <3>1, <4>1, <4>2
    <3>2. CASE i \in 2 .. n /\ i \in 1 .. n
      <4>1. r[i] = s[i]
        BY <1>2, <3>2
      <4>. QED
        BY <1>1, <3>2, <4>1 DEF Sound
    <3>. QED
      BY <1>3, <3>1, <3>2
  <2>2. \A i \in 1 .. n : ~r[i].caught
    <3>1. \A i \in 1 .. n : i = n \/ i \in 1 .. n - 1
      OBVIOUS
    <3>2. \A i \in 1 .. n - 1 : ~s[i].caught
      BY <1>1 DEF Sound
    <3>. QED
      BY <1>2, <3>1, <3>2
  <2>3. Len(r) - 1 = n
    BY <1>1
  <2>. QED
    BY <1>1, <2>1, <2>2, <2>3 DEF Sound
<1>5. Nests(r)
  <2>. SUFFICES ASSUME NEW i \in 2 .. n + 1, ~Nested
                PROVE  IF \E o \in 2 .. i - 1 : r[o].by.op = "expect"
                       THEN 1 \notin Levels[r[i].by] ELSE 2 \notin Levels[r[i].by]
    BY <1>1 DEF Nests
  <2>0. \A o \in 2 .. i - 1 : o \in 1 .. n
    OBVIOUS
  <2>1. (\E o \in 2 .. i - 1 : r[o].by.op = "expect") <=> (\E o \in 2 .. i - 1 : s[o].by.op = "expect")
    BY <1>2, <2>0
  <2>2. CASE i \in 2 .. n /\ i \in 1 .. n
    <3>1. r[i] = s[i] /\ i \in 2 .. Len(s)
      BY <1>1, <1>2, <2>2
    <3>. QED
      BY <2>1, <3>1 DEF Nests
  <2>3. CASE i = n + 1
    <3>1. PICK st : st = s[n].by
      OBVIOUS
    <3>2. PICK l \in DOMAIN st.code : x = st.code[l]
      BY <1>2, <3>1
    <3>3. n \in 2 .. Len(s) /\ n \in 2 .. n
      BY <1>1
    <3>4. st \in Statements /\ st.op \in {"test", "expect", "print"} /\ (n = 2 => st.op = "test")
      BY <3>1, <3>3 DEF Sound, Frame
    <3>5. IF \E o \in 2 .. n - 1 : s[o].by.op = "expect" THEN 1 \notin Levels[st] ELSE 2 \notin Levels[st]
      BY <3>1, <3>3 DEF Nests
    <3>6. /\ st.op = "expect" => (1 \in Levels[x] => 2 \in Levels[st])
          /\ st.op # "expect" => Levels[x] \subseteq Levels[st]
      BY <3>2, <3>4, LevelsOf
    <3>7. r[i].by = x /\ i - 1 = n
      BY <1>2, <2>3
    <3>8. \A o \in 2 .. n : o = n \/ o \in 2 .. n - 1
      OBVIOUS
    <3>9. CASE st.op = "expect"
      <4>1. 1 \in Levels[st]
        BY <3>4, <3>9, ExpectHasLevel
      <4>2. 2 \notin Levels[st]
        BY <3>5, <4>1
      <4>3. 1 \notin Levels[x]
        BY <3>6, <3>9, <4>2
      <4>4. \E o \in 2 .. n : s[o].by.op = "expect"
        BY <3>1, <3>3, <3>9
      <4>. QED
        BY <2>1, <3>7, <4>3, <4>4
    <3>10. CASE st.op # "expect"
      <4>1. (\E o \in 2 .. n : s[o].by.op = "expect") <=> (\E o \in 2 .. n - 1 : s[o].by.op = "expect")
        <5>1. \A o \in 2 .. n - 1 : o \in 2 .. n
          OBVIOUS
        <5>. QED
          BY <3>1, <3>8, <3>10, <5>1
      <4>. QED
        BY <2>1, <3>5, <3>6, <3>7, <3>10, <4>1
    <3>. QED
      BY <3>9, <3>10
  <2>. QED
    BY <1>3, <2>2, <2>3
<1>. QED
  BY <1>4, <1>5

\* A call of main() alone.
LEMMA MainSound ==
    ASSUME NEW s, Len(s) = 1
    PROVE  Sound(s) /\ Nests(s)
<1>1. 2 .. Len(s) = {} /\ 1 .. Len(s) - 1 = {}
  OBVIOUS
<1>. QED
  BY <1>1 DEF Sound, Nests

-----------------------------------------------------------------------------
(* Where main() is.                                                        *)

\* What is left of main() behind its n-th statement.
Rest(n, code) ==
    /\ code \in Seq(Statements) /\ n \in 0 .. Len(prog) /\ Len(code) = Len(prog) - n
    /\ \A i \in 1 .. Len(code) : code[i] = prog[n + i]

\* env leads into main() behind the last test.
EnvAt(n) ==
    \/ env = Wrap /\ Len(stack) = 1 /\ \A i \in 1 .. n : prog[i].op = "silence"
    \/ /\ env # Wrap
       /\ \E m \in 0 .. n :
            /\ Rest(m, Tail(env))
            /\ \A i \in m + 1 .. n : prog[i].op # "test"
            /\ Len(stack) >= 2 => m = n

At(n) ==
    /\ Rest(n, stack[1].code)
    /\ \A i \in 1 .. n : prog[i].op # "assert"
    /\ EnvAt(n)

\* Some test up to the n-th statement of main() fails.
FailsTo(n) == \E i \in 1 .. n : prog[i].op = "test" /\ TestFails(prog[i])

\* main() has asserted after a test, and will again.
Doomed(n) ==
    /\ env # Wrap
    /\ \E j \in n + 1 .. Len(prog) :
         prog[j].op = "assert" /\ \A i \in n + 1 .. j : prog[i].op # "test"

InMain(n) == Len(stack) = 1 /\ (Doomed(n) \/ Agree(failed, FailsTo(n)))

InTest(n) ==
    /\ Len(stack) >= 2 /\ n >= 1 /\ stack[2].by = prog[n]
    /\ Agree(earlier, FailsTo(n - 1))
    /\ Carries(stack, err, failed, TestFails(prog[n]))

\* A jump to test_env finds its message alone in std_err.
Errs ==
    /\ (ptr = "test_env" /\ ~Top.caught) => err = << >>
    /\ Top.caught => \E m : m # None /\ err = <<m>>

TargetRuns == Open # {} => ptr = "test_env" \/ Nested

Running ==
    /\ Sound(stack) /\ Nests(stack) /\ Errs
    /\ \E n : At(n) /\ (InMain(n) \/ InTest(n))

VerdictInv ==
    /\ JumpInv /\ prog \in Programs /\ failed \in BOOLEAN /\ earlier \in BOOLEAN
    /\ TargetRuns /\ VerdictExact
    /\ exit = "running" => Running

\* main() goes on by a statement.
LEMMA RestOn ==
    ASSUME NEW n, NEW code, Rest(n, code), code # << >>, prog \in Seq(Statements)
    PROVE  /\ Rest(n + 1, Tail(code)) /\ n \in Nat /\ n + 1 \in 1 .. Len(prog)
           /\ prog[n + 1] = Head(code) /\ prog[n + 1] \in Statements
<1>1. Len(prog) \in Nat /\ n \in Nat /\ n <= Len(prog) /\ code \in Seq(Statements)
      /\ Len(code) = Len(prog) - n
  BY LenProperties DEF Rest
<1>2. Len(code) \in Nat /\ Len(code) # 0
  BY <1>1, EmptySeq, LenProperties
<1>3. /\ Head(code) = code[1] /\ Tail(code) \in Seq(Statements) /\ Len(Tail(code)) = Len(code) - 1
      /\ \A i \in 1 .. Len(Tail(code)) : Tail(code)[i] = code[i + 1]
  BY <1>1, HeadTailProperties
<1>4. \A i \in 1 .. Len(code) : code[i] = prog[n + i]
  BY DEF Rest
<1>5. n + 1 \in 1 .. Len(prog) /\ n + 1 \in 0 .. Len(prog) /\ Len(Tail(code)) = Len(prog) - (n + 1)
      /\ 1 \in 1 .. Len(code)
  BY <1>1, <1>2, <1>3
<1>6. ASSUME NEW i \in 1 .. Len(Tail(code))
      PROVE  Tail(code)[i] = prog[(n + 1) + i]
  <2>1. i + 1 \in 1 .. Len(code) /\ n + (i + 1) = (n + 1) + i
    BY <1>1, <1>2, <1>3
  <2>. QED
    BY <1>3, <1>4, <2>1
<1>7. Rest(n + 1, Tail(code))
  BY <1>3, <1>5, <1>6 DEF Rest
<1>8. prog[n + 1] = Head(code)
  BY <1>3, <1>4, <1>5
<1>9. prog[n + 1] \in Statements
  BY <1>5, LenProperties
<1>. QED
  BY <1>1, <1>5, <1>7, <1>8, <1>9

\* main() is made of tests, asserts and silence_output.
LEMMA ProgIs ==
    ASSUME VerdictInv
    PROVE  /\ prog \in Seq(Statements) /\ Len(prog) \in Nat /\ DOMAIN prog = 1 .. Len(prog)
           /\ \A i \in 1 .. Len(prog) : prog[i].op \in {"test", "assert", "silence"}
<1>1. prog \in Programs /\ prog \in Seq(Statements)
  BY ProgramsAssumption DEF VerdictInv
<1>2. Len(prog) \in Nat /\ DOMAIN prog = 1 .. Len(prog)
  BY <1>1, LenProperties
<1>. QED
  BY <1>1, <1>2, FormAssumption

\* env leads behind the test that set it.
LEMMA TailOfTest ==
    ASSUME NEW s \in Seq(Statements)
    PROVE  Tail(<<"test">> \o s) = s /\ <<"test">> \o s # Wrap
<1>. DEFINE c == <<"test">> \o s
            A == Statements \cup {"test"}
<1>1. <<"test">> \in Seq(A) /\ s \in Seq(A) /\ Len(<<"test">>) = 1 /\ Len(s) \in Nat
  BY LenProperties
<1>2. /\ c \in Seq(A) /\ Len(c) = 1 + Len(s)
      /\ \A i \in 1 .. 1 + Len(s) : c[i] = IF i <= 1 THEN <<"test">>[i] ELSE s[i - 1]
  BY <1>1, ConcatProperties
<1>3. c # << >> /\ c[1] = "test"
  BY <1>1, <1>2, EmptySeq
<1>. HIDE DEF c
<1>4. /\ Tail(c) \in Seq(A) /\ Len(Tail(c)) = Len(c) - 1
      /\ \A i \in 1 .. Len(Tail(c)) : Tail(c)[i] = c[i + 1]
  BY <1>2, <1>3, HeadTailProperties
<1>5. Len(Tail(c)) = Len(s)
  BY <1>1, <1>2, <1>4
<1>6. \A i \in 1 .. Len(s) : Tail(c)[i] = s[i]
  BY <1>1, <1>2, <1>4, <1>5
<1>7. Tail(c) = s
  BY <1>1, <1>4, <1>5, <1>6, SeqEqual
<1>8. c # Wrap
  BY <1>3 DEF Wrap
<1>. QED
  BY <1>7, <1>8 DEF c

\* The stack after a statement.
LEMMA AdvancedIs ==
    ASSUME Types, Top.code # << >>, NEW s, s = Advanced
    PROVE  /\ s \in Seq(Frames) /\ Len(s) = Len(stack)
           /\ \A i \in 1 .. Len(stack) - 1 : s[i] = stack[i]
           /\ s[Len(stack)].by = Top.by /\ s[Len(stack)].caught = Top.caught
           /\ s[Len(stack)].code = Tail(Top.code)
<1>1. Len(stack) \in Nat /\ Len(stack) \in 1 .. Len(stack) /\ Top \in Frames
      /\ Tail(Top.code) \in Seq(Statements)
  BY StackFacts, HeadTailProperties
<1>. DEFINE e == [Top EXCEPT !.code = Tail(Top.code)]
<1>2. e \in Frames /\ e.by = Top.by /\ e.caught = Top.caught /\ e.code = Tail(Top.code)
  <2>1. ASSUME NEW c \in Seq(Statements)
        PROVE  /\ [Top EXCEPT !.code = c] \in Frames /\ [Top EXCEPT !.code = c].code = c
               /\ [Top EXCEPT !.code = c].by = Top.by /\ [Top EXCEPT !.code = c].caught = Top.caught
    BY <1>1 DEF Frames
  <2>. QED
    BY <1>1, <2>1
<1>3. s = [stack EXCEPT ![Len(stack)] = e]
  BY DEF Advanced, Top
<1>. HIDE DEF e
<1>4. /\ s \in Seq(Frames) /\ Len(s) = Len(stack)
      /\ \A j \in 1 .. Len(stack) : s[j] = IF j = Len(stack) THEN e ELSE stack[j]
  BY <1>1, <1>2, <1>3, ExceptSeq DEF Types
<1>5. \A i \in 1 .. Len(stack) - 1 : s[i] = stack[i]
  BY <1>1, <1>4
<1>6. s[Len(stack)] = e
  BY <1>1, <1>4
<1>. QED
  BY <1>2, <1>4, <1>5, <1>6

\* The stack r is s with a call for st.
Added(s, r, st) ==
    /\ r \in Seq(Frames) /\ Len(r) = Len(stack) + 1
    /\ \A i \in 1 .. Len(stack) : r[i] = s[i]
    /\ r[Len(stack) + 1].by = st /\ r[Len(stack) + 1].code = st.code
    /\ r[Len(stack) + 1].caught = FALSE

LEMMA CalledIs ==
    ASSUME Types, Top.code # << >>, NEW st \in Statements, st.code \in Seq(Statements)
    PROVE  Added(Advanced, Append(Advanced, Call(st, st.code)), st)
<1>1. PICK s : s = Advanced
  OBVIOUS
<1>2. s \in Seq(Frames) /\ Len(s) = Len(stack)
  BY <1>1, AdvancedIs
<1>3. PICK c : c = Call(st, st.code)
  OBVIOUS
<1>4. c \in Frames /\ c.by = st /\ c.code = st.code /\ c.caught = FALSE
  BY <1>3 DEF Types, Call, Frames
<1>5. /\ Append(s, c) \in Seq(Frames) /\ Len(Append(s, c)) = Len(s) + 1
      /\ \A i \in 1 .. Len(s) : Append(s, c)[i] = s[i]
      /\ Append(s, c)[Len(s) + 1] = c
  BY <1>2, <1>4, AppendProperties
<1>6. PICK r : r = Append(s, c)
  OBVIOUS
<1>7. Added(s, r, st)
  BY <1>2, <1>4, <1>5, <1>6 DEF Added
<1>. QED
  BY <1>1, <1>3, <1>6, <1>7, Zenon

LEMMA UnderIs ==
    ASSUME Types, Len(stack) >= 2, NEW s, s = Under
    PROVE  /\ s \in Seq(Frames) /\ Len(s) = Len(stack) - 1
           /\ \A i \in 1 .. Len(stack) - 1 : s[i] = stack[i]
<1>1. PICK n \in Nat : n = Len(stack) - 1 /\ n \in 1 .. Len(stack)
  <2>1. Len(stack) - 1 \in Nat /\ Len(stack) - 1 \in 1 .. Len(stack)
    BY StackFacts
  <2>. QED
    BY <2>1
<1>2. s = SubSeq(stack, 1, n)
  BY <1>1 DEF Under
<1>3. Cut(SubSeq(stack, 1, n), n) /\ \A i \in 1 .. n : SubSeq(stack, 1, n)[i] = stack[i]
  BY <1>1, PrefixCut
<1>4. s \in Seq(Frames) /\ Len(s) = n /\ \A i \in 1 .. n : s[i] = stack[i]
  <2>1. PICK c : c = SubSeq(stack, 1, n)
    OBVIOUS
  <2>2. c \in Seq(Frames) /\ Len(c) = n /\ \A i \in 1 .. n : c[i] = stack[i]
    BY <1>3, <2>1 DEF Cut
  <2>3. s = c
    BY <1>2, <2>1
  <2>. QED
    BY <2>2, <2>3
<1>. QED
  BY <1>1, <1>4

LEMMA CaughtIs ==
    ASSUME Types, NEW t \in 1 .. Len(stack),
           NEW s, s = [SubSeq(stack, 1, t) EXCEPT ![t].caught = TRUE]
    PROVE  /\ s \in Seq(Frames) /\ Len(s) = t
           /\ \A i \in 1 .. t - 1 : s[i] = stack[i]
           /\ s[t].by = stack[t].by /\ s[t].code = stack[t].code /\ s[t].caught = TRUE
<1>. DEFINE c == SubSeq(stack, 1, t)
            e == [stack[t] EXCEPT !.caught = TRUE]
<1>1. c \in Seq(Frames) /\ Len(c) = t /\ t \in 1 .. t /\ \A i \in 1 .. t : c[i] = stack[i]
  BY PrefixCut, StackFacts DEF Cut
<1>2. stack[t] \in Frames
  BY StackFacts
<1>3. e \in Frames /\ e.by = stack[t].by /\ e.code = stack[t].code /\ e.caught = TRUE
  BY <1>2 DEF Frames
<1>4. s = [c EXCEPT ![t] = e]
  BY <1>1
<1>. HIDE DEF e, c
<1>5. PICK d : d = [c EXCEPT ![t] = e]
  OBVIOUS
<1>6. /\ d \in Seq(Frames) /\ Len(d) = t
      /\ \A i \in 1 .. t : d[i] = IF i = t THEN e ELSE c[i]
  BY <1>1, <1>3, <1>5, ExceptSeq
<1>7. \A i \in 1 .. t - 1 : d[i] = stack[i]
  BY <1>1, <1>6
<1>8. d[t] = e
  BY <1>1, <1>6
<1>9. s = d
  BY <1>4, <1>5
<1>. QED
  BY <1>3, <1>6, <1>7, <1>8, <1>9

-----------------------------------------------------------------------------
(* In a test.                                                              *)

LEMMA NestedSame ==
    ASSUME prog' = prog
    PROVE  /\ Nested' <=> Nested
           /\ \A s : Nests(s) => Nests(s)'
<1>1. Nested' <=> Nested
  BY DEF Nested
<1>. QED
  BY <1>1 DEF Nests

\* Between EOSIO_TEST and its end.
LEMMA TestStands ==
    ASSUME VerdictInv, exit = "running", Len(stack) >= 2
    PROVE  /\ Layered(stack) /\ Sound(stack) /\ Nests(stack) /\ Errs
           /\ \E n : At(n) /\ InTest(n)
<1>1. Running /\ stack \in Seq(Frames) /\ Len(stack) \in Nat
  BY StackFacts DEF VerdictInv, JumpInv, Types
<1>2. PICK n : At(n) /\ (InMain(n) \/ InTest(n))
  BY <1>1 DEF Running
<1>3. InTest(n)
  <2>1. ASSUME Len(stack) = 1
        PROVE  FALSE
    <3>1. 1 >= 2
      BY <2>1, Zenon
    <3>. QED
      BY <3>1
  <2>. QED
    BY <1>2, <2>1 DEF InMain
<1>. QED
  BY <1>1, <1>2, <1>3, SoundLayered DEF Running

\* The test goes on.
LEMMA TestGoesOn ==
    ASSUME VerdictInv, exit = "running", NEW n, At(n), InTest(n), UNCHANGED <<prog, env, earlier, exit>>,
           JumpInv', failed' \in BOOLEAN,
           Len(stack') >= 2, stack'[1].code = stack[1].code, stack'[2].by = stack[2].by,
           Carries(stack', err', failed', TestFails(prog[n])),
           Sound(stack'), Nests(stack'), Errs', TargetRuns'
    PROVE  VerdictInv'
<1>0. prog' = prog /\ env' = env /\ earlier' = earlier /\ exit' = exit
  OBVIOUS
<1>1. Nested' <=> Nested
  BY NestedSame
<1>2. Nests(stack)'
  BY <1>1 DEF Nests
<1>3. At(n)'
  <2>1. Rest(n, stack[1].code)'
    BY <1>0 DEF At, Rest
  <2>2. EnvAt(n)'
    <3>1. PICK m \in 0 .. n : Rest(m, Tail(env)) /\ (\A i \in m + 1 .. n : prog[i].op # "test") /\ m = n
      BY StackFacts DEF At, EnvAt, InTest, VerdictInv, JumpInv
    <3>2. env # Wrap
      BY StackFacts DEF At, EnvAt, InTest, VerdictInv, JumpInv
    <3>3. Rest(m, Tail(env))'
      BY <1>0, <3>1 DEF Rest
    <3>. QED
      BY <1>0, <3>1, <3>2, <3>3 DEF EnvAt
  <2>3. (\A i \in 1 .. n : prog[i].op # "assert")'
    BY <1>0 DEF At
  <2>. QED
    BY <2>1, <2>2, <2>3 DEF At
<1>4. Carries(stack, err, failed, TestFails(prog[n]))'
  <2>1. PICK a : Chain(stack', err', a)
                 /\ Agree(failed' \/ Pending(stack', err', a) \/ a[2] # None, TestFails(prog[n]))
    BY DEF Carries
  <2>2. Agree(failed \/ Pending(stack, err, a) \/ a[2] # None, TestFails(prog[n]))'
    BY <1>0, <1>1, <2>1 DEF Agree
  <2>. QED
    BY <2>1, <2>2 DEF Carries
<1>5. Agree(earlier, FailsTo(n - 1))'
  BY <1>0, <1>1 DEF InTest, Agree, FailsTo
<1>6. InTest(n)'
  BY <1>0, <1>4, <1>5 DEF InTest
<1>7. Running'
  BY <1>2, <1>3, <1>6 DEF Running
<1>. QED
  BY <1>0, <1>7 DEF VerdictInv, VerdictExact

\* A statement of the test that does not assert.
LEMMA StepGood ==
    ASSUME VerdictInv, exit = "running", Len(stack) >= 2, JumpInv', ~Top.caught, Top.code # << >>,
           stack' = Advanced, UNCHANGED <<prog, ptr, env, testenv, earlier, err, exit>>,
           NEW o, o = Outcome[Head(Top.code)], o.assert = None, failed' <=> (failed \/ o.failed),
           failed' \in BOOLEAN
    PROVE  VerdictInv'
<1>0. Types /\ stack \in Seq(Frames) /\ Len(stack) \in Nat /\ DOMAIN stack = 1 .. Len(stack)
  BY StackFacts DEF VerdictInv, JumpInv, Types
<1>1. /\ Layered(stack) /\ Sound(stack) /\ Nests(stack) /\ Errs
  BY TestStands
<1>2. PICK n : At(n) /\ InTest(n)
  BY TestStands
<1>3. PICK r : r = stack'
  OBVIOUS
<1>4. /\ r \in Seq(Frames) /\ Len(r) = Len(stack)
      /\ \A i \in 1 .. Len(stack) - 1 : r[i] = stack[i]
      /\ r[Len(stack)].by = Top.by /\ r[Len(stack)].caught = Top.caught
      /\ r[Len(stack)].code = Tail(Top.code)
  BY <1>0, <1>3, AdvancedIs
<1>5. Shortened(stack, r)
  <2>1. Top.code \in Seq(Statements)
    BY <1>0, StackFacts
  <2>2. Within(Tail(Top.code), Top.code)
    BY <2>1, WithinTail
  <2>3. Len(stack) \in 1 .. Len(stack)
    BY <1>0
  <2>. QED
    BY <1>0, <1>4, <2>2, <2>3 DEF Shortened, Top
<1>6. Sound(r) /\ Nests(r)
  BY <1>1, <1>5, ShortenedSound
<1>7. Layered(r)
  BY <1>4, <1>6, SoundLayered
<1>8. StepsOver(stack, r)
  BY <1>1, <1>4, <1>7 DEF StepsOver, Top
<1>9. Carries(r, err', failed', TestFails(prog[n]))
  <2>1. Carries(stack, err, failed, TestFails(prog[n]))
    BY <1>2 DEF InTest
  <2>2. o = Outcome[Head(stack[Len(stack)].code)]
    BY DEF Top
  <2>. QED
    BY <1>8, <2>1, <2>2, StepCarries
<1>10. \A i \in 1 .. Len(stack) : r[i].by = stack[i].by
  BY <1>0, <1>4 DEF Top
<1>11. r[1].code = stack[1].code /\ r[2].by = stack[2].by
  BY <1>0, <1>4, <1>10
<1>12. Open' = Open
  <2>1. DOMAIN r = 1 .. Len(stack)
    BY <1>4, LenProperties
  <2>. QED
    BY <1>0, <1>3, <1>10, <2>1 DEF Open
<1>13. TargetRuns'
  BY <1>12, NestedSame DEF VerdictInv, TargetRuns
<1>14. Errs'
  BY <1>1, <1>3, <1>4 DEF Errs, Top
<1>. QED
  BY <1>2, <1>3, <1>4, <1>6, <1>9, <1>11, <1>13, <1>14, TestGoesOn

\* The stack stays sound after a statement.
LEMMA AdvancedSound ==
    ASSUME Types, Sound(stack), Nests(stack), Top.code # << >>, NEW s, s = Advanced
    PROVE  Sound(s) /\ Nests(s)
<1>0. stack \in Seq(Frames) /\ Len(stack) \in 1 .. Len(stack)
  BY StackFacts DEF Types
<1>1. PICK r : r = s
  OBVIOUS
<1>2. /\ r \in Seq(Frames) /\ Len(r) = Len(stack)
      /\ \A i \in 1 .. Len(stack) - 1 : r[i] = stack[i]
      /\ r[Len(stack)].by = Top.by
      /\ r[Len(stack)].code = Tail(Top.code)
  BY <1>1, AdvancedIs
<1>3. Within(Tail(Top.code), Top.code)
  BY StackFacts, WithinTail
<1>4. Shortened(stack, r)
  BY <1>0, <1>2, <1>3 DEF Shortened, Top
<1>5. Sound(r) /\ Nests(r)
  BY <1>4, ShortenedSound
<1>. QED
  BY <1>1, <1>5

\* The next statement of a test is part of the code of its call.
LEMMA UpcomingIs ==
    ASSUME Types, Sound(stack), Len(stack) >= 2, Top.code # << >>
    PROVE  /\ Head(Top.code) \in Statements /\ Head(Top.code).op # "test"
           /\ \E l \in DOMAIN Top.by.code : Head(Top.code) = Top.by.code[l]
<1>1. Top.code \in Seq(Statements) /\ Len(stack) \in 2 .. Len(stack)
  BY StackFacts
<1>2. 1 \in DOMAIN Top.code /\ Head(Top.code) = Top.code[1] /\ Head(Top.code) \in Statements
  <2>1. Len(Top.code) \in Nat /\ Len(Top.code) # 0 /\ DOMAIN Top.code = 1 .. Len(Top.code)
    BY <1>1, EmptySeq, LenProperties
  <2>. QED
    BY <1>1, <2>1, HeadTailProperties
<1>3. Within(Top.code, Top.by.code)
  BY <1>1 DEF Sound, Top
<1>4. PICK l \in DOMAIN Top.by.code : Head(Top.code) = Top.by.code[l]
  BY <1>2, <1>3 DEF Within
<1>5. Top.by \in Statements /\ Top.by.op \in {"test", "expect", "print"}
  BY <1>1 DEF Sound, Top, Frame
<1>6. Head(Top.code).op # "test"
  BY <1>4, <1>5, FormAssumption
<1>. QED
  BY <1>2, <1>4, <1>6

\* The function of an expectation begins.
LEMMA EnterGood ==
    ASSUME VerdictInv, exit = "running", Len(stack) >= 2, JumpInv', ~Top.caught, Top.code # << >>,
           NEW st, st = Head(Top.code), st.op \in {"expect", "print"},
           stack' = Append(Advanced, Call(st, st.code)),
           UNCHANGED <<prog, env, failed, earlier, exit>>,
           \/ st.op = "expect" /\ ptr' = "test_env" /\ err' = << >>
           \/ st.op = "print" /\ ptr' = ptr /\ err' = err
    PROVE  VerdictInv'
<1>0. Types /\ stack \in Seq(Frames) /\ Len(stack) \in Nat /\ DOMAIN stack = 1 .. Len(stack)
      /\ Len(stack) \in 1 .. Len(stack)
  BY StackFacts DEF VerdictInv, JumpInv, Types
<1>1. Layered(stack) /\ Sound(stack) /\ Nests(stack) /\ Errs
  BY TestStands
<1>2. PICK n : At(n) /\ InTest(n)
  BY TestStands
<1>3. Frame(st) /\ st \in Statements /\ \E l \in DOMAIN Top.by.code : st = Top.by.code[l]
  BY <1>0, <1>1, UpcomingIs DEF Frame
<1>4. st.code \in Seq(Statements)
  BY <1>3, FrameParts
<1>5. PICK s : s = Advanced
  OBVIOUS
<1>6. PICK r : r = stack'
  OBVIOUS
<1>7. /\ s \in Seq(Frames) /\ Len(s) = Len(stack)
      /\ \A i \in 1 .. Len(stack) - 1 : s[i] = stack[i]
      /\ s[Len(stack)].by = Top.by /\ s[Len(stack)].caught = Top.caught
      /\ s[Len(stack)].code = Tail(Top.code)
  BY <1>0, <1>5, AdvancedIs
<1>8. /\ r \in Seq(Frames) /\ Len(r) = Len(stack) + 1
      /\ \A i \in 1 .. Len(stack) : r[i] = s[i]
      /\ r[Len(stack) + 1].by = st /\ r[Len(stack) + 1].code = st.code
      /\ r[Len(stack) + 1].caught = FALSE
  <2>1. Added(Advanced, stack', st)
    BY <1>0, <1>3, <1>4, CalledIs
  <2>. QED
    BY <1>5, <1>6, <2>1 DEF Added
<1>9. Sound(s) /\ Nests(s)
  BY <1>0, <1>1, <1>5, AdvancedSound
<1>10. Deepened(s, r, st)
  BY <1>3, <1>7, <1>8 DEF Deepened
<1>11. Sound(r) /\ Nests(r)
  BY <1>9, <1>10, DeepenedSound
<1>12. Len(r) >= 2
  BY <1>0, <1>8
<1>13. Layered(r)
  BY <1>8, <1>11, <1>12, SoundLayered
<1>14. \A i \in 1 .. Len(stack) - 1 : r[i] = stack[i]
  BY <1>0, <1>7, <1>8
<1>15. r[Len(stack)] = s[Len(stack)]
  BY <1>0, <1>8
<1>16. Enters(stack, r, st)
  BY <1>1, <1>3, <1>7, <1>8, <1>13, <1>14, <1>15 DEF Enters, Top
<1>17. Carries(r, err', failed, TestFails(prog[n]))
  <2>1. Carries(stack, err, failed, TestFails(prog[n]))
    BY <1>2 DEF InTest
  <2>2. PICK x : Enters(stack, r, x)
    BY <1>16
  <2>. QED
    BY <2>1, <2>2, EnterCarries
<1>18. \A i \in 1 .. Len(stack) : r[i].by = stack[i].by
  <2>1. \A i \in 1 .. Len(stack) : s[i].by = stack[i].by
    BY <1>0, <1>7 DEF Top
  <2>. QED
    BY <1>8, <2>1
<1>19. r[1].code = stack[1].code /\ r[2].by = stack[2].by
  BY <1>0, <1>14, <1>18
<1>20. TargetRuns'
  <2>1. CASE st.op = "expect"
    BY <2>1 DEF TargetRuns
  <2>2. CASE st.op = "print"
    <3>1. DOMAIN r = 1 .. Len(stack) + 1
      BY <1>8, LenProperties
    <3>2. ASSUME NEW i \in 1 .. Len(stack) + 1, r[i].by.op = "expect"
          PROVE  i \in 1 .. Len(stack) /\ stack[i].by.op = "expect"
      BY <1>0, <1>8, <1>18, <2>2, <3>2
    <3>3. Open' # {} => Open # {}
      BY <1>0, <1>6, <3>1, <3>2 DEF Open
    <3>. QED
      BY <2>2, <3>3, NestedSame DEF VerdictInv, TargetRuns
  <2>. QED
    BY <2>1, <2>2
<1>21. Top'.caught = FALSE
  BY <1>6, <1>8 DEF Top
<1>22. Errs'
  BY <1>1, <1>21 DEF Errs
<1>23. failed' \in BOOLEAN /\ failed' = failed
  BY DEF VerdictInv
<1>. QED
  BY <1>2, <1>6, <1>11, <1>12, <1>17, <1>19, <1>20, <1>22, <1>23, TestGoesOn

\* An expectation on top of the stack is the only one, unless they are nested.
LEMMA NoneBelow ==
    ASSUME Types, Sound(stack), Nests(stack), Top.by.op = "expect"
    PROVE  Nested \/ \A o \in 2 .. Len(stack) - 1 : stack[o].by.op # "expect"
<1>. SUFFICES ASSUME ~Nested, NEW o \in 2 .. Len(stack) - 1, stack[o].by.op = "expect"
              PROVE  FALSE
  OBVIOUS
<1>1. Len(stack) \in 3 .. Len(stack) /\ Len(stack) \in 2 .. Len(stack) /\ Len(stack) # 2
  BY StackFacts
<1>2. Frame(Top.by)
  BY <1>1 DEF Sound, Top
<1>3. 1 \in Levels[Top.by]
  BY <1>2, ExpectHasLevel DEF Frame
<1>. QED
  BY <1>1, <1>3 DEF Nests, Top

\* A function that has returned or asserted, its expectation met or a CHECK.
LEMMA LeaveGood ==
    ASSUME VerdictInv, exit = "running", Len(stack) >= 3, JumpInv', stack' = Under,
           UNCHANGED <<prog, env, testenv, earlier, exit>>,
           NEW m, Ending(stack, err, m),
           NEW o, o = OutcomeOf(Top.by, Asserts(m)), o.assert = None,
           failed' <=> (failed \/ o.failed), failed' \in BOOLEAN,
           \/ Top.by.op = "expect" /\ ptr' = "env"
           \/ Top.by.op = "print" /\ ptr' = ptr /\ err' = err /\ ~Top.caught
    PROVE  VerdictInv'
<1>0. Types /\ stack \in Seq(Frames) /\ Len(stack) \in Nat /\ DOMAIN stack = 1 .. Len(stack)
      /\ Len(stack) >= 2 /\ Len(stack) - 1 \in 1 .. Len(stack) - 1 /\ Len(stack) - 1 \in 1 .. Len(stack)
      /\ Len(stack) = (Len(stack) - 1) + 1 /\ Len(stack) - 1 >= 2
  BY StackFacts DEF VerdictInv, JumpInv, Types
<1>1. Layered(stack) /\ Sound(stack) /\ Nests(stack) /\ Errs
  BY <1>0, TestStands
<1>2. PICK n : At(n) /\ InTest(n)
  BY <1>0, TestStands
<1>3. PICK r : r = stack'
  OBVIOUS
<1>4. r \in Seq(Frames) /\ Len(r) = Len(stack) - 1 /\ \A i \in 1 .. Len(stack) - 1 : r[i] = stack[i]
  BY <1>0, <1>3, UnderIs
<1>5. Shortened(stack, r)
  <2>1. \A c : Within(c, c)
    BY DEF Within
  <2>2. \A i \in 1 .. Len(r) : r[i] = stack[i]
    BY <1>4
  <2>3. Len(r) \in 1 .. Len(r) /\ \A i \in 1 .. Len(r) - 1 : i \in 1 .. Len(r)
    BY <1>0, <1>4
  <2>. QED
    BY <1>0, <1>4, <2>1, <2>2, <2>3 DEF Shortened
<1>6. Sound(r) /\ Nests(r)
  BY <1>1, <1>5, ShortenedSound
<1>7. Layered(r)
  BY <1>0, <1>4, <1>6, SoundLayered
<1>8. ~r[Len(r)].caught
  BY <1>0, <1>1, <1>4 DEF Sound
<1>9. Leaves(stack, r)
  BY <1>0, <1>1, <1>4, <1>7, <1>8 DEF Leaves
<1>10. Carries(r, err', failed', TestFails(prog[n]))
  <2>1. Carries(stack, err, failed, TestFails(prog[n]))
    BY <1>2 DEF InTest
  <2>2. o = OutcomeOf(stack[Len(stack)].by, Asserts(m))
    BY DEF Top
  <2>. QED
    BY <1>9, <2>1, <2>2, LeaveCarries
<1>11. r[1].code = stack[1].code /\ r[2].by = stack[2].by
  BY <1>0, <1>4
<1>12. DOMAIN r = 1 .. Len(stack) - 1
  BY <1>4, LenProperties
<1>13. TargetRuns'
  <2>1. CASE Top.by.op = "expect"
    <3>1. stack[1].by.op # "expect"
      BY DEF VerdictInv, JumpInv, RootIsMain
    <3>2. Nested \/ \A i \in 1 .. Len(stack) - 1 : stack[i].by.op # "expect"
      <4>1. \A i \in 1 .. Len(stack) - 1 : i = 1 \/ i \in 2 .. Len(stack) - 1
        BY <1>0
      <4>. QED
        BY <1>0, <1>1, <2>1, <3>1, <4>1, NoneBelow
    <3>3. Nested \/ Open' = {}
      BY <1>3, <1>4, <1>12, <3>2 DEF Open
    <3>. QED
      BY <3>3, NestedSame DEF TargetRuns
  <2>2. CASE Top.by.op = "print"
    <3>1. \A i \in 1 .. Len(stack) - 1 : i \in 1 .. Len(stack)
      BY <1>0
    <3>2. Open' # {} => Open # {}
      BY <1>0, <1>3, <1>4, <1>12, <3>1 DEF Open
    <3>. QED
      BY <2>2, <3>2, NestedSame DEF VerdictInv, TargetRuns
  <2>. QED
    BY <2>1, <2>2
<1>14. ~Top'.caught
  BY <1>3, <1>8 DEF Top
<1>15. Errs'
  BY <1>1, <1>14 DEF Errs
<1>16. Len(r) >= 2
  BY <1>0, <1>4
<1>. QED
  BY <1>0, <1>2, <1>3, <1>6, <1>10, <1>11, <1>13, <1>15, <1>16, TestGoesOn

\* The calls of the test come to what a says.
Carried(a, q) ==
    Chain(stack, err, a) /\ Agree(failed \/ Pending(stack, err, a) \/ a[2] # None, q)

\* The setjmp of the innermost expectation returns.
LEMMA JumpCaught ==
    ASSUME VerdictInv, exit = "running", Len(stack) >= 2, JumpInv',
           NEW n, At(n), InTest(n), NEW a, Carried(a, TestFails(prog[n])),
           NEW p, NEW m, Asserting(stack, err, a, p, m), testenv <= p,
           ptr = "test_env", ptr' = "test_env", err' = <<m>>,
           stack' = [SubSeq(stack, 1, testenv) EXCEPT ![testenv].caught = TRUE],
           UNCHANGED <<prog, env, failed, earlier, exit>>
    PROVE  VerdictInv'
<1>0. Types /\ stack \in Seq(Frames) /\ Len(stack) \in Nat /\ DOMAIN stack = 1 .. Len(stack)
  BY StackFacts DEF VerdictInv, JumpInv, Types
<1>1. Layered(stack) /\ Sound(stack) /\ Nests(stack)
  BY TestStands
<1>2. testenv \in 1 .. Len(stack) /\ stack[testenv].by.op = "expect"
      /\ \A i \in 1 .. Len(stack) : stack[i].by.op = "expect" => i <= testenv
  BY <1>0 DEF VerdictInv, JumpInv, TargetOnStack, Open
<1>3. stack[1].by.op # "expect" /\ stack[2].by.op # "expect"
  <2>1. 2 \in 2 .. Len(stack)
    BY <1>0
  <2>. QED
    BY <1>1, <2>1 DEF Sound, VerdictInv, JumpInv, RootIsMain, Main
<1>4. PICK t \in Nat : t = testenv /\ t \in 3 .. Len(stack) /\ t \in 2 .. Len(stack) /\ t \in 1 .. Len(stack)
                       /\ 1 \in 1 .. t - 1 /\ 2 \in 1 .. t - 1
  BY <1>0, <1>2, <1>3
<1>5. PICK r : r = stack'
  OBVIOUS
<1>6. /\ r \in Seq(Frames) /\ Len(r) = t
      /\ \A i \in 1 .. t - 1 : r[i] = stack[i]
      /\ r[t].by = stack[t].by /\ r[t].code = stack[t].code /\ r[t].caught = TRUE
  BY <1>0, <1>4, <1>5, CaughtIs
<1>7. Shortened(stack, r)
  <2>1. Within(stack[t].code, stack[t].code)
    BY DEF Within
  <2>. QED
    BY <1>0, <1>4, <1>6, <2>1 DEF Shortened
<1>8. Sound(r) /\ Nests(r)
  BY <1>1, <1>7, ShortenedSound
<1>9. Len(r) >= 2
  BY <1>4, <1>6
<1>10. Layered(r)
  BY <1>6, <1>8, <1>9, SoundLayered
<1>11. Catches(stack, r, t)
  BY <1>1, <1>4, <1>6, <1>10 DEF Catches
<1>12. \A i \in t + 1 .. p : stack[i].by.op = "print"
  <2>. SUFFICES ASSUME NEW i \in t + 1 .. p
                PROVE  stack[i].by.op = "print"
    OBVIOUS
  <2>1. p \in 2 .. Len(stack)
    BY DEF Asserting
  <2>2. i \in 3 .. Len(stack) /\ i \in 1 .. Len(stack) /\ ~(i <= t)
    BY <1>0, <1>4, <2>1
  <2>3. Frame(stack[i].by) /\ stack[i].by.op # "expect"
    BY <1>1, <1>2, <1>4, <2>2 DEF Layered
  <2>. QED
    BY <2>3 DEF Frame
<1>13. Carries(r, <<m>>, failed, TestFails(prog[n]))
  <2>1. t <= p
    BY <1>4
  <2>2. PICK q : q = TestFails(prog[n])
    OBVIOUS
  <2>3. Chain(stack, err, a) /\ Agree(failed \/ Pending(stack, err, a) \/ a[2] # None, q)
    BY <2>2 DEF Carried
  <2>4. Carries(r, <<m>>, failed, q)
    BY <1>11, <1>12, <2>1, <2>3, CatchCarries
  <2>. QED
    BY <2>2, <2>4
<1>14. r[1].code = stack[1].code /\ r[2].by = stack[2].by
  BY <1>4, <1>6
<1>15. TargetRuns'
  BY DEF TargetRuns
<1>16. m # None
  BY DEF Asserting
<1>17. Top'.caught
  BY <1>5, <1>6 DEF Top
<1>18. Errs'
  BY <1>16, <1>17 DEF Errs
<1>19. failed' \in BOOLEAN /\ failed' = failed
  BY DEF VerdictInv
<1>20. Carries(stack', err', failed', TestFails(prog[n]))
  BY <1>5, <1>13, <1>19
<1>. QED
  BY <1>5, <1>8, <1>9, <1>14, <1>15, <1>18, <1>19, <1>20, TestGoesOn

\* The jump leaves the test.
LEMMA JumpAborts ==
    ASSUME VerdictInv, exit = "running", Len(stack) >= 2, JumpInv',
           NEW n, At(n), InTest(n), NEW a, Carried(a, TestFails(prog[n])),
           NEW p, NEW m, Asserting(stack, err, a, p, m),
           Nested \/ \A i \in 3 .. p : stack[i].by.op = "print",
           stack' = <<Call(Main, Tail(env))>>, failed' = TRUE,
           UNCHANGED <<prog, env, earlier, exit>>
    PROVE  VerdictInv'
<1>0. Types /\ stack \in Seq(Frames) /\ Len(stack) \in Nat /\ Len(prog) \in Nat
      /\ prog' = prog /\ env' = env /\ exit' = exit
  BY StackFacts, ProgIs DEF VerdictInv, JumpInv, Types
<1>1. Layered(stack) /\ Sound(stack) /\ Nests(stack)
  BY TestStands
<1>2. env # Wrap /\ Rest(n, Tail(env))
  <2>1. Len(stack) # 1
    <3>1. ASSUME Len(stack) = 1
          PROVE  1 >= 2
      BY <3>1, Zenon
    <3>. QED
      BY <3>1
  <2>2. EnvAt(n)
    BY DEF At
  <2>. QED
    BY <2>1, <2>2 DEF EnvAt
<1>3. PICK c : c = Tail(env)
  OBVIOUS
<1>4. PICK r : r = stack'
  OBVIOUS
<1>5. Len(r) = 1 /\ r[1].by = Main /\ r[1].code = c /\ r[1].caught = FALSE /\ DOMAIN r = {1}
  <2>1. PICK f : f = Call(Main, c)
    OBVIOUS
  <2>2. f.by = Main /\ f.code = c /\ f.caught = FALSE
    BY <2>1 DEF Call
  <2>3. r = <<f>>
    BY <1>3, <1>4, <2>1
  <2>. QED
    BY <2>2, <2>3
<1>6. Sound(r) /\ Nests(r)
  BY <1>5, MainSound
<1>7. Nested' <=> Nested
  BY NestedSame
<1>8. Sound(stack)' /\ Nests(stack)'
  BY <1>4, <1>6, <1>7 DEF Nests, Sound
<1>9. Open' = {}
  BY <1>4, <1>5 DEF Open, Main
<1>10. TargetRuns'
  BY <1>9 DEF TargetRuns
<1>11. ptr' # "test_env"
  BY <1>9 DEF JumpInv, TargetOnStack
<1>12. Errs'
  BY <1>4, <1>5, <1>11 DEF Errs, Top
<1>13. n \in Nat /\ n \in 0 .. n /\ n \in 1 .. n
  BY <1>0 DEF At, Rest, InTest
<1>14. Rest(n, c)'
  BY <1>0, <1>2, <1>3 DEF Rest
<1>15. At(n)'
  <2>1. Rest(n, stack[1].code)'
    BY <1>4, <1>5, <1>14 DEF Rest
  <2>2. EnvAt(n)'
    <3>1. (\E l \in 0 .. n : Rest(l, Tail(env)) /\ (\A i \in l + 1 .. n : prog[i].op # "test")
                             /\ (Len(stack) >= 2 => l = n))'
      <4>1. Rest(n, Tail(env))'
        BY <1>0, <1>3, <1>14 DEF Rest
      <4>2. \A i \in n + 1 .. n : FALSE
        BY <1>13
      <4>. QED
        BY <1>13, <4>1, <4>2
    <3>. QED
      BY <1>0, <1>2, <3>1 DEF EnvAt
  <2>3. (\A i \in 1 .. n : prog[i].op # "assert")'
    BY <1>0 DEF At
  <2>. QED
    BY <2>1, <2>2, <2>3 DEF At
<1>16. Nested \/ TestFails(prog[n])
  <2>1. PICK q : q = TestFails(prog[n])
    OBVIOUS
  <2>2. Chain(stack, err, a) /\ Agree(failed \/ Pending(stack, err, a) \/ a[2] # None, q)
    BY <2>1 DEF Carried
  <2>3. Nested \/ q
    BY <1>1, <2>2, TestAborts
  <2>. QED
    BY <2>1, <2>3
<1>17. prog[n].op = "test"
  <2>1. 2 \in 2 .. Len(stack)
    BY <1>0
  <2>. QED
    BY <1>1, <2>1 DEF Sound, InTest
<1>18. Nested \/ FailsTo(n)
  BY <1>13, <1>16, <1>17 DEF FailsTo
<1>19. FailsTo(n)' <=> FailsTo(n)
  BY <1>0 DEF FailsTo
<1>20. Agree(failed, FailsTo(n))'
  BY <1>7, <1>18, <1>19 DEF Agree
<1>21. InMain(n)'
  BY <1>4, <1>5, <1>20 DEF InMain
<1>22. Running'
  BY <1>8, <1>12, <1>15, <1>21 DEF Running
<1>. QED
  BY <1>0, <1>10, <1>22 DEF VerdictInv, VerdictExact

\* A longjmp out of a test.
LEMMA JumpGood ==
    ASSUME VerdictInv, exit = "running", Len(stack) >= 2, JumpInv',
           NEW n, At(n), InTest(n), NEW a, Carried(a, TestFails(prog[n])),
           NEW p, NEW m, Asserting(stack, err, a, p, m),
           NEW messages, Longjmp(ptr', messages, m), UNCHANGED <<prog, env, testenv, earlier>>,
           ptr' = "test_env" => ptr = "test_env" /\ messages = << >> /\ testenv <= p,
           ptr' = "env" => Nested \/ \A i \in 3 .. p : stack[i].by.op = "print"
    PROVE  VerdictInv'
<1>1. CASE ptr' = "test_env"
  <2>1. /\ err' = <<m>> /\ UNCHANGED <<prog, env, failed, earlier, exit>>
        /\ stack' = [SubSeq(stack, 1, testenv) EXCEPT ![testenv].caught = TRUE]
    BY <1>1 DEF Longjmp, Put
  <2>2. ptr = "test_env" /\ testenv <= p
    BY <1>1
  <2>. QED
    BY <1>1, <2>1, <2>2, JumpCaught
<1>2. CASE ptr' = "env"
  <2>1. env # Wrap
    <3>1. Len(stack) # 1
      <4>1. ASSUME Len(stack) = 1
            PROVE  1 >= 2
        BY <4>1, Zenon
      <4>. QED
        BY <4>1
    <3>2. EnvAt(n)
      BY DEF At
    <3>. QED
      BY <3>1, <3>2 DEF EnvAt
  <2>2. /\ stack' = <<Call(Main, Tail(env))>> /\ failed' = TRUE
        /\ UNCHANGED <<prog, env, earlier, exit>>
    BY <1>2, <2>1 DEF Longjmp
  <2>3. Nested \/ \A i \in 3 .. p : stack[i].by.op = "print"
    BY <1>2
  <2>. QED
    BY <2>2, <2>3, JumpAborts
<1>3. ptr' \in {"env", "test_env"}
  BY DEF JumpInv, Types
<1>. QED
  BY <1>1, <1>2, <1>3

\* A statement of the test that asserts.
LEMMA AssertGood ==
    ASSUME VerdictInv, exit = "running", Len(stack) >= 2, JumpInv', ~Top.caught, Top.code # << >>,
           NEW m, m # None, Outcome[Head(Top.code)] = Asserts(m), ptr' = ptr, Longjmp(ptr', err, m),
           UNCHANGED <<prog, env, testenv, earlier>>
    PROVE  VerdictInv'
<1>0. Types /\ stack \in Seq(Frames) /\ Len(stack) \in Nat /\ DOMAIN stack = 1 .. Len(stack)
      /\ Top.code \in Seq(Statements)
  BY StackFacts DEF VerdictInv, JumpInv, Types
<1>1. Layered(stack) /\ Sound(stack) /\ Errs
  BY TestStands
<1>2. PICK n : At(n) /\ InTest(n)
  BY TestStands
<1>3. PICK a : Carried(a, TestFails(prog[n]))
  BY <1>2 DEF InTest, Carries, Carried
<1>4. PICK p \in Nat : p = Len(stack) /\ p \in 2 .. Len(stack)
  <2>1. Len(stack) \in Nat /\ Len(stack) \in 2 .. Len(stack)
    BY <1>0
  <2>. QED
    BY <2>1
<1>5. View(stack, err, a, p) = Asserts(m)
  <2>1. PICK o : o = Outcome[Head(Top.code)]
    OBVIOUS
  <2>2. o = Asserts(m) /\ o.assert # None
    BY <2>1, AssertsParts
  <2>3. Listed(Outcome, Top.code) = o
    <3>1. PICK code \in Seq(Statements) : code = Top.code
      BY <1>0
    <3>2. code # << >> /\ o = Outcome[Head(code)]
      BY <2>1, <3>1
    <3>3. Listed(Outcome, code) = o
      BY <2>2, <3>2, NextStatement
    <3>. QED
      BY <3>1, <3>3
  <2>4. View(stack, err, a, Len(stack)) = Listed(Outcome, stack[Len(stack)].code)
    BY <1>1, ViewTop DEF Top
  <2>. QED
    BY <1>4, <2>2, <2>3, <2>4 DEF Top
<1>6. Asserting(stack, err, a, p, m)
  <2>1. \A i \in 2 .. Len(stack) : ~(i > p)
    BY <1>0, <1>4
  <2>. QED
    BY <1>4, <1>5, <2>1 DEF Asserting
<1>7. ASSUME ptr' = "test_env"
      PROVE  ptr = "test_env" /\ err = << >> /\ testenv <= p
  <2>1. testenv \in 1 .. Len(stack)
    BY <1>0, <1>7 DEF VerdictInv, JumpInv, TargetOnStack, Open
  <2>. QED
    BY <1>0, <1>1, <1>4, <1>7, <2>1 DEF Errs
<1>8. ASSUME ptr' = "env", ~Nested
      PROVE  \A i \in 3 .. p : stack[i].by.op = "print"
  <2>1. Open = {}
    BY <1>8 DEF VerdictInv, TargetRuns
  <2>. SUFFICES ASSUME NEW i \in 3 .. p
                PROVE  stack[i].by.op = "print"
    OBVIOUS
  <2>2. i \in 3 .. Len(stack) /\ i \in DOMAIN stack
    BY <1>0, <1>4
  <2>3. Frame(stack[i].by) /\ stack[i].by.op # "expect"
    BY <1>1, <2>1, <2>2 DEF Layered, Open
  <2>. QED
    BY <2>3 DEF Frame
<1>. QED
  BY <1>2, <1>3, <1>6, <1>7, <1>8, JumpGood

\* A REQUIRE that is not met.
LEMMA RequireGood ==
    ASSUME VerdictInv, exit = "running", Len(stack) >= 3, JumpInv', NEW x, Ending(stack, err, x),
           NEW m, m # None, OutcomeOf(Top.by, Asserts(x)) = Asserts(m),
           NEW messages, Longjmp(ptr', messages, m), UNCHANGED <<prog, env, testenv, earlier>>,
           \/ Top.by.op = "expect" /\ ptr' = "env"
           \/ Top.by.op = "print" /\ ptr' = ptr /\ messages = err /\ ~Top.caught
    PROVE  VerdictInv'
<1>0. Types /\ stack \in Seq(Frames) /\ Len(stack) \in Nat /\ DOMAIN stack = 1 .. Len(stack)
      /\ Len(stack) >= 2
  BY StackFacts DEF VerdictInv, JumpInv, Types
<1>1. Layered(stack) /\ Sound(stack) /\ Nests(stack) /\ Errs
  BY <1>0, TestStands
<1>2. PICK n : At(n) /\ InTest(n)
  BY <1>0, TestStands
<1>3. PICK a : Carried(a, TestFails(prog[n]))
  BY <1>2 DEF InTest, Carries, Carried
<1>4. PICK p \in Nat : p >= 2 /\ p + 1 = Len(stack) /\ p \in 2 .. Len(stack) /\ p \in 1 .. Len(stack)
  <2>1. Len(stack) - 1 \in Nat /\ Len(stack) - 1 >= 2 /\ (Len(stack) - 1) + 1 = Len(stack)
        /\ Len(stack) - 1 \in 2 .. Len(stack) /\ Len(stack) - 1 \in 1 .. Len(stack)
    BY <1>0
  <2>. QED
    BY <2>1
<1>5. View(stack, err, a, p) = Asserts(m) /\ View(stack, err, a, p + 1).failed = FALSE
  <2>1. PICK o : o = OutcomeOf(stack[Len(stack)].by, Asserts(x))
    OBVIOUS
  <2>2. o = Asserts(m)
    BY <2>1 DEF Top
  <2>3. o.assert # None
    BY <2>2, AssertsParts
  <2>4. Chain(stack, err, a)
    BY <1>3 DEF Carried
  <2>5. EndsBelow(stack, err, a, p, OutcomeOf(stack[Len(stack)].by, Asserts(x)))
    BY <1>1, <1>4, <2>4, EndingBelow
  <2>6. EndsBelow(stack, err, a, p, o)
    BY <2>1, <2>5
  <2>. QED
    BY <2>2, <2>3, <2>6 DEF EndsBelow
<1>6. Asserting(stack, err, a, p, m)
  <2>1. \A i \in 2 .. Len(stack) : i > p => i = p + 1
    BY <1>0, <1>4
  <2>. QED
    BY <1>4, <1>5, <2>1 DEF Asserting
<1>7. ASSUME ptr' = "test_env"
      PROVE  ptr = "test_env" /\ messages = << >> /\ testenv <= p
  <2>1. ptr = "test_env" /\ messages = err /\ ~Top.caught /\ Top.by.op = "print"
    BY <1>7
  <2>2. testenv \in 1 .. Len(stack) /\ stack[testenv].by.op = "expect"
    BY <1>0, <2>1 DEF VerdictInv, JumpInv, TargetOnStack, Open
  <2>3. testenv # Len(stack)
    BY <2>1, <2>2 DEF Top
  <2>4. testenv <= p
    <3>1. PICK t : t = testenv
      OBVIOUS
    <3>2. PICK k \in Nat : k = Len(stack)
      BY <1>0
    <3>3. t \in 1 .. k /\ t # k /\ p + 1 = k
      BY <1>4, <2>2, <2>3, <3>1, <3>2
    <3>4. t <= p
      BY <3>3
    <3>. QED
      BY <3>1, <3>4
  <2>. QED
    BY <1>1, <2>1, <2>4 DEF Errs
<1>8. ASSUME ptr' = "env", ~Nested
      PROVE  \A i \in 3 .. p : stack[i].by.op = "print"
  <2>1. \A i \in 3 .. p : stack[i].by.op # "expect"
    <3>1. CASE Top.by.op = "expect"
      <4>1. \A i \in 2 .. Len(stack) - 1 : stack[i].by.op # "expect"
        BY <1>0, <1>1, <1>8, <3>1, NoneBelow
      <4>2. \A i \in 3 .. p : i \in 2 .. Len(stack) - 1
        BY <1>0, <1>4
      <4>. QED
        BY <4>1, <4>2
    <3>2. CASE ptr' = ptr
      <4>1. Open = {}
        BY <1>8, <3>2 DEF VerdictInv, TargetRuns
      <4>2. \A i \in 3 .. p : i \in DOMAIN stack
        BY <1>0, <1>4
      <4>. QED
        BY <4>1, <4>2 DEF Open
    <3>. QED
      BY <3>1, <3>2
  <2>2. \A i \in 3 .. p : i \in 3 .. Len(stack)
    BY <1>0, <1>4
  <2>. QED
    BY <1>1, <2>1, <2>2 DEF Layered, Frame
<1>9. Len(stack) >= 2
  BY <1>0
<1>. QED
  BY <1>2, <1>3, <1>6, <1>7, <1>8, <1>9, JumpGood

\* The outcome of an assert, of silence_output and of REQUIRE_EQUAL and
\* CHECK_EQUAL.
LEMMA PlainMakes ==
    ASSUME NEW st \in Statements, NEW o, o = Outcome[st]
    PROVE  /\ st.op = "assert" => o = Asserts(st.msg) /\ st.msg # None
           /\ st.op = "silence" => o.assert = None /\ ~o.failed
<1>1. PICK inner : inner = InnerOf(Outcome, st)
  OBVIOUS
<1>2. o = OutcomeOf(st, inner)
  BY <1>1, OutcomeUnfolds
<1>3. st.op = "assert" => o = Asserts(st.msg) /\ st.msg # None
  BY <1>2, OutcomeCases, FormAssumption
<1>4. st.op = "silence" => o = Passed
  BY <1>2, OutcomeCases
<1>. QED
  BY <1>3, <1>4 DEF Passed

EqualMakes(st, o) ==
    /\ st.ok \in BOOLEAN /\ st.must \in BOOLEAN
    /\ st.ok => o.assert = None /\ ~o.failed
    /\ (~st.ok /\ ~st.must) => o.assert = None /\ o.failed
    /\ (~st.ok /\ st.must) => o = Asserts("not equal")

\* What REQUIRE_EQUAL and CHECK_EQUAL come to.
LEMMA EqualMade ==
    ASSUME NEW st \in Statements, st.op = "equal"
    PROVE  EqualMakes(st, Outcome[st])
<1>1. PICK inner : inner = InnerOf(Outcome, st)
  OBVIOUS
<1>2. PICK o : o = Outcome[st]
  OBVIOUS
<1>3. o = OutcomeOf(st, inner)
  BY <1>1, <1>2, OutcomeUnfolds
<1>4. o = Judged(st, st.ok, "not equal", Passed)
  BY <1>3, OutcomeCases
<1>5. st.ok \in BOOLEAN /\ st.must \in BOOLEAN
  BY FormAssumption
<1>6. PICK met \in BOOLEAN : met = st.ok
  BY <1>5, Zenon
<1>7. PICK msg : msg = "not equal"
  OBVIOUS
<1>8. PICK pass : pass = Passed
  OBVIOUS
<1>9. pass.failed \in BOOLEAN /\ ~pass.failed
  BY <1>8 DEF Passed
<1>10. o = Judged(st, met, msg, pass)
  BY <1>4, <1>6, <1>7, <1>8, Zenon
<1>11. /\ Whole(o) /\ o.failed \in BOOLEAN
       /\ (st.must /\ ~met) => o.assert = msg
       /\ ~(st.must /\ ~met) => o.assert = None
       /\ o.failed <=> (pass.failed \/ (~st.must /\ ~met))
  BY <1>5, <1>9, <1>10, JudgedParts
<1>12. ASSUME ~st.ok, st.must
       PROVE  o = Asserts("not equal")
  <2>1. PICK p : p = Asserts(msg)
    OBVIOUS
  <2>2. Whole(p) /\ p.assert = msg /\ p.failed = FALSE
    BY <2>1, AssertsParts
  <2>3. o.assert = msg /\ ~o.failed
    BY <1>6, <1>9, <1>11, <1>12, Zenon
  <2>4. o.failed = FALSE
    BY <1>11, <2>3
  <2>5. o = p
    BY <1>11, <2>2, <2>3, <2>4, SameOutcome
  <2>. QED
    BY <1>7, <2>1, <2>5
<1>13. st.ok => o.assert = None /\ ~o.failed
  BY <1>6, <1>9, <1>11, Zenon
<1>14. (~st.ok /\ ~st.must) => o.assert = None /\ o.failed
  BY <1>6, <1>9, <1>11, Zenon
<1>15. EqualMakes(st, o)
  BY <1>5, <1>12, <1>13, <1>14, Zenon DEF EqualMakes
<1>. QED
  BY <1>2, <1>15

\* A statement of a test.
LEMMA StatementGood ==
    ASSUME VerdictInv, exit = "running", Len(stack) >= 2, JumpInv', NEW st \in Upcoming, Statement(st)
    PROVE  VerdictInv'
<1>1. ~Top.caught /\ Top.code # << >> /\ st = Head(Top.code)
  BY DEF Upcoming
<1>2. Types /\ Sound(stack)
  BY TestStands DEF VerdictInv, JumpInv
<1>3. st \in Statements /\ st.op # "test"
  BY <1>1, <1>2, UpcomingIs
<1>4. PICK o : o = Outcome[Head(Top.code)]
  OBVIOUS
<1>5. o = Outcome[st]
  BY <1>1, <1>4
<1>6. failed \in BOOLEAN
  BY DEF VerdictInv
<1>7. CASE Begin(st)
  BY <1>3, <1>7 DEF Begin
<1>8. CASE Assert(st)
  <2>1. PICK m : m = st.msg
    OBVIOUS
  <2>2. ptr' = ptr /\ Longjmp(ptr', err, m) /\ UNCHANGED <<prog, env, testenv, earlier>>
    BY <1>8, <2>1 DEF Assert
  <2>3. m # None /\ Outcome[Head(Top.code)] = Asserts(m)
    BY <1>3, <1>4, <1>5, <1>8, <2>1, PlainMakes DEF Assert
  <2>. QED
    BY <1>1, <2>2, <2>3, AssertGood
<1>9. CASE Equal(st)
  <2>1. EqualMakes(st, o)
    BY <1>3, <1>5, <1>9, EqualMade DEF Equal
  <2>2. UNCHANGED <<prog, ptr, env, testenv, earlier>>
    BY <1>9 DEF Equal
  <2>3. CASE st.ok /\ stack' = Advanced /\ UNCHANGED <<failed, err, exit>>
    <3>1. o.assert = None /\ failed' \in BOOLEAN /\ (failed' <=> (failed \/ o.failed))
      BY <1>6, <2>1, <2>3 DEF EqualMakes
    <3>2. stack' = Advanced /\ UNCHANGED <<prog, ptr, env, testenv, earlier, err, exit>>
      BY <2>2, <2>3
    <3>. QED
      BY <1>1, <1>4, <3>1, <3>2, StepGood
  <2>4. CASE ~st.ok /\ ~st.must /\ stack' = Advanced /\ failed' = TRUE /\ UNCHANGED <<err, exit>>
    <3>1. o.assert = None /\ failed' \in BOOLEAN /\ (failed' <=> (failed \/ o.failed))
      BY <2>1, <2>4 DEF EqualMakes
    <3>2. stack' = Advanced /\ UNCHANGED <<prog, ptr, env, testenv, earlier, err, exit>>
      BY <2>2, <2>4
    <3>. QED
      BY <1>1, <1>4, <3>1, <3>2, StepGood
  <2>5. CASE ~st.ok /\ st.must /\ Longjmp(ptr, err, "not equal")
    <3>1. PICK m : m = "not equal"
      OBVIOUS
    <3>2. m # None
      BY <3>1 DEF None
    <3>3. Outcome[Head(Top.code)] = Asserts(m)
      BY <1>4, <2>1, <2>5, <3>1 DEF EqualMakes
    <3>4. ptr' = ptr /\ Longjmp(ptr', err, m) /\ UNCHANGED <<prog, env, testenv, earlier>>
      BY <2>2, <2>5, <3>1
    <3>. QED
      BY <1>1, <3>2, <3>3, <3>4, AssertGood
  <2>. QED
    BY <1>9, <2>3, <2>4, <2>5 DEF Equal
<1>10. CASE SilenceOutput(st)
  <2>1. o.assert = None /\ ~o.failed
    BY <1>3, <1>5, <1>10, PlainMakes DEF SilenceOutput
  <2>2. failed' \in BOOLEAN /\ (failed' <=> (failed \/ o.failed))
    BY <1>6, <1>10, <2>1 DEF SilenceOutput
  <2>3. stack' = Advanced /\ UNCHANGED <<prog, ptr, env, testenv, earlier, err, exit>>
    BY <1>10 DEF SilenceOutput
  <2>. QED
    BY <1>1, <1>4, <2>1, <2>2, <2>3, StepGood
<1>11. CASE Expect(st)
  BY <1>1, <1>11, EnterGood DEF Expect
<1>12. CASE ExpectPrint(st)
  BY <1>1, <1>12, EnterGood DEF ExpectPrint
<1>. QED
  BY <1>7, <1>8, <1>9, <1>10, <1>11, <1>12 DEF Statement

\* The last call is that of an expectation.
LEMMA InExpectation ==
    ASSUME VerdictInv, exit = "running", Top.by.op \in {"expect", "print"}
    PROVE  Len(stack) >= 3 /\ Len(stack) >= 2 /\ Frame(Top.by)
<1>1. Types /\ Len(stack) \in Nat /\ Len(stack) >= 1
  BY StackFacts DEF VerdictInv, JumpInv
<1>2. Len(stack) # 1
  BY DEF VerdictInv, JumpInv, RootIsMain, Top
<1>3. Len(stack) >= 2 /\ 2 \in 2 .. Len(stack) /\ Len(stack) \in 2 .. Len(stack)
  <2>1. PICK k \in Nat : k = Len(stack) /\ k >= 1
    BY <1>1
  <2>2. k # 1
    BY <1>2, <2>1
  <2>3. k >= 2 /\ 2 \in 2 .. k /\ k \in 2 .. k
    BY <2>1, <2>2
  <2>. QED
    BY <2>1, <2>3
<1>4. Sound(stack)
  BY <1>3, TestStands
<1>5. Len(stack) # 2
  <2>1. stack[2].by.op = "test"
    BY <1>3, <1>4 DEF Sound
  <2>. QED
    BY <2>1 DEF Top
<1>6. Frame(Top.by)
  BY <1>3, <1>4, <1>5 DEF Sound, Top
<1>7. Len(stack) >= 3
  <2>1. PICK k \in Nat : k = Len(stack) /\ k >= 2
    BY <1>1, <1>3
  <2>2. k # 2
    BY <1>5, <2>1
  <2>3. k >= 3
    BY <2>1, <2>2
  <2>. QED
    BY <2>1, <2>3
<1>. QED
  BY <1>3, <1>6, <1>7

\* An outcome that is an assert only.
LEMMA OnlyAsserts ==
    ASSUME NEW o, Whole(o), o.failed \in BOOLEAN, ~o.failed, NEW m, o.assert = m
    PROVE  o = Asserts(m)
<1>1. PICK p : p = Asserts(m)
  OBVIOUS
<1>2. Whole(p) /\ p.assert = m /\ p.failed = FALSE
  BY <1>1, AssertsParts
<1>3. o.failed = FALSE
  OBVIOUS
<1>4. o = p
  BY <1>2, <1>3, SameOutcome
<1>. QED
  BY <1>1, <1>4

\* expect_assert compares the assert x, or None, with the one it wants.
Compares(x) ==
    \/ x = Top.by.want /\ stack' = Under /\ UNCHANGED <<failed, exit>>
    \/ /\ x # Top.by.want
       /\ \E out, messages : Unmet(Top.by.must, out, messages,
                                   IF x = None THEN "no assert" ELSE "wrong assert")

\* A function that is expected to assert has left with the assert x, or None.
LEMMA ExpectationGood ==
    ASSUME VerdictInv, exit = "running", JumpInv', Top.by.op = "expect", ptr' = "env",
           NEW x, Ending(stack, err, x), UNCHANGED <<prog, env, testenv, earlier>>,
           Compares(x)
    PROVE  VerdictInv'
<1>1. Len(stack) >= 3 /\ Frame(Top.by)
  BY InExpectation
<1>2. Top.by.must \in BOOLEAN /\ failed \in BOOLEAN
  BY <1>1, FrameParts DEF VerdictInv
<1>3. PICK inner : inner = Asserts(x)
  OBVIOUS
<1>4. inner.assert = x /\ inner.failed \in BOOLEAN /\ ~inner.failed
  BY <1>3, AssertsParts
<1>5. PICK o : o = OutcomeOf(Top.by, Asserts(x))
  OBVIOUS
<1>6. ExpectMakes(Top.by, inner, o)
  <2>1. PICK b : b = Top.by
    OBVIOUS
  <2>2. Frame(b) /\ b.op = "expect"
    BY <1>1, <2>1
  <2>3. inner.failed \in BOOLEAN
    BY <1>4
  <2>4. ExpectMakes(b, inner, OutcomeOf(b, inner))
    BY <2>2, <2>3, ExpectMade
  <2>. QED
    BY <1>3, <1>5, <2>1, <2>4, Zenon
<1>7. PICK must \in BOOLEAN : must = Top.by.must
  BY <1>2, Zenon
<1>8. PICK msg : msg = IF x = None THEN "no assert" ELSE "wrong assert"
  BY Zenon
<1>9. msg # None
  BY <1>8 DEF None
<1>10. /\ Whole(o) /\ o.failed \in BOOLEAN
       /\ x = Top.by.want => o.assert = None /\ ~o.failed
       /\ (x # Top.by.want /\ ~must) => o.assert = None /\ o.failed
       /\ (x # Top.by.want /\ must) => o.assert = msg /\ ~o.failed
  BY <1>4, <1>6, <1>7, <1>8, Zenon DEF ExpectMakes
<1>11. CASE x = Top.by.want /\ stack' = Under /\ UNCHANGED <<failed, exit>>
  <2>1. o.assert = None /\ failed' \in BOOLEAN /\ (failed' <=> (failed \/ o.failed))
    BY <1>2, <1>10, <1>11
  <2>2. stack' = Under /\ UNCHANGED <<prog, env, testenv, earlier, exit>>
    BY <1>11
  <2>. QED
    BY <1>1, <1>5, <2>1, <2>2, LeaveGood
<1>12. ASSUME x # Top.by.want, NEW out, NEW messages, Unmet(must, out, messages, msg)
       PROVE  VerdictInv'
  <2>1. CASE ~must
    <3>1. stack' = Under /\ failed' = TRUE /\ UNCHANGED exit
      BY <1>12, <2>1 DEF Unmet
    <3>2. o.assert = None /\ failed' \in BOOLEAN /\ (failed' <=> (failed \/ o.failed))
      BY <1>2, <1>10, <1>12, <2>1, <3>1
    <3>3. UNCHANGED <<prog, env, testenv, earlier, exit>>
      BY <3>1
    <3>. QED
      BY <1>1, <1>5, <3>1, <3>2, <3>3, LeaveGood
  <2>2. CASE must
    <3>1. Longjmp(ptr', messages, msg)
      BY <1>12, <2>2 DEF Unmet
    <3>2. o = Asserts(msg)
      BY <1>10, <1>12, <2>2, OnlyAsserts
    <3>3. OutcomeOf(Top.by, Asserts(x)) = Asserts(msg)
      BY <1>5, <3>2
    <3>. QED
      BY <1>1, <1>9, <3>1, <3>3, RequireGood
  <2>. QED
    BY <2>1, <2>2
<1>13. CASE x # Top.by.want /\ \E out, messages : Unmet(Top.by.must, out, messages,
                                     IF x = None THEN "no assert" ELSE "wrong assert")
  <2>1. PICK out, messages : Unmet(must, out, messages, msg)
    BY <1>7, <1>8, <1>13, Zenon
  <2>. QED
    BY <1>12, <1>13, <2>1
<1>. QED
  BY <1>11, <1>13 DEF Compares

\* A function returned that was expected to assert.
LEMMA NoAssertGood ==
    ASSUME VerdictInv, JumpInv', NoAssert
    PROVE  VerdictInv'
<1>1. /\ exit = "running" /\ ~Top.caught /\ Top.code = << >> /\ Top.by.op = "expect" /\ ptr' = "env"
      /\ Unmet(Top.by.must, Top.quiet, err, "no assert") /\ UNCHANGED <<prog, env, testenv, earlier>>
  BY DEF NoAssert, Ends
<1>2. Frame(Top.by)
  BY <1>1, InExpectation
<1>3. PICK x : x = None
  OBVIOUS
<1>4. x # Top.by.want
  BY <1>1, <1>2, <1>3, FrameParts
<1>5. Ending(stack, err, x)
  BY <1>1, <1>3 DEF Ending, Top
<1>6. "no assert" = IF x = None THEN "no assert" ELSE "wrong assert"
  BY <1>3
<1>7. \E out, messages : Unmet(Top.by.must, out, messages, IF x = None THEN "no assert" ELSE "wrong assert")
  BY <1>1, <1>6, Zenon
<1>8. Compares(x)
  BY <1>4, <1>7, Zenon DEF Compares
<1>. QED
  BY <1>1, <1>5, <1>8, ExpectationGood

\* A function asserted that was expected to.
LEMMA CaughtGood ==
    ASSUME VerdictInv, JumpInv', Caught
    PROVE  VerdictInv'
<1>1. exit = "running" /\ Top.caught /\ ptr' = "env" /\ UNCHANGED <<prog, env, testenv, earlier>>
  BY DEF Caught
<1>2. Top.by.op = "expect"
  BY <1>1, CaughtIsExpect DEF VerdictInv
<1>3. Frame(Top.by) /\ Errs
  BY <1>1, <1>2, InExpectation, TestStands
<1>4. PICK x : x # None /\ err = <<x>>
  BY <1>1, <1>3 DEF Errs
<1>5. Ending(stack, err, x)
  BY <1>1, <1>4 DEF Ending, Top
<1>6. CASE err = <<Top.by.want>> /\ stack' = Under /\ UNCHANGED <<failed, exit>>
  <2>1. x = Top.by.want
    BY <1>4, <1>6
  <2>2. Compares(x)
    BY <1>6, <2>1, Zenon DEF Compares
  <2>. QED
    BY <1>1, <1>2, <1>5, <2>2, ExpectationGood
<1>7. CASE err # <<Top.by.want>> /\ Unmet(Top.by.must, quiet, << >>, "wrong assert")
  <2>1. x # Top.by.want
    BY <1>4, <1>7
  <2>2. "wrong assert" = IF x = None THEN "no assert" ELSE "wrong assert"
    BY <1>4
  <2>3. \E out, messages : Unmet(Top.by.must, out, messages, IF x = None THEN "no assert" ELSE "wrong assert")
    BY <1>7, <2>2, Zenon
  <2>4. Compares(x)
    BY <2>1, <2>3, Zenon DEF Compares
  <2>. QED
    BY <1>1, <1>2, <1>5, <2>4, ExpectationGood
<1>. QED
  BY <1>6, <1>7 DEF Caught

\* A function returned that was expected to print.
LEMMA PrintedGood ==
    ASSUME VerdictInv, JumpInv', Printed
    PROVE  VerdictInv'
<1>1. /\ exit = "running" /\ ~Top.caught /\ Top.code = << >> /\ Top.by.op = "print" /\ ptr' = ptr
      /\ UNCHANGED <<prog, env, testenv, earlier>>
  BY DEF Printed, Ends
<1>2. Frame(Top.by) /\ Len(stack) >= 3
  BY <1>1, InExpectation
<1>3. Top.by.must \in BOOLEAN /\ Top.by.ok \in BOOLEAN /\ failed \in BOOLEAN
  BY <1>1, <1>2, FrameParts DEF VerdictInv
<1>4. PICK inner : inner = Asserts(None)
  OBVIOUS
<1>5. Whole(inner) /\ inner.assert = None /\ inner.failed \in BOOLEAN /\ ~inner.failed
  BY <1>4, AssertsParts
<1>6. PICK o : o = OutcomeOf(Top.by, Asserts(None))
  OBVIOUS
<1>7. PrintMakes(Top.by, inner, o)
  BY <1>1, <1>2, <1>4, <1>5, <1>6, PrintMade
<1>8. PICK must \in BOOLEAN : must = Top.by.must
  BY <1>3, Zenon
<1>9. PICK ok \in BOOLEAN : ok = Top.by.ok
  BY <1>3, Zenon
<1>10. PICK msg : msg = "wrong print"
  OBVIOUS
<1>11. msg # None
  BY <1>10 DEF None
<1>12. /\ Whole(o) /\ o.failed \in BOOLEAN
       /\ ok => o.assert = None /\ ~o.failed
       /\ (~ok /\ ~must) => o.assert = None /\ o.failed
       /\ (~ok /\ must) => o.assert = msg /\ ~o.failed
  BY <1>5, <1>7, <1>8, <1>9, <1>10, Zenon DEF PrintMakes
<1>13. Ending(stack, err, None)
  BY <1>1 DEF Ending, Top
<1>14. CASE ok /\ stack' = Under /\ UNCHANGED <<failed, err, exit>>
  <2>1. o.assert = None /\ failed' \in BOOLEAN /\ (failed' <=> (failed \/ o.failed))
    BY <1>3, <1>12, <1>14
  <2>2. stack' = Under /\ err' = err /\ UNCHANGED <<prog, env, testenv, earlier, exit>>
    BY <1>1, <1>14
  <2>. QED
    BY <1>1, <1>2, <1>6, <1>13, <2>1, <2>2, LeaveGood
<1>15. CASE ~ok /\ Unmet(must, quiet, err, msg)
  <2>1. CASE ~must
    <3>1. stack' = Under /\ failed' = TRUE /\ err' = err /\ UNCHANGED exit
      BY <1>15, <2>1 DEF Unmet
    <3>2. o.assert = None /\ failed' \in BOOLEAN /\ (failed' <=> (failed \/ o.failed))
      BY <1>3, <1>12, <1>15, <2>1, <3>1
    <3>3. UNCHANGED <<prog, env, testenv, earlier, exit>>
      BY <1>1, <3>1
    <3>. QED
      BY <1>1, <1>2, <1>6, <1>13, <3>1, <3>2, <3>3, LeaveGood
  <2>2. CASE must
    <3>1. Longjmp(ptr', err, msg)
      BY <1>15, <2>2 DEF Unmet
    <3>2. o = Asserts(msg)
      BY <1>12, <1>15, <2>2, OnlyAsserts
    <3>3. OutcomeOf(Top.by, Asserts(None)) = Asserts(msg)
      BY <1>6, <3>2
    <3>. QED
      BY <1>1, <1>2, <1>11, <1>13, <3>1, <3>3, RequireGood
  <2>. QED
    BY <2>1, <2>2
<1>. QED
  BY <1>1, <1>8, <1>9, <1>10, <1>14, <1>15 DEF Printed

-----------------------------------------------------------------------------
(* In main().                                                              *)

\* No expectation is running in main().
LEMMA MainStands ==
    ASSUME VerdictInv, exit = "running", Len(stack) = 1
    PROVE  /\ ptr = "env" /\ ~Top.caught /\ Top = stack[1] /\ \E n : At(n) /\ InMain(n)
<1>1. DOMAIN stack = {1} /\ Top = stack[1] /\ stack[1].by.op = "main"
  <2>1. DOMAIN stack = 1 .. Len(stack)
    BY StackFacts DEF VerdictInv, JumpInv
  <2>. QED
    BY <2>1 DEF Top, VerdictInv, JumpInv, RootIsMain
<1>2. Open = {}
  BY <1>1 DEF Open
<1>3. ptr = "env"
  BY <1>2 DEF VerdictInv, JumpInv, Types, TargetOnStack
<1>4. ~Top.caught
  BY <1>1 DEF VerdictInv, JumpInv, CaughtExpects
<1>5. PICK n : At(n) /\ (InMain(n) \/ InTest(n))
  BY DEF VerdictInv, Running
<1>6. ~InTest(n)
  <2>1. ASSUME Len(stack) >= 2
        PROVE  FALSE
    <3>1. 1 >= 2
      BY <2>1, Zenon
    <3>. QED
      BY <3>1
  <2>. QED
    BY <2>1 DEF InTest
<1>. QED
  BY <1>1, <1>3, <1>4, <1>5, <1>6

\* main() goes on.
LEMMA MainGoesOn ==
    ASSUME VerdictInv, exit = "running", JumpInv', UNCHANGED <<prog, exit>>,
           failed' \in BOOLEAN, earlier' \in BOOLEAN,
           Len(stack') = 1, NEW n, At(n)', InMain(n)'
    PROVE  VerdictInv'
<1>1. DOMAIN stack' = {1} /\ Top' = stack'[1] /\ stack'[1].by.op = "main"
  <2>1. DOMAIN stack' = 1 .. Len(stack')
    BY LenProperties DEF JumpInv, Types
  <2>. QED
    BY <2>1 DEF Top, JumpInv, RootIsMain
<1>2. Open' = {}
  BY <1>1 DEF Open
<1>3. ptr' # "test_env"
  BY <1>2 DEF JumpInv, TargetOnStack
<1>4. ~Top'.caught
  BY <1>1 DEF JumpInv, CaughtExpects
<1>5. Errs'
  BY <1>3, <1>4 DEF Errs
<1>6. TargetRuns'
  BY <1>2 DEF TargetRuns
<1>7. PICK r : r = stack'
  OBVIOUS
<1>8. Sound(r) /\ Nests(r)
  BY <1>7, MainSound
<1>9. Nested' <=> Nested
  BY NestedSame
<1>10. Sound(stack)' /\ Nests(stack)'
  BY <1>7, <1>8, <1>9 DEF Nests, Sound
<1>11. Running'
  BY <1>5, <1>10 DEF Running
<1>. QED
  BY <1>6, <1>11 DEF VerdictInv, VerdictExact

\* EOSIO_TEST_END: nothing is to come, the flag is the verdict of the test.
LEMMA EndGood ==
    ASSUME VerdictInv, JumpInv', End
    PROVE  VerdictInv'
<1>0. /\ Types /\ exit = "running" /\ ~Top.caught /\ Top.code = << >> /\ Top.by.op = "test"
      /\ stack' = Under /\ failed' = (failed \/ earlier) /\ earlier' = failed'
      /\ prog' = prog /\ env' = env /\ exit' = exit
      /\ failed \in BOOLEAN /\ earlier \in BOOLEAN
      /\ stack \in Seq(Frames) /\ Len(stack) \in Nat /\ Len(stack) >= 1
  BY StackFacts DEF End, Ends, VerdictInv, JumpInv, Types
<1>1. Len(stack) >= 2
  <2>1. PICK k \in Nat : k = Len(stack) /\ k >= 1
    BY <1>0
  <2>2. k # 1
    BY <1>0, <2>1 DEF VerdictInv, JumpInv, RootIsMain, Top
  <2>3. k >= 2
    BY <2>1, <2>2
  <2>. QED
    BY <2>1, <2>3
<1>2. Layered(stack) /\ Sound(stack) /\ Nests(stack) /\ Errs
  BY <1>0, <1>1, TestStands
<1>3. PICK n : At(n) /\ InTest(n)
  BY <1>0, <1>1, TestStands
<1>4. Len(stack) = 2
  <2>1. PICK k \in Nat : k = Len(stack) /\ k >= 2
    BY <1>0, <1>1
  <2>2. ASSUME k # 2
        PROVE  FALSE
    <3>1. k \in 2 .. k
      BY <2>1
    <3>2. Frame(stack[k].by)
      BY <1>2, <2>1, <2>2, <3>1 DEF Sound
    <3>. QED
      BY <1>0, <2>1, <3>2 DEF Frame, Top
  <2>. QED
    BY <2>1, <2>2
<1>5. prog[n].op = "test"
  BY <1>0, <1>3, <1>4 DEF InTest, Top
<1>6. Agree(failed, TestFails(prog[n]))
  <2>1. PICK a : Carried(a, TestFails(prog[n]))
    BY <1>3 DEF InTest, Carries, Carried
  <2>2. View(stack, err, a, 2) = Passed
    <3>1. Ending(stack, err, None)
      BY <1>0 DEF Ending, Top
    <3>2. View(stack, err, a, Len(stack)) = Asserts(None)
      BY <1>2, <3>1, EndingView
    <3>. QED
      BY <1>4, <3>2, AssertsParts
  <2>3. View(stack, err, a, 2).assert = None /\ ~View(stack, err, a, 2).failed
    BY <2>2 DEF Passed
  <2>4. \A i \in 2 .. Len(stack) : i = 2
    BY <1>4
  <2>5. 2 \in 2 .. Len(stack)
    BY <1>4
  <2>6. a[2] = None /\ ~Pending(stack, err, a)
    BY <2>1, <2>3, <2>4, <2>5 DEF Carried, Chain, Pending
  <2>. QED
    BY <2>1, <2>6 DEF Carried, Agree
<1>7. n \in Nat /\ n >= 1 /\ Len(prog) \in Nat
  <2>1. PICK k \in Nat : k = Len(prog)
    BY ProgIs
  <2>2. n \in 0 .. k /\ n >= 1
    BY <1>3, <2>1 DEF At, Rest, InTest
  <2>3. n \in Nat
    BY <2>2
  <2>. QED
    BY <2>1, <2>2, <2>3
<1>8. FailsTo(n) <=> (FailsTo(n - 1) \/ TestFails(prog[n]))
  <2>1. (\A i \in 1 .. n : i = n \/ i \in 1 .. n - 1) /\ (\A i \in 1 .. n - 1 : i \in 1 .. n)
        /\ n \in 1 .. n
    BY <1>7
  <2>. QED
    BY <1>5, <2>1 DEF FailsTo
<1>9. Agree(failed', FailsTo(n))
  <2>1. failed' <=> (failed \/ earlier)
    BY <1>0
  <2>2. Agree(earlier, FailsTo(n - 1))
    BY <1>3 DEF InTest
  <2>. QED
    BY <1>6, <1>8, <2>1, <2>2, Zenon DEF Agree
<1>10. PICK r : r = stack'
  OBVIOUS
<1>11. Len(r) = 1 /\ r[1] = stack[1]
  BY <1>0, <1>1, <1>4, <1>10, UnderIs
<1>12. InMain(n)'
  <2>1. FailsTo(n)' <=> FailsTo(n)
    BY <1>0 DEF FailsTo
  <2>2. Nested' <=> Nested
    BY <1>0, NestedSame
  <2>3. Agree(failed, FailsTo(n))'
    BY <1>9, <2>1, <2>2 DEF Agree
  <2>. QED
    BY <1>10, <1>11, <2>3 DEF InMain
<1>13. At(n)'
  <2>1. Rest(n, stack[1].code)'
    BY <1>0, <1>3, <1>10, <1>11 DEF At, Rest
  <2>2. env # Wrap /\ \E l \in 0 .. n : Rest(l, Tail(env)) /\ \A i \in l + 1 .. n : prog[i].op # "test"
    BY <1>3, <1>4 DEF At, EnvAt
  <2>3. PICK l \in 0 .. n : Rest(l, Tail(env)) /\ \A i \in l + 1 .. n : prog[i].op # "test"
    BY <2>2
  <2>4. Rest(l, Tail(env))'
    BY <1>0, <2>3 DEF Rest
  <2>5. ~(Len(stack') >= 2)
    <3>1. ASSUME Len(stack') >= 2
          PROVE  1 >= 2
      BY <1>10, <1>11, <3>1, Zenon
    <3>. QED
      BY <3>1
  <2>6. EnvAt(n)'
    BY <1>0, <2>2, <2>3, <2>4, <2>5 DEF EnvAt
  <2>7. (\A i \in 1 .. n : prog[i].op # "assert")'
    BY <1>0, <1>3 DEF At
  <2>. QED
    BY <2>1, <2>6, <2>7 DEF At
<1>14. failed' \in BOOLEAN /\ earlier' \in BOOLEAN
  BY <1>0
<1>. QED
  BY <1>0, <1>10, <1>11, <1>12, <1>13, <1>14, MainGoesOn

\* The next statement of main().
LEMMA MainNext ==
    ASSUME VerdictInv, exit = "running", Len(stack) = 1, NEW n, At(n), Top.code # << >>
    PROVE  /\ n \in Nat /\ n + 1 \in 1 .. Len(prog) /\ Rest(n + 1, Tail(Top.code))
           /\ Head(Top.code) = prog[n + 1] /\ prog[n + 1] \in Statements
           /\ prog[n + 1].op \in {"test", "assert", "silence"}
<1>1. Rest(n, Top.code)
  BY MainStands DEF At
<1>2. prog \in Seq(Statements)
  BY ProgIs
<1>3. /\ n \in Nat /\ n + 1 \in 1 .. Len(prog) /\ Rest(n + 1, Tail(Top.code))
      /\ Head(Top.code) = prog[n + 1] /\ prog[n + 1] \in Statements
  <2>1. PICK c : c = Top.code
    OBVIOUS
  <2>2. Rest(n, c) /\ c # << >>
    BY <1>1, <2>1
  <2>3. /\ Rest(n + 1, Tail(c)) /\ n \in Nat /\ n + 1 \in 1 .. Len(prog)
        /\ prog[n + 1] = Head(c) /\ prog[n + 1] \in Statements
    BY <1>2, <2>2, RestOn
  <2>. QED
    BY <2>1, <2>3
<1>. QED
  BY <1>3, ProgIs

\* silence_output in main().
LEMMA MainSilence ==
    ASSUME VerdictInv, exit = "running", Len(stack) = 1, JumpInv', Top.code # << >>,
           Head(Top.code).op = "silence", stack' = Advanced,
           UNCHANGED <<prog, env, failed, earlier, exit>>
    PROVE  VerdictInv'
<1>0. Types /\ prog' = prog /\ env' = env /\ failed' = failed /\ exit' = exit
      /\ failed' \in BOOLEAN /\ earlier' \in BOOLEAN
  BY DEF VerdictInv, JumpInv
<1>1. PICK n : At(n) /\ InMain(n)
  BY MainStands
<1>2. n \in Nat /\ Rest(n + 1, Tail(Top.code)) /\ prog[n + 1].op = "silence"
  BY <1>1, MainNext
<1>3. PICK r : r = stack'
  OBVIOUS
<1>4. Len(r) = 1 /\ r[1].code = Tail(Top.code)
  BY <1>0, <1>3, AdvancedIs
<1>5. (\A i \in 1 .. n + 1 : i = n + 1 \/ i \in 1 .. n) /\ (\A i \in 1 .. n : i \in 1 .. n + 1)
  BY <1>2
<1>6. At(n + 1)'
  <2>1. Rest(n + 1, stack[1].code)'
    BY <1>0, <1>2, <1>3, <1>4 DEF Rest
  <2>2. EnvAt(n + 1)'
    <3>1. CASE env = Wrap /\ \A i \in 1 .. n : prog[i].op = "silence"
      <4>1. \A i \in 1 .. n + 1 : prog[i].op = "silence"
        BY <1>2, <1>5, <3>1
      <4>. QED
        BY <1>0, <1>3, <1>4, <3>1, <4>1 DEF EnvAt
    <3>2. ASSUME env # Wrap, NEW m \in 0 .. n, Rest(m, Tail(env)),
                 \A i \in m + 1 .. n : prog[i].op # "test"
          PROVE  EnvAt(n + 1)'
      <4>1. m \in 0 .. n + 1 /\ \A i \in m + 1 .. n + 1 : i = n + 1 \/ i \in m + 1 .. n
        BY <1>2
      <4>2. \A i \in m + 1 .. n + 1 : prog[i].op # "test"
        BY <1>2, <3>2, <4>1
      <4>3. Rest(m, Tail(env))'
        BY <1>0, <3>2 DEF Rest
      <4>4. ~(Len(stack') >= 2)
        <5>1. ASSUME Len(stack') >= 2
              PROVE  1 >= 2
          BY <1>3, <1>4, <5>1, Zenon
        <5>. QED
          BY <5>1
      <4>. QED
        BY <1>0, <3>2, <4>1, <4>2, <4>3, <4>4 DEF EnvAt
    <3>. QED
      BY <1>1, <3>1, <3>2 DEF At, EnvAt
  <2>3. (\A i \in 1 .. n + 1 : prog[i].op # "assert")'
    BY <1>0, <1>1, <1>2, <1>5 DEF At
  <2>. QED
    BY <2>1, <2>2, <2>3 DEF At
<1>7. InMain(n + 1)'
  <2>1. CASE Doomed(n)
    <3>1. PICK j \in n + 1 .. Len(prog) :
                 prog[j].op = "assert" /\ \A i \in n + 1 .. j : prog[i].op # "test"
      BY <2>1 DEF Doomed
    <3>2. j # n + 1
      BY <1>2, <3>1
    <3>3. j \in (n + 1) + 1 .. Len(prog) /\ \A i \in (n + 1) + 1 .. j : i \in n + 1 .. j
      <4>1. PICK k \in Nat : k = Len(prog)
        BY ProgIs
      <4>2. j \in n + 1 .. k
        BY <3>1, <4>1
      <4>3. j \in (n + 1) + 1 .. k /\ \A i \in (n + 1) + 1 .. j : i \in n + 1 .. j
        BY <1>2, <3>2, <4>2
      <4>. QED
        BY <4>1, <4>3
    <3>4. Doomed(n + 1)'
      BY <1>0, <2>1, <3>1, <3>3 DEF Doomed
    <3>. QED
      BY <1>3, <1>4, <3>4 DEF InMain
  <2>2. CASE Agree(failed, FailsTo(n))
    <3>1. FailsTo(n + 1)' <=> FailsTo(n)
      BY <1>0, <1>2, <1>5 DEF FailsTo
    <3>2. Nested' <=> Nested
      BY <1>0, NestedSame
    <3>3. Agree(failed, FailsTo(n + 1))'
      BY <1>0, <2>2, <3>1, <3>2 DEF Agree
    <3>. QED
      BY <1>3, <1>4, <3>3 DEF InMain
  <2>. QED
    BY <1>1, <2>1, <2>2 DEF InMain
<1>. QED
  BY <1>0, <1>3, <1>4, <1>6, <1>7, MainGoesOn

\* An assert of main() before any test.
LEMMA MainAsserts ==
    ASSUME VerdictInv, exit = "running", Len(stack) = 1, JumpInv', Top.code # << >>,
           Head(Top.code).op = "assert", env = Wrap, exit' = "-1",
           UNCHANGED <<prog, stack, ptr, failed, earlier>>
    PROVE  VerdictInv'
<1>1. PICK n : At(n) /\ InMain(n)
  BY MainStands
<1>2. n \in Nat /\ n + 1 \in 1 .. Len(prog) /\ prog[n + 1].op = "assert"
  BY <1>1, MainNext
<1>3. \A i \in 1 .. n : prog[i].op = "silence"
  BY <1>1 DEF At, EnvAt
<1>4. n + 1 \in DOMAIN prog /\ (n + 1) - 1 = n
  BY <1>2, ProgIs
<1>5. EarlyAssert
  BY <1>2, <1>3, <1>4 DEF EarlyAssert
<1>6. EarlyAssert'
  BY <1>5 DEF EarlyAssert
<1>7. VerdictExact'
  BY <1>6 DEF VerdictExact, Verdict
<1>8. TargetRuns'
  BY NestedSame DEF VerdictInv, TargetRuns, Open
<1>. QED
  BY <1>7, <1>8 DEF VerdictInv

\* One behind a test.
LEMMA MainAssertsLate ==
    ASSUME VerdictInv, exit = "running", Len(stack) = 1, JumpInv', Top.code # << >>,
           Head(Top.code).op = "assert", env # Wrap, failed' = TRUE,
           stack' = <<Call(Main, Tail(env))>>, UNCHANGED <<prog, env, earlier, exit>>
    PROVE  VerdictInv'
<1>0. prog' = prog /\ env' = env /\ exit' = exit /\ earlier' \in BOOLEAN /\ failed' \in BOOLEAN
  BY DEF VerdictInv
<1>1. PICK n : At(n) /\ InMain(n)
  BY MainStands
<1>2. n \in Nat /\ n + 1 \in 1 .. Len(prog) /\ prog[n + 1].op = "assert"
  BY <1>1, MainNext
<1>3. PICK m \in 0 .. n : Rest(m, Tail(env)) /\ \A i \in m + 1 .. n : prog[i].op # "test"
  BY <1>1 DEF At, EnvAt
<1>4. PICK c : c = Tail(env)
  OBVIOUS
<1>5. PICK r : r = stack'
  OBVIOUS
<1>6. Len(r) = 1 /\ r[1].code = c
  <2>1. PICK f : f = Call(Main, c)
    OBVIOUS
  <2>2. f.code = c
    BY <2>1 DEF Call
  <2>3. r = <<f>>
    BY <1>4, <1>5, <2>1
  <2>. QED
    BY <2>2, <2>3
<1>7. m \in Nat /\ m \in 0 .. m /\ (\A i \in 1 .. m : i \in 1 .. n) /\ (\A i \in m + 1 .. m : FALSE)
  BY <1>2
<1>8. Rest(m, c)'
  BY <1>0, <1>3, <1>4 DEF Rest
<1>9. At(m)'
  <2>1. Rest(m, stack[1].code)'
    BY <1>5, <1>6, <1>8 DEF Rest
  <2>2. Rest(m, Tail(env))'
    BY <1>0, <1>4, <1>8 DEF Rest
  <2>3. EnvAt(m)'
    BY <1>0, <1>7, <2>2 DEF EnvAt
  <2>4. (\A i \in 1 .. m : prog[i].op # "assert")'
    BY <1>0, <1>1, <1>7 DEF At
  <2>. QED
    BY <2>1, <2>3, <2>4 DEF At
<1>10. Doomed(m)'
  <2>1. PICK k \in Nat : k = Len(prog)
    BY ProgIs
  <2>2. n + 1 \in m + 1 .. k /\ \A i \in m + 1 .. n + 1 : i = n + 1 \/ i \in m + 1 .. n
    BY <1>2, <1>7, <2>1
  <2>3. \A i \in m + 1 .. n + 1 : prog[i].op # "test"
    BY <1>2, <1>3, <2>2
  <2>. QED
    BY <1>0, <1>2, <2>1, <2>2, <2>3 DEF Doomed
<1>11. InMain(m)'
  BY <1>5, <1>6, <1>10 DEF InMain
<1>. QED
  BY <1>0, <1>5, <1>6, <1>9, <1>11, MainGoesOn

\* main() returns: it has come to its end, past every test.
LEMMA ReturnGood ==
    ASSUME VerdictInv, JumpInv', Return
    PROVE  VerdictInv'
<1>0. /\ Types /\ exit = "running" /\ Top.code = << >> /\ Top.by.op = "main"
      /\ exit' = (IF failed THEN "1" ELSE "0") /\ UNCHANGED <<prog, stack, ptr, failed, earlier>>
      /\ Len(stack) \in Nat /\ Len(stack) >= 1
  BY StackFacts DEF Return, Ends, VerdictInv, JumpInv
<1>1. Len(stack) = 1
  <2>1. PICK k \in Nat : k = Len(stack) /\ k >= 1
    BY <1>0
  <2>2. ASSUME k # 1
        PROVE  FALSE
    <3>1. k >= 2 /\ k \in 2 .. k
      BY <2>1, <2>2
    <3>2. Sound(stack)
      BY <1>0 DEF VerdictInv, Running
    <3>3. stack[k].by.op \in {"test", "expect", "print"}
      BY <2>1, <3>1, <3>2 DEF Sound, Frame
    <3>. QED
      BY <1>0, <2>1, <3>3 DEF Top
  <2>. QED
    BY <2>1, <2>2
<1>2. PICK n : At(n) /\ InMain(n)
  BY <1>0, <1>1, MainStands
<1>3. Top = stack[1]
  BY <1>0, <1>1, MainStands
<1>4. n \in Nat /\ n = Len(prog) /\ DOMAIN prog = 1 .. n
  <2>1. PICK k \in Nat : k = Len(prog) /\ DOMAIN prog = 1 .. k
    BY ProgIs
  <2>2. Rest(n, << >>)
    BY <1>0, <1>2, <1>3 DEF At
  <2>3. n \in 0 .. k /\ 0 = k - n
    BY <2>1, <2>2, EmptySeq DEF Rest
  <2>4. n = k
    BY <2>3
  <2>. QED
    BY <2>1, <2>4
<1>5. ~Doomed(n)
  <2>1. \A j \in n + 1 .. Len(prog) : FALSE
    BY <1>4
  <2>. QED
    BY <2>1 DEF Doomed
<1>6. Agree(failed, FailsTo(n))
  BY <1>2, <1>5 DEF InMain
<1>7. ~EarlyAssert
  BY <1>2, <1>4 DEF EarlyAssert, At
<1>8. Verdict = IF FailsTo(n) THEN "1" ELSE "0"
  BY <1>4, <1>7 DEF Verdict, FailsTo
<1>9. exit' = Verdict \/ (Nested /\ exit' = "1")
  BY <1>0, <1>6, <1>8 DEF Agree
<1>10. Verdict' = Verdict /\ (Nested' <=> Nested)
  BY <1>0, NestedSame DEF Verdict, EarlyAssert
<1>11. VerdictExact'
  BY <1>9, <1>10 DEF VerdictExact
<1>12. TargetRuns'
  BY <1>0, NestedSame DEF VerdictInv, TargetRuns, Open
<1>13. exit' # "running"
  BY <1>0
<1>. QED
  BY <1>0, <1>11, <1>12, <1>13 DEF VerdictInv

\* EOSIO_TEST: what its code comes to is the verdict of the test.
LEMMA BeginsCarries ==
    ASSUME NEW r, Layered(r), Len(r) = 2, ~r[2].caught, NEW st, r[2].code = st.code, NEW e
    PROVE  Carries(r, e, FALSE, TestFails(st))
<1>1. PICK l : l = Listed(Outcome, st.code)
  OBVIOUS
<1>. DEFINE a == [i \in Nat |-> l.assert]
<1>2. a[2] = l.assert
  OBVIOUS
<1>. HIDE DEF a
<1>3. View(r, e, a, 2) = l
  BY <1>1, ViewTop
<1>4. (\A i \in 2 .. Len(r) : i = 2) /\ 2 \in 2 .. Len(r)
  OBVIOUS
<1>5. Chain(r, e, a)
  BY <1>2, <1>3, <1>4 DEF Chain
<1>6. Pending(r, e, a) <=> l.failed
  BY <1>3, <1>4 DEF Pending
<1>7. TestFails(st) <=> (l.failed \/ l.assert # None)
  BY <1>1, Zenon DEF TestFails
<1>8. Agree(FALSE \/ Pending(r, e, a) \/ a[2] # None, TestFails(st))
  BY <1>2, <1>6, <1>7 DEF Agree
<1>. QED
  BY <1>5, <1>8 DEF Carries

\* EOSIO_TEST: the verdict of the tests before is kept in earlier.
LEMMA MainBegins ==
    ASSUME VerdictInv, exit = "running", Len(stack) = 1, JumpInv', NEW st \in Upcoming, Begin(st)
    PROVE  VerdictInv'
<1>0. /\ Types /\ Top.code # << >> /\ st = Head(Top.code) /\ st.op = "test"
      /\ env' = <<"test">> \o Tail(Top.code) /\ stack' = Append(Advanced, Call(st, st.code))
      /\ earlier' = failed /\ failed' = FALSE /\ prog' = prog /\ ptr' = ptr /\ exit' = exit
      /\ failed \in BOOLEAN
  BY DEF Upcoming, Begin, VerdictInv, JumpInv
<1>1. PICK n : At(n) /\ InMain(n)
  BY MainStands
<1>2. /\ n \in Nat /\ n + 1 \in 1 .. Len(prog) /\ Rest(n + 1, Tail(Top.code))
      /\ st = prog[n + 1] /\ st \in Statements
  BY <1>0, <1>1, MainNext
<1>3. st.code \in Seq(Statements)
  BY <1>0, <1>2, ProgramsAssumption
<1>4. PICK r : r = stack'
  OBVIOUS
<1>5. PICK s : s = Advanced
  OBVIOUS
<1>6. Len(s) = 1 /\ s[1].code = Tail(Top.code) /\ s[1].by = Top.by /\ s[1].caught = Top.caught
  BY <1>0, <1>5, AdvancedIs
<1>7. /\ r \in Seq(Frames) /\ Len(r) = 2 /\ r[1] = s[1]
      /\ r[2].by = st /\ r[2].code = st.code /\ r[2].caught = FALSE
  <2>1. Added(Advanced, stack', st)
    <3>1. PICK x \in Statements : x = st /\ x.code \in Seq(Statements)
      BY <1>2, <1>3
    <3>2. Added(Advanced, Append(Advanced, Call(x, x.code)), x)
      BY <1>0, <3>1, CalledIs
    <3>. QED
      BY <1>0, <3>1, <3>2
  <2>2. 1 \in 1 .. Len(stack) /\ Len(stack) + 1 = 2
    OBVIOUS
  <2>. QED
    BY <1>4, <1>5, <2>1, <2>2 DEF Added
<1>8. ~r[1].caught /\ r[1].by.op = "main"
  BY <1>6, <1>7, MainStands DEF VerdictInv, JumpInv, RootIsMain
<1>9. (\A i \in 2 .. Len(r) : i = 2) /\ (\A i \in 1 .. Len(r) - 1 : i = 1)
  BY <1>7
<1>10. Sound(r)
  <2>1. Within(st.code, st.code)
    BY DEF Within
  <2>. QED
    BY <1>0, <1>2, <1>7, <1>8, <1>9, <2>1 DEF Sound
<1>11. Nests(r)
  <2>1. n + 1 \in DOMAIN prog
    BY <1>2, ProgIs
  <2>2. Nested \/ 2 \notin Levels[r[2].by]
    BY <1>2, <1>7, <2>1 DEF Nested
  <2>3. \A o \in 2 .. 2 - 1 : FALSE
    OBVIOUS
  <2>. QED
    BY <1>9, <2>2, <2>3 DEF Nests
<1>12. Nested' <=> Nested
  BY <1>0, NestedSame
<1>13. Sound(stack)' /\ Nests(stack)'
  BY <1>4, <1>10, <1>11, <1>12 DEF Nests, Sound
<1>14. Layered(r)
  <2>1. Len(r) >= 2
    BY <1>7
  <2>. QED
    BY <1>7, <1>10, <2>1, SoundLayered
<1>15. Open' = {}
  <2>1. DOMAIN r = {1, 2}
    BY <1>7, LenProperties
  <2>. QED
    BY <1>0, <1>4, <1>7, <1>8, <2>1 DEF Open
<1>16. TargetRuns'
  BY <1>15 DEF TargetRuns
<1>17. Errs'
  <2>1. ptr' = "env"
    BY <1>0, MainStands
  <2>2. ~Top'.caught
    BY <1>4, <1>7 DEF Top
  <2>. QED
    BY <2>1, <2>2 DEF Errs
<1>18. At(n + 1)'
  <2>1. Rest(n + 1, stack[1].code)'
    BY <1>0, <1>2, <1>4, <1>6, <1>7 DEF Rest
  <2>2. PICK c : c = Tail(Top.code)
    OBVIOUS
  <2>3. c \in Seq(Statements) /\ Rest(n + 1, c)
    BY <1>2, <2>2 DEF Rest
  <2>4. Tail(env') = c /\ env' # Wrap
    <3>1. env' = <<"test">> \o c
      BY <1>0, <2>2
    <3>. QED
      BY <2>3, <3>1, TailOfTest
  <2>5. Rest(n + 1, Tail(env))'
    BY <1>0, <2>3, <2>4 DEF Rest
  <2>6. n + 1 \in 0 .. n + 1 /\ \A i \in (n + 1) + 1 .. n + 1 : FALSE
    BY <1>2
  <2>7. EnvAt(n + 1)'
    BY <2>4, <2>5, <2>6 DEF EnvAt
  <2>8. \A i \in 1 .. n + 1 : i = n + 1 \/ i \in 1 .. n
    BY <1>2
  <2>9. (\A i \in 1 .. n + 1 : prog[i].op # "assert")'
    BY <1>0, <1>1, <1>2, <2>8 DEF At
  <2>. QED
    BY <2>1, <2>7, <2>9 DEF At
<1>19. ~Doomed(n)
  <2>1. \A j \in n + 1 .. Len(prog) : n + 1 \in n + 1 .. j
    BY <1>2, ProgIs
  <2>. QED
    BY <1>0, <1>2, <2>1 DEF Doomed
<1>20. Agree(earlier, FailsTo(n))'
  <2>1. Agree(failed, FailsTo(n))
    BY <1>1, <1>19 DEF InMain
  <2>2. FailsTo(n)' <=> FailsTo(n)
    BY <1>0 DEF FailsTo
  <2>. QED
    BY <1>0, <1>12, <2>1, <2>2 DEF Agree
<1>21. Carries(stack, err, failed, TestFails(prog[n + 1]))'
  <2>1. Carries(r, err', FALSE, TestFails(st))
    BY <1>7, <1>14, BeginsCarries
  <2>2. Carries(stack', err', failed', TestFails(prog[n + 1]))
    BY <1>0, <1>2, <1>4, <2>1
  <2>3. PICK a : Chain(stack', err', a)
                 /\ Agree(failed' \/ Pending(stack', err', a) \/ a[2] # None, TestFails(prog[n + 1]))
    BY <2>2 DEF Carries
  <2>4. Agree(failed \/ Pending(stack, err, a) \/ a[2] # None, TestFails(prog[n + 1]))'
    BY <1>0, <1>12, <2>3 DEF Agree
  <2>. QED
    BY <2>3, <2>4 DEF Carries
<1>22. InTest(n + 1)'
  <2>1. (n + 1) - 1 = n /\ n + 1 >= 1
    BY <1>2
  <2>2. Len(stack') >= 2
    BY <1>4, <1>7
  <2>. QED
    BY <1>0, <1>2, <1>4, <1>7, <1>20, <1>21, <2>1, <2>2 DEF InTest
<1>23. Running'
  BY <1>13, <1>17, <1>18, <1>22 DEF Running
<1>. QED
  BY <1>0, <1>16, <1>23 DEF VerdictInv, VerdictExact

\* A statement of main().
LEMMA MainGood ==
    ASSUME VerdictInv, exit = "running", Len(stack) = 1, JumpInv', NEW st \in Upcoming, Statement(st)
    PROVE  VerdictInv'
<1>1. Top.code # << >> /\ st = Head(Top.code)
  BY DEF Upcoming
<1>2. PICK n : At(n)
  BY MainStands
<1>3. st.op \in {"test", "assert", "silence"}
  BY <1>1, <1>2, MainNext
<1>4. CASE Begin(st)
  BY <1>4, MainBegins
<1>5. CASE Assert(st)
  <2>1. ptr = "env" /\ Head(Top.code).op = "assert"
    BY <1>1, <1>5, MainStands DEF Assert
  <2>2. CASE env = Wrap
    <3>1. exit' = "-1" /\ UNCHANGED <<prog, stack, ptr, failed, earlier>>
      BY <1>5, <2>1, <2>2 DEF Assert, Longjmp
    <3>. QED
      BY <1>1, <2>1, <2>2, <3>1, MainAsserts
  <2>3. CASE env # Wrap
    <3>1. /\ stack' = <<Call(Main, Tail(env))>> /\ failed' = TRUE
          /\ UNCHANGED <<prog, env, earlier, exit>>
      BY <1>5, <2>1, <2>3 DEF Assert, Longjmp
    <3>. QED
      BY <1>1, <2>1, <2>3, <3>1, MainAssertsLate
  <2>. QED
    BY <2>2, <2>3
<1>6. CASE SilenceOutput(st)
  <2>1. /\ Head(Top.code).op = "silence" /\ stack' = Advanced
        /\ UNCHANGED <<prog, env, failed, earlier, exit>>
    BY <1>1, <1>6 DEF SilenceOutput
  <2>. QED
    BY <1>1, <2>1, MainSilence
<1>7. ~Equal(st) /\ ~Expect(st) /\ ~ExpectPrint(st)
  BY <1>3 DEF Equal, Expect, ExpectPrint
<1>. QED
  BY <1>4, <1>5, <1>6, <1>7 DEF Statement

-----------------------------------------------------------------------------

LEMMA VerdictStarts ==
    ASSUME Init
    PROVE  VerdictInv
<1>0. /\ prog \in Programs /\ prog \in Seq(Statements) /\ stack = <<Call(Main, prog)>> /\ ptr = "env"
      /\ env = Wrap /\ failed = FALSE /\ earlier = FALSE /\ exit = "running" /\ Len(prog) \in Nat
  BY ProgramsAssumption, LenProperties DEF Init
<1>1. JumpInv
  BY JumpStarts
<1>2. Len(stack) = 1 /\ stack[1].code = prog /\ stack[1].by = Main /\ stack[1].caught = FALSE
  <2>1. PICK f : f = Call(Main, prog)
    OBVIOUS
  <2>2. f.code = prog /\ f.by = Main /\ f.caught = FALSE
    BY <2>1 DEF Call
  <2>3. stack = <<f>>
    BY <1>0, <2>1
  <2>. QED
    BY <2>2, <2>3
<1>3. Sound(stack) /\ Nests(stack)
  BY <1>2, MainSound
<1>4. Open = {}
  <2>1. DOMAIN stack = {1}
    BY <1>0
  <2>. QED
    BY <1>2, <2>1 DEF Open, Main
<1>5. Errs
  BY <1>0, <1>2 DEF Errs, Top
<1>6. \A i \in 1 .. 0 : FALSE
  OBVIOUS
<1>7. At(0)
  <2>1. Rest(0, stack[1].code)
    BY <1>0, <1>2 DEF Rest
  <2>. QED
    BY <1>0, <1>2, <1>6, <2>1 DEF At, EnvAt
<1>8. InMain(0)
  <2>1. ~FailsTo(0)
    BY <1>6 DEF FailsTo
  <2>. QED
    BY <1>0, <1>2, <2>1 DEF InMain, Agree
<1>9. Running
  BY <1>3, <1>5, <1>7, <1>8 DEF Running
<1>. QED
  BY <1>0, <1>1, <1>4, <1>9 DEF VerdictInv, TargetRuns, VerdictExact

LEMMA VerdictStays ==
    ASSUME VerdictInv, UNCHANGED vars, JumpInv'
    PROVE  VerdictInv'
<1>0. /\ prog' = prog /\ stack' = stack /\ ptr' = ptr /\ env' = env /\ failed' = failed
      /\ earlier' = earlier /\ err' = err /\ exit' = exit
  BY DEF vars
<1>1. Nested' <=> Nested
  BY <1>0 DEF Nested
<1>2. TargetRuns'
  BY <1>0, <1>1 DEF VerdictInv, TargetRuns, Open
<1>3. VerdictExact'
  <2>1. Verdict' = Verdict
    BY <1>0 DEF Verdict, EarlyAssert
  <2>. QED
    BY <1>0, <1>1, <2>1 DEF VerdictInv, VerdictExact
<1>4. ASSUME exit = "running"
      PROVE  Running'
  <2>1. Running
    BY <1>4 DEF VerdictInv
  <2>2. Sound(stack)' /\ Nests(stack)'
    BY <1>0, <1>1, <2>1 DEF Running, Nests, Sound
  <2>3. Errs'
    BY <1>0, <2>1 DEF Running, Errs, Top
  <2>4. PICK n : At(n) /\ (InMain(n) \/ InTest(n))
    BY <2>1 DEF Running
  <2>5. At(n)'
    BY <1>0, <2>4 DEF At, Rest, EnvAt
  <2>6. FailsTo(n)' <=> FailsTo(n)
    BY <1>0 DEF FailsTo
  <2>7. FailsTo(n - 1)' <=> FailsTo(n - 1)
    BY <1>0 DEF FailsTo
  <2>8. CASE InMain(n)
    <3>1. Doomed(n)' <=> Doomed(n)
      BY <1>0 DEF Doomed
    <3>2. InMain(n)'
      BY <1>0, <1>1, <2>6, <2>8, <3>1 DEF InMain, Agree
    <3>. QED
      BY <2>2, <2>3, <2>5, <3>2 DEF Running
  <2>9. CASE InTest(n)
    <3>1. PICK a : Chain(stack, err, a)
                   /\ Agree(failed \/ Pending(stack, err, a) \/ a[2] # None, TestFails(prog[n]))
      BY <2>9 DEF InTest, Carries
    <3>2. Chain(stack, err, a)'
      BY <1>0, <3>1
    <3>3. Agree(failed \/ Pending(stack, err, a) \/ a[2] # None, TestFails(prog[n]))'
      BY <1>0, <1>1, <3>1 DEF Agree
    <3>4. Carries(stack, err, failed, TestFails(prog[n]))'
      BY <3>2, <3>3 DEF Carries
    <3>5. InTest(n)'
      BY <1>0, <1>1, <2>7, <2>9, <3>4 DEF InTest, Agree
    <3>. QED
      BY <2>2, <2>3, <2>5, <3>5 DEF Running
  <2>. QED
    BY <2>4, <2>8, <2>9
<1>. QED
  BY <1>0, <1>2, <1>3, <1>4 DEF VerdictInv

\* Every step keeps the invariant.
LEMMA VerdictKept ==
    ASSUME VerdictInv, [Next]_vars
    PROVE  VerdictInv'
<1>1. JumpInv'
  BY JumpKept DEF VerdictInv
<1>2. ASSUME NEW st \in Upcoming, Statement(st)
      PROVE  VerdictInv'
  <2>1. exit = "running"
    BY DEF Upcoming
  <2>2. PICK k \in Nat : k = Len(stack) /\ k >= 1
    BY StackFacts DEF VerdictInv, JumpInv
  <2>3. CASE k = 1
    <3>1. Len(stack) = 1
      BY <2>2, <2>3
    <3>. QED
      BY <1>1, <1>2, <2>1, <3>1, MainGood
  <2>4. CASE k # 1
    <3>1. k >= 2
      BY <2>2, <2>4
    <3>2. Len(stack) >= 2
      BY <2>2, <3>1
    <3>. QED
      BY <1>1, <1>2, <2>1, <3>2, StatementGood
  <2>. QED
    BY <2>3, <2>4
<1>. QED
  BY <1>1, <1>2, EndGood, NoAssertGood, CaughtGood, PrintedGood, ReturnGood, VerdictStays DEF Next

\* While a function that is expected to assert runs, ___env_ptr leads to the
\* expect_assert that called it, and to the innermost one, which is on the
\* stack; only nested expectations may miss theirs.  This holds for every
\* program of tests.
THEOREM AssertsFindExpectation == Spec => []TargetIsRunning
<1>1. Init => VerdictInv
  BY VerdictStarts
<1>2. VerdictInv /\ [Next]_vars => VerdictInv'
  BY VerdictKept
<1>3. VerdictInv => TargetIsRunning
  BY DEF VerdictInv, JumpInv, TargetRuns, TargetIsRunning
<1>. QED
  BY <1>1, <1>2, <1>3, PTL DEF Spec

\* What a program of tests returns, whatever its tests do: it reports a failure
\* exactly when one of its tests should fail by what the macros promise; with
\* nested expectations perhaps one too many, never one too few.
THEOREM VerdictIsExact == Spec => []VerdictExact
<1>1. Init => VerdictInv
  BY VerdictStarts
<1>2. VerdictInv /\ [Next]_vars => VerdictInv'
  BY VerdictKept
<1>3. VerdictInv => VerdictExact
  BY DEF VerdictInv
<1>. QED
  BY <1>1, <1>2, <1>3, PTL DEF Spec
=============================================================================
