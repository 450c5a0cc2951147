------------------------ MODULE ReadOnlyCheckProofs ------------------------
(***************************************************************************)
(* The search for writing read-only actions, for every unit and wherever   *)
(* its functions are declared and defined.                                 *)
(***************************************************************************)
EXTENDS ReadOnlyCheck, SequenceTheorems, TLAPS

Frames == [fn : Functions, at : Nat \ {0}, back : BOOLEAN]

\* The declarations that have been visited are the first ones.
Visited == Len(unit.decls) - Len(left)

Stmt(fr) == Body(fr.fn)[fr.at]

Types ==
    /\ unit \in Units
    /\ left \in Seq(Declarations) /\ Len(left) <= Len(unit.decls)
    /\ \A k \in 1 .. Len(left) : left[k] = unit.decls[Visited + k]
    /\ stack \in Seq(Frames)
    /\ calls \in [Functions -> {"none", "empty", "some"}]
    /\ actions \subseteq Actions

\* The calls of process_function wait for the one above them, in a statement
\* that calls it.
StackShape ==
    \A k \in 1 .. Len(stack) :
      /\ stack[k].back => stack[k].at <= Len(Body(stack[k].fn)) /\ Stmt(stack[k]).op = "call"
      /\ k < Len(stack) => stack[k].back /\ stack[k + 1].fn = Stmt(stack[k]).fn

\* The first of them is for the declaration visited last.
RootVisited ==
    stack # << >> => Visited >= 1 /\ unit.decls[Visited] = [fn |-> stack[1].fn]

-----------------------------------------------------------------------------
(* Facts about the unit.                                                   *)

LEMMA UnitFacts ==
    ASSUME unit \in Units
    PROVE  /\ unit.decls \in Seq(Declarations)
           /\ Len(unit.decls) \in Nat /\ DOMAIN unit.decls = 1 .. Len(unit.decls)
           /\ \A f \in Functions :
                /\ Body(f) \in Seq(StatementSet)
                /\ Len(Body(f)) \in Nat /\ DOMAIN Body(f) = 1 .. Len(Body(f))
                /\ \A i \in 1 .. Len(Body(f)) : Body(f)[i] \in StatementSet
           /\ \A f \in Writers : Body(f) = << >>
<1>1. unit.decls \in Seq(Declarations) /\ unit.body \in [Functions -> Seq(StatementSet)]
  BY UnitsAssumption
<1>2. \A f \in Functions : Body(f) \in Seq(StatementSet)
  BY <1>1 DEF Body
<1>3. \A f \in Writers : Body(f) = << >>
  BY UnitsAssumption DEF Body
<1>. QED
  BY <1>1, <1>2, <1>3, LenProperties

LEMMA StatementFacts ==
    ASSUME NEW st \in StatementSet
    PROVE  /\ st.op \in {"call", "nested", "indirect", "init", "assign"}
           /\ st.op \in {"call", "nested", "init", "assign"} => st.fn \in Functions
           /\ st.op \in {"indirect", "init", "assign"} => st.var \in Vars
BY DEF StatementSet

LEMMA DeclarationFacts ==
    ASSUME NEW d \in Declarations
    PROVE  /\ d.fn \in Functions
           /\ "var" \in DOMAIN d => d = [var |-> d.var, fn |-> d.fn] /\ d.var \in Vars
           /\ "var" \notin DOMAIN d => d = [fn |-> d.fn]
           /\ \A f : d = [fn |-> f] => "var" \notin DOMAIN d
BY DEF Declarations

-----------------------------------------------------------------------------
(* The closures.                                                           *)

\* A function leads to a writer exactly when it is one or calls a function
\* that does.
LEMMA WritingUnfolds ==
    /\ Writing \subseteq Functions
    /\ \A f \in Functions : f \in Writing <=> LeadsToWriter(Writing, f)
<1>1. Writing \subseteq Functions
  BY DEF Writing, Least
<1>2. ASSUME NEW f \in Functions, LeadsToWriter(Writing, f)
      PROVE  f \in Writing
  <2>1. ASSUME NEW S \in SUBSET Functions,
               \A g \in Functions : LeadsToWriter(S, g) => g \in S
        PROVE  f \in S
    <3>1. Writing \subseteq S
      BY <2>1 DEF Writing, Least
    <3>2. LeadsToWriter(S, f)
      BY <1>2, <3>1 DEF LeadsToWriter
    <3>. QED
      BY <2>1, <3>2
  <2>. QED
    BY <2>1 DEF Writing, Least
<1>3. ASSUME NEW f \in Writing
      PROVE  LeadsToWriter(Writing, f)
  <2>. DEFINE S == {g \in Functions : LeadsToWriter(Writing, g)}
  <2>1. S \subseteq Writing
    BY <1>2
  <2>2. \A g \in Functions : LeadsToWriter(S, g) => g \in S
    BY <2>1 DEF LeadsToWriter
  <2>3. f \in S
    BY <1>1, <2>2 DEF Writing, Least
  <2>. QED
    BY <2>3
<1>. QED
  BY <1>1, <1>2, <1>3

\* What is suspected already makes its callers suspected.
LEMMA SuspectedClosed ==
    ASSUME NEW f \in Functions, LeadsToAlarm(Suspected, f)
    PROVE  f \in Suspected
<1>1. ASSUME NEW S \in SUBSET Functions,
             \A g \in Functions : LeadsToAlarm(S, g) => g \in S
      PROVE  f \in S
  <2>1. Suspected \subseteq S
    BY <1>1 DEF Suspected, Least
  <2>2. LeadsToAlarm(S, f)
    BY <2>1 DEF LeadsToAlarm
  <2>. QED
    BY <1>1, <2>2
<1>. QED
  BY <1>1 DEF Suspected, Least

LEMMA SameUnit ==
    ASSUME UNCHANGED unit
    PROVE  /\ Writing' = Writing /\ Suspected' = Suspected
           /\ \A f : Called(f)' = Called(f) /\ Body(f)' = Body(f)
           /\ \A v : Values(v)' = Values(v)
<1>1. Writing' = Writing
  BY DEF Writing, Least, LeadsToWriter, CallsDirectly
<1>2. Suspected' = Suspected
  BY DEF Suspected, Least, LeadsToAlarm, CallsDirectly, CallsIndirectly, Called, Values,
     Statements, Body
<1>3. \A f : Called(f)' = Called(f) /\ Body(f)' = Body(f)
  BY DEF Called, Body, CallsDirectly
<1>4. \A v : Values(v)' = Values(v)
  BY DEF Values, Statements, Body
<1>. QED
  BY <1>1, <1>2, <1>3, <1>4

-----------------------------------------------------------------------------
(* The stack.                                                              *)

LEMMA TopFacts ==
    ASSUME stack \in Seq(Frames), stack # << >>
    PROVE  /\ Len(stack) \in Nat /\ Len(stack) >= 1
           /\ Top \in Frames /\ \A k \in 1 .. Len(stack) : stack[k] \in Frames
<1>1. Len(stack) \in Nat /\ Len(stack) >= 1
  BY EmptySeq, LenProperties
<1>2. \A k \in 1 .. Len(stack) : stack[k] \in Frames
  BY LenProperties
<1>. QED
  BY <1>1, <1>2 DEF Top

LEMMA AdvancedFacts ==
    ASSUME stack \in Seq(Frames), stack # << >>
    PROVE  /\ Advanced \in Seq(Frames) /\ Len(Advanced) = Len(stack) /\ Advanced # << >>
           /\ \A k \in 1 .. Len(stack) : k # Len(stack) => Advanced[k] = stack[k]
           /\ Advanced[Len(stack)].fn = Top.fn
           /\ Advanced[Len(stack)].at = Top.at + 1
           /\ Advanced[Len(stack)].back = FALSE
<1>1. Len(stack) \in 1 .. Len(stack) /\ Len(stack) \in Nat /\ Top \in Frames
  BY TopFacts
<1>. DEFINE e == [Top EXCEPT !.at = Top.at + 1, !.back = FALSE]
<1>2. e.fn = Top.fn /\ e.at = Top.at + 1 /\ e.back = FALSE
  BY <1>1 DEF Frames
<1>3. Top.at + 1 \in Nat \ {0} /\ FALSE \in BOOLEAN
  BY <1>1 DEF Frames
<1>4. e \in Frames
  <2>1. ASSUME NEW n \in Nat \ {0}
        PROVE  [Top EXCEPT !.at = n, !.back = FALSE] \in Frames
    BY <1>1 DEF Frames
  <2>. QED
    BY <1>3, <2>1
<1>5. Advanced = [stack EXCEPT ![Len(stack)] = e]
  BY DEF Advanced
<1>. HIDE DEF e
<1>6. /\ Advanced \in Seq(Frames) /\ Len(Advanced) = Len(stack)
      /\ \A j \in 1 .. Len(stack) : Advanced[j] = IF j = Len(stack) THEN e ELSE stack[j]
  BY <1>1, <1>4, <1>5, ExceptSeq
<1>7. Advanced # << >>
  BY <1>1, <1>6, EmptySeq
<1>. QED
  BY <1>1, <1>2, <1>6, <1>7

LEMMA PoppedFacts ==
    ASSUME stack \in Seq(Frames), stack # << >>
    PROVE  /\ Popped \in Seq(Frames) /\ Len(Popped) = Len(stack) - 1
           /\ \A k \in 1 .. Len(stack) - 1 : Popped[k] = stack[k]
           /\ Popped = << >> <=> Len(stack) = 1
<1>1. /\ Len(stack) \in Nat /\ Len(stack) >= 1
      /\ \A k \in 1 .. Len(stack) : stack[k] \in Frames
  BY TopFacts
<1>2. \A k \in 1 .. Len(stack) - 1 : stack[k] \in Frames
  BY <1>1
<1>3. /\ SubSeq(stack, 1, Len(stack) - 1) \in Seq(Frames)
      /\ Len(SubSeq(stack, 1, Len(stack) - 1)) =
           IF 1 <= Len(stack) - 1 THEN (Len(stack) - 1) - 1 + 1 ELSE 0
      /\ \A k \in 1 .. (Len(stack) - 1) - 1 + 1 :
           SubSeq(stack, 1, Len(stack) - 1)[k] = stack[1 + k - 1]
  <2>1. 1 \in Int /\ Len(stack) - 1 \in Int
    BY <1>1
  <2>. QED
    BY <1>2, <2>1, SubSeqProperties
<1>4. Popped \in Seq(Frames) /\ Len(Popped) = Len(stack) - 1
  <2>1. ASSUME NEW n \in Nat, n >= 1
        PROVE  (IF 1 <= n - 1 THEN (n - 1) - 1 + 1 ELSE 0) = n - 1
    BY <2>1
  <2>. QED
    BY <1>1, <1>3, <2>1 DEF Popped
<1>5. \A k \in 1 .. Len(stack) - 1 : Popped[k] = stack[k]
  BY <1>1, <1>3 DEF Popped
<1>6. Popped = << >> <=> Len(stack) = 1
  BY <1>1, <1>4, EmptySeq
<1>. QED
  BY <1>4, <1>5, <1>6

Pushed(f) == Append([stack EXCEPT ![Len(stack)].back = TRUE], Frame(f))

LEMMA PushedFacts ==
    ASSUME stack \in Seq(Frames), stack # << >>, NEW f \in Functions
    PROVE  /\ Pushed(f) \in Seq(Frames) /\ Len(Pushed(f)) = Len(stack) + 1
           /\ Pushed(f) # << >>
           /\ \A k \in 1 .. Len(stack) : k # Len(stack) => Pushed(f)[k] = stack[k]
           /\ Pushed(f)[Len(stack)].fn = Top.fn
           /\ Pushed(f)[Len(stack)].at = Top.at
           /\ Pushed(f)[Len(stack)].back = TRUE
           /\ Pushed(f)[Len(stack) + 1] = Frame(f)
<1>1. Len(stack) \in 1 .. Len(stack) /\ Len(stack) \in Nat /\ Top \in Frames
  BY TopFacts
<1>. DEFINE e == [Top EXCEPT !.back = TRUE]
            s == [stack EXCEPT ![Len(stack)] = e]
<1>2. e \in Frames /\ Frame(f) \in Frames
  <2>1. e \in Frames
    BY <1>1 DEF Frames
  <2>2. Frame(f) \in Frames
    BY DEF Frames, Frame
  <2>. QED
    BY <2>1, <2>2
<1>3. /\ [stack EXCEPT ![Len(stack)].back = TRUE] = s
      /\ e.fn = Top.fn /\ e.at = Top.at /\ e.back = TRUE
  <2>1. [stack EXCEPT ![Len(stack)].back = TRUE] = s
    BY DEF Top
  <2>2. e.fn = Top.fn /\ e.at = Top.at /\ e.back = TRUE
    BY <1>1 DEF Frames
  <2>. QED
    BY <2>1, <2>2
<1>. HIDE DEF e
<1>4. /\ s \in Seq(Frames) /\ Len(s) = Len(stack)
      /\ \A j \in 1 .. Len(stack) : s[j] = IF j = Len(stack) THEN e ELSE stack[j]
  BY <1>1, <1>2, ExceptSeq
<1>5. Pushed(f) = Append(s, Frame(f))
  BY <1>3 DEF Pushed
<1>. HIDE DEF s
<1>6. /\ Append(s, Frame(f)) \in Seq(Frames) /\ Append(s, Frame(f)) # << >>
      /\ Len(Append(s, Frame(f))) = Len(s) + 1
      /\ \A i \in 1 .. Len(s) : Append(s, Frame(f))[i] = s[i]
      /\ Append(s, Frame(f))[Len(s) + 1] = Frame(f)
  BY <1>2, <1>4, AppendProperties
<1>. QED
  BY <1>1, <1>3, <1>4, <1>5, <1>6

LEMMA UpcomingFacts ==
    ASSUME Types, NEW st \in Upcoming
    PROVE  /\ state = "running" /\ stack # << >> /\ Top \in Frames /\ Top.fn \in Functions
           /\ Top.at \in 1 .. Len(Body(Top.fn))
           /\ st = Stmt(Top) /\ st \in StatementSet
<1>1. /\ state = "running" /\ stack # << >> /\ Top.at <= Len(Body(Top.fn))
      /\ st = Body(Top.fn)[Top.at]
  BY DEF Upcoming
<1>2. Top \in Frames
  BY <1>1, TopFacts DEF Types
<1>3. Top.fn \in Functions /\ Top.at \in Nat /\ Top.at # 0
  BY <1>2 DEF Frames
<1>4. Len(Body(Top.fn)) \in Nat /\ \A i \in 1 .. Len(Body(Top.fn)) : Body(Top.fn)[i] \in StatementSet
  BY <1>3, UnitFacts DEF Types
<1>5. Top.at \in 1 .. Len(Body(Top.fn))
  BY <1>1, <1>3, <1>4
<1>. QED
  BY <1>1, <1>2, <1>3, <1>4, <1>5 DEF Stmt

-----------------------------------------------------------------------------
(* What a step does to the stack and to the declarations.                  *)

Advances ==
    /\ stack # << >> /\ Top.at <= Len(Body(Top.fn))
    /\ stack' = Advanced /\ UNCHANGED <<unit, left, actions>>
    /\ \/ /\ Stmt(Top).op = "call" /\ Stmt(Top).fn \in Functions
          /\ Known(Stmt(Top).fn) \/ Top.back
          /\ calls[Stmt(Top).fn] # "some"
          /\ calls' = [calls EXCEPT ![Stmt(Top).fn] = "empty"] /\ UNCHANGED pointers
       \/ /\ Stmt(Top).op = "indirect"
          /\ Stmt(Top).var \in pointers => calls' = [calls EXCEPT ![Top.fn] = "some"]
          /\ Stmt(Top).var \notin pointers => calls' = calls
          /\ UNCHANGED pointers
       \/ /\ Stmt(Top).op \in {"init", "assign"} /\ Stmt(Top).fn \in Functions
          /\ pointers' \subseteq pointers \cup {Stmt(Top).var} /\ UNCHANGED calls
          /\ Known(Stmt(Top).fn) => Stmt(Top).var \in pointers'
          /\ ~Known(Stmt(Top).fn) => pointers' \subseteq pointers
       \/ Stmt(Top).op = "nested" /\ UNCHANGED <<calls, pointers>>

Pushes ==
    /\ stack # << >> /\ Top.at <= Len(Body(Top.fn)) /\ Stmt(Top).op = "call"
    /\ ~Known(Stmt(Top).fn) /\ Stmt(Top).fn \in Functions
    /\ stack' = Pushed(Stmt(Top).fn) /\ UNCHANGED <<unit, left, actions, calls, pointers>>

Pops ==
    /\ stack # << >> /\ stack' = Popped /\ UNCHANGED <<unit, left, actions, pointers>>
    /\ \/ /\ calls' = [calls EXCEPT ![Top.fn] = "some"] /\ Top.at <= Len(Body(Top.fn))
          /\ Stmt(Top).op = "call" /\ Stmt(Top).fn \in Functions
          /\ calls[Stmt(Top).fn] = "some"
       \/ UNCHANGED calls /\ Top.at > Len(Body(Top.fn))

Visits == VisitVariable \/ VisitFunction

Rests == UNCHANGED <<unit, left, stack, calls, pointers, actions>>

LEMMA StepKinds ==
    ASSUME Types, [Next]_vars
    PROVE  Advances \/ Pushes \/ Pops \/ Visits \/ Rests
<1>1. CASE VisitVariable \/ VisitFunction
  BY <1>1 DEF Visits
<1>2. ASSUME NEW st \in Upcoming, ProcessStatement(st)
      PROVE  Advances \/ Pushes \/ Pops \/ Rests
  <2>1. /\ stack # << >> /\ Top.at \in 1 .. Len(Body(Top.fn))
        /\ Len(Body(Top.fn)) \in Nat /\ st = Stmt(Top) /\ st \in StatementSet
    BY UpcomingFacts, UnitFacts DEF Types
  <2>2. Top.at <= Len(Body(Top.fn))
    BY <2>1
  <2>3. CASE Follow(st)
    BY <2>1, <2>2, <2>3, StatementFacts DEF Follow, Pushes, Pushed, Rests
  <2>4. CASE Judge(st)
    BY <2>1, <2>2, <2>4, StatementFacts DEF Judge, Advances, Pops
  <2>5. CASE ProcessIndiCallee(st)
    BY <2>1, <2>2, <2>5 DEF ProcessIndiCallee, Advances
  <2>6. CASE Declare(st)
    BY <2>1, <2>2, <2>6, StatementFacts DEF Declare, ProcessDeclInit, Advances
  <2>7. CASE UpdateIndiFuncMap(st)
    BY <2>1, <2>2, <2>7, StatementFacts DEF UpdateIndiFuncMap, Advances
  <2>8. CASE Pass(st)
    BY <2>1, <2>2, <2>8 DEF Pass, Advances
  <2>. QED
    BY <1>2, <2>3, <2>4, <2>5, <2>6, <2>7, <2>8 DEF ProcessStatement
<1>3. CASE Leave
  BY <1>3 DEF Leave, Pops
<1>4. CASE ProcessReadOnlyActions
  BY <1>4 DEF ProcessReadOnlyActions, Rests
<1>5. CASE UNCHANGED vars
  BY <1>5 DEF vars, Rests
<1>. QED
  BY <1>1, <1>2, <1>3, <1>4, <1>5 DEF Next

LEMMA VisitFacts ==
    ASSUME Types, Visits
    PROVE  /\ left' \in Seq(Declarations) /\ Len(left') = Len(left) - 1
           /\ Len(left) \in Nat /\ Len(left) >= 1
           /\ Visited \in Nat /\ Visited' = Visited + 1 /\ Visited' <= Len(unit.decls)
           /\ Head(left) = unit.decls[Visited'] /\ Head(left) \in Declarations
           /\ \A k \in 1 .. Len(left') : left'[k] = unit'.decls[Visited' + k]
<1>1. left \in Seq(Declarations) /\ left # << >> /\ left' = Tail(left) /\ unit' = unit
  BY DEF Types, Visits, VisitVariable, VisitFunction
<1>2. Len(left) \in Nat /\ Len(left) >= 1
  BY <1>1, EmptySeq, LenProperties
<1>3. /\ Head(left) \in Declarations /\ Tail(left) \in Seq(Declarations)
      /\ Len(Tail(left)) = Len(left) - 1
      /\ \A i \in 1 .. Len(Tail(left)) : Tail(left)[i] = left[i + 1]
  BY <1>1, HeadTailProperties
<1>4. Head(left) = left[1]
  BY <1>1
<1>5. Len(unit.decls) \in Nat /\ Len(left) <= Len(unit.decls)
  BY UnitFacts DEF Types
<1>6. Visited \in Nat /\ Visited' = Visited + 1 /\ Visited' <= Len(unit.decls)
  BY <1>1, <1>2, <1>3, <1>5 DEF Visited
<1>7. Head(left) = unit.decls[Visited']
  BY <1>2, <1>4, <1>6 DEF Types
<1>8. \A k \in 1 .. Len(left') : left'[k] = unit'.decls[Visited' + k]
  <2>. SUFFICES ASSUME NEW k \in 1 .. Len(left')
                PROVE  left'[k] = unit'.decls[Visited' + k]
    OBVIOUS
  <2>1. k + 1 \in 1 .. Len(left) /\ Visited + (k + 1) = Visited' + k
    BY <1>1, <1>2, <1>3, <1>6
  <2>2. left[k + 1] = unit.decls[Visited + (k + 1)]
    BY <2>1 DEF Types
  <2>. QED
    BY <1>1, <1>3, <2>1, <2>2
<1>. QED
  BY <1>1, <1>2, <1>3, <1>6, <1>7, <1>8

\* The entries of func_calls stay, and those of functions that write stay so;
\* a step gives an entry to a function of the unit.
LEMMA CallsGrow ==
    ASSUME Types, [Next]_vars
    PROVE  /\ unit' = unit /\ calls' \in [Functions -> {"none", "empty", "some"}]
           /\ actions' \subseteq Actions
           /\ \A f \in Functions : Known(f) => Known(f)'
           /\ \A f \in Functions : calls[f] = "some" => calls'[f] = "some"
<1>. calls \in [Functions -> {"none", "empty", "some"}] /\ actions \subseteq Actions
  BY DEF Types
<1>1. CASE VisitVariable
  BY <1>1 DEF VisitVariable, Known
<1>2. CASE VisitFunction
  <2>1. /\ unit' = unit /\ Head(left).fn \in Functions
        /\ actions' = Registered(Head(left).fn)
    BY <1>2, VisitFacts, DeclarationFacts DEF VisitFunction, Visits
  <2>2. calls' = calls \/ calls' = [calls EXCEPT ![Head(left).fn] = "some"]
    BY <1>2 DEF VisitFunction
  <2>3. /\ calls' \in [Functions -> {"none", "empty", "some"}]
        /\ \A f \in Functions : calls[f] # "none" => calls'[f] # "none"
        /\ \A f \in Functions : calls[f] = "some" => calls'[f] = "some"
    BY <2>1, <2>2
  <2>. QED
    BY <2>1, <2>3 DEF Registered, Known
<1>3. ASSUME NEW st \in Upcoming, ProcessStatement(st)
      PROVE  /\ unit' = unit /\ actions' = actions
             /\ calls' \in [Functions -> {"none", "empty", "some"}]
             /\ \A f \in Functions : calls[f] # "none" => calls'[f] # "none"
             /\ \A f \in Functions : calls[f] = "some" => calls'[f] = "some"
  <2>1. /\ Top.fn \in Functions
        /\ st.op = "call" => st.fn \in Functions
    BY UpcomingFacts, StatementFacts
  <2>2. unit' = unit /\ actions' = actions
    BY <1>3 DEF ProcessStatement, Follow, Judge, ProcessIndiCallee, Declare,
       UpdateIndiFuncMap, Pass
  <2>3. \/ calls' = calls \/ calls' = [calls EXCEPT ![Top.fn] = "some"]
        \/ /\ st.fn \in Functions /\ calls[st.fn] # "some"
           /\ calls' = [calls EXCEPT ![st.fn] = "empty"]
    BY <1>3, <2>1 DEF ProcessStatement, Follow, Judge, ProcessIndiCallee, Declare,
       UpdateIndiFuncMap, Pass
  <2>. QED
    BY <2>1, <2>2, <2>3
<1>4. CASE Leave \/ ProcessReadOnlyActions \/ UNCHANGED vars
  BY <1>4 DEF Leave, ProcessReadOnlyActions, vars, Known
<1>. QED
  BY <1>1, <1>2, <1>3, <1>4 DEF Next, Known

Shape == Types /\ StackShape /\ RootVisited

LEMMA ShapeStarts ==
    ASSUME Init
    PROVE  Shape
<1>1. /\ unit \in Units /\ left = unit.decls /\ stack = << >> /\ actions = {}
      /\ calls \in [Functions -> {"none", "empty", "some"}]
  BY DEF Init
<1>2. left \in Seq(Declarations) /\ Len(left) \in Nat /\ Len(unit.decls) = Len(left)
  BY <1>1, UnitFacts
<1>3. Visited = 0
  BY <1>1, <1>2 DEF Visited
<1>4. \A k \in 1 .. Len(left) : left[k] = unit.decls[Visited + k]
  BY <1>1, <1>2, <1>3
<1>5. stack \in Seq(Frames) /\ Len(stack) = 0
  BY <1>1, EmptySeq
<1>. QED
  BY <1>1, <1>2, <1>4, <1>5 DEF Shape, Types, StackShape, RootVisited

LEMMA ShapeKept ==
    ASSUME Shape, [Next]_vars
    PROVE  Shape'
<1>. USE DEF Shape
<1>1. /\ unit' = unit /\ unit' \in Units
      /\ calls' \in [Functions -> {"none", "empty", "some"}]
      /\ actions' \subseteq Actions
  BY CallsGrow DEF Types
<1>2. \A f : Body(f)' = Body(f)
  BY <1>1, SameUnit
<1>3. \A f \in Functions : Len(Body(f)) \in Nat
  BY UnitFacts DEF Types
<1>4. CASE Advances
  <2>1. /\ stack' = Advanced /\ left' = left /\ stack # << >> /\ Visited' = Visited
    BY <1>1, <1>4 DEF Advances, Visited
  <2>2. /\ stack' \in Seq(Frames) /\ Len(stack') = Len(stack) /\ Len(stack) \in Nat
        /\ Len(stack) >= 1
        /\ \A k \in 1 .. Len(stack) : k # Len(stack) => stack'[k] = stack[k]
        /\ stack'[Len(stack)].fn = Top.fn /\ stack'[Len(stack)].back = FALSE
    BY <2>1, AdvancedFacts, TopFacts DEF Types
  <2>3. Types'
    BY <1>1, <2>1, <2>2 DEF Types
  <2>4. \A k \in 1 .. Len(stack) : stack'[k].fn = stack[k].fn
    BY <2>2 DEF Top
  <2>5. StackShape'
    BY <1>2, <2>2, <2>4 DEF StackShape, Stmt
  <2>6. RootVisited'
    BY <1>1, <2>1, <2>2, <2>4 DEF RootVisited
  <2>. QED
    BY <2>3, <2>5, <2>6
<1>5. CASE Pushes
  <2>. DEFINE g == Stmt(Top).fn
  <2>1. /\ stack' = Pushed(g) /\ left' = left /\ stack # << >> /\ Visited' = Visited
        /\ g \in Functions /\ Stmt(Top).op = "call" /\ Top.at <= Len(Body(Top.fn))
    BY <1>1, <1>5 DEF Pushes, Visited
  <2>2. /\ stack' \in Seq(Frames) /\ Len(stack') = Len(stack) + 1 /\ Len(stack) \in Nat
        /\ Len(stack) >= 1
        /\ \A k \in 1 .. Len(stack) : k # Len(stack) => stack'[k] = stack[k]
        /\ stack'[Len(stack)].fn = Top.fn /\ stack'[Len(stack)].at = Top.at
        /\ stack'[Len(stack) + 1] = Frame(g)
        /\ stack'[Len(stack)].back = TRUE
    BY <2>1, PushedFacts, TopFacts DEF Types
  <2>3. Types'
    BY <1>1, <2>1, <2>2 DEF Types
  <2>4. \A k \in 1 .. Len(stack) : stack'[k].fn = stack[k].fn /\ stack'[k].at = stack[k].at
    BY <2>2 DEF Top
  <2>5. StackShape'
    <3>. SUFFICES ASSUME NEW k \in 1 .. Len(stack) + 1
                  PROVE  /\ stack'[k].back => stack'[k].at <= Len(Body(stack'[k].fn))
                                              /\ Body(stack'[k].fn)[stack'[k].at].op = "call"
                         /\ k < Len(stack) + 1 => stack'[k].back /\ stack'[k + 1].fn
                                                   = Body(stack'[k].fn)[stack'[k].at].fn
      BY <1>2, <2>2 DEF StackShape, Stmt
    <3>1. CASE k < Len(stack)
      BY <2>2, <2>4, <3>1 DEF StackShape, Stmt
    <3>2. CASE k = Len(stack)
      <4>1. stack'[k + 1].fn = g
        BY <2>2, <3>2 DEF Frame
      <4>2. stack'[k].fn = Top.fn /\ stack'[k].at = Top.at /\ stack'[k].back = TRUE
        BY <2>2, <3>2
      <4>. QED
        BY <2>1, <4>1, <4>2 DEF Stmt
    <3>3. CASE k = Len(stack) + 1
      BY <2>2, <3>3 DEF Frame
    <3>. QED
      BY <2>2, <3>1, <3>2, <3>3
  <2>6. RootVisited'
    BY <1>1, <2>1, <2>2, <2>4 DEF RootVisited
  <2>. QED
    BY <2>3, <2>5, <2>6
<1>6. CASE Pops
  <2>1. /\ stack' = Popped /\ left' = left /\ stack # << >> /\ Visited' = Visited
    BY <1>1, <1>6 DEF Pops, Visited
  <2>2. /\ stack' \in Seq(Frames) /\ Len(stack') = Len(stack) - 1 /\ Len(stack) \in Nat
        /\ Len(stack) >= 1
        /\ \A k \in 1 .. Len(stack) - 1 : stack'[k] = stack[k]
        /\ stack' = << >> <=> Len(stack) = 1
    BY <2>1, PoppedFacts, TopFacts DEF Types
  <2>3. Types'
    BY <1>1, <2>1, <2>2 DEF Types
  <2>4. StackShape'
    <3>. SUFFICES ASSUME NEW k \in 1 .. Len(stack) - 1
                  PROVE  /\ stack'[k].back => stack'[k].at <= Len(Body(stack'[k].fn))
                                              /\ Body(stack'[k].fn)[stack'[k].at].op = "call"
                         /\ k < Len(stack) - 1 => stack'[k].back /\ stack'[k + 1].fn
                                                   = Body(stack'[k].fn)[stack'[k].at].fn
      BY <1>2, <2>2 DEF StackShape, Stmt
    <3>1. stack'[k] = stack[k] /\ (k < Len(stack) - 1 => stack'[k + 1] = stack[k + 1])
      BY <2>2
    <3>2. k \in 1 .. Len(stack) /\ k < Len(stack)
      BY <2>2
    <3>. QED
      BY <3>1, <3>2 DEF StackShape, Stmt
  <2>5. RootVisited'
    BY <1>1, <2>1, <2>2 DEF RootVisited
  <2>. QED
    BY <2>3, <2>4, <2>5
<1>7. CASE Visits
  <2>1. /\ left' \in Seq(Declarations) /\ Len(left') <= Len(unit'.decls)
        /\ \A k \in 1 .. Len(left') : left'[k] = unit'.decls[Visited' + k]
        /\ Visited \in Nat /\ Visited' = Visited + 1 /\ Head(left) = unit'.decls[Visited']
        /\ Head(left) \in Declarations /\ stack = << >>
    <3>1. Len(unit.decls) \in Nat /\ Len(left) <= Len(unit.decls)
      BY UnitFacts DEF Types
    <3>. QED
      BY <1>1, <1>7, <3>1, VisitFacts DEF Visits, VisitVariable, VisitFunction
  <2>2. CASE stack' = stack
    <3>1. stack' \in Seq(Frames) /\ Len(stack') = 0
      BY <2>1, <2>2, EmptySeq
    <3>. QED
      BY <1>1, <2>1, <2>2, <3>1 DEF Types, StackShape, RootVisited
  <2>3. CASE stack' # stack
    <3>1. stack' = <<Frame(Head(left).fn)>> /\ Head(left) = [fn |-> Head(left).fn]
      BY <1>7, <2>1, <2>3, DeclarationFacts DEF Visits, VisitVariable, VisitFunction
    <3>2. Frame(Head(left).fn) \in Frames
      BY <2>1, DeclarationFacts DEF Frame, Frames
    <3>3. stack' \in Seq(Frames) /\ Len(stack') = 1 /\ stack'[1] = Frame(Head(left).fn)
      BY <3>1, <3>2
    <3>4. stack'[1].back = FALSE /\ stack'[1].fn = Head(left).fn
      BY <3>3 DEF Frame
    <3>5. Types'
      BY <1>1, <2>1, <3>3 DEF Types
    <3>6. StackShape'
      BY <3>3, <3>4 DEF StackShape
    <3>7. RootVisited'
      BY <2>1, <3>1, <3>4 DEF RootVisited
    <3>. QED
      BY <3>5, <3>6, <3>7
  <2>. QED
    BY <2>2, <2>3
<1>8. CASE Rests
  <2>1. left' = left /\ stack' = stack /\ Visited' = Visited
    BY <1>1, <1>8 DEF Rests, Visited
  <2>2. Types'
    BY <1>1, <2>1 DEF Types
  <2>3. StackShape'
    BY <1>2, <2>1 DEF StackShape, Stmt
  <2>4. RootVisited'
    BY <1>1, <2>1 DEF RootVisited
  <2>. QED
    BY <2>2, <2>3, <2>4
<1>. QED
  BY <1>4, <1>5, <1>6, <1>7, <1>8, StepKinds

-----------------------------------------------------------------------------
(* Calls.                                                                  *)

\* An empty vector in func_calls is the one of a function that leads to no
\* writer.
EmptyHarmless == \A f \in Functions : calls[f] = "empty" => f \notin Writing

\* The calls that process_function has left behind lead to none.
PassedHarmless ==
    \A k \in 1 .. Len(stack) : \A i \in 1 .. Len(Body(stack[k].fn)) :
      i < stack[k].at /\ Body(stack[k].fn)[i].op = "call"
        => Body(stack[k].fn)[i].fn \notin Writing

\* A callee that has been processed and leads to a writer has its entry.
ReturnedJudged ==
    stack # << >> /\ Top.back /\ Stmt(Top).fn \in Writing => calls[Stmt(Top).fn] = "some"

\* The functions the calls on the stack lead to: the writers of them have
\* been visited.
Scope(T) ==
    /\ \A f \in T, g \in Functions : CallsDirectly(f, g) => g \in T
    /\ \A w \in T \cap Writers : calls[w] = "some"
    /\ \A k \in 1 .. Len(stack) : Body(stack[k].fn) # << >> => stack[k].fn \in T

InScope == \E T \in SUBSET Functions : Scope(T)

WritersOnStack == \A k \in 1 .. Len(stack) : stack[k].fn \in Writers => calls[stack[k].fn] = "some"

\* A declaration whose visit is over.
Over(j) == j \in 1 .. Visited /\ (j < Visited \/ stack = << >>)

VisitedJudged ==
    \A j : \A f \in Writing : Over(j) /\ unit.decls[j] = [fn |-> f] => calls[f] = "some"

VisitedRegistered ==
    \A j \in 1 .. Visited : \A a \in Actions : unit.decls[j] = [fn |-> a] => a \in actions

Reported ==
    /\ state = "done" => left = << >> /\ stack = << >> /\ errors = {a \in actions : Known(a)}
    /\ state # "done" => errors = {}

Judged ==
    /\ EmptyHarmless /\ PassedHarmless /\ ReturnedJudged /\ InScope /\ WritersOnStack
    /\ VisitedJudged /\ VisitedRegistered

LEMMA WritersWrite == Writers \subseteq Writing
BY WritingUnfolds, FunctionsAssumption DEF LeadsToWriter

LEMMA JudgedStarts ==
    ASSUME Init
    PROVE  Judged /\ Reported
<1>1. Shape /\ stack = << >> /\ calls = [f \in Functions |-> "none"] /\ state = "running"
      /\ errors = {} /\ left = unit.decls
  BY ShapeStarts DEF Init
<1>2. Len(stack) = 0
  BY <1>1, EmptySeq
<1>3. Visited = 0
  BY <1>1, UnitFacts DEF Visited, Shape, Types
<1>4. InScope
  <2>1. {} \in SUBSET Functions /\ Scope({})
    BY <1>2 DEF Scope
  <2>. QED
    BY <2>1 DEF InScope
<1>. QED
  BY <1>1, <1>2, <1>3, <1>4 DEF Judged, EmptyHarmless, PassedHarmless, ReturnedJudged,
     WritersOnStack, VisitedJudged, VisitedRegistered, Reported, Over

\* A function whose call of process_function ends and that leads to a writer
\* has its entry.
LEMMA PoppedJudged ==
    ASSUME Shape, Judged, Pops, Top.fn \in Writing
    PROVE  calls'[Top.fn] = "some"
<1>1. /\ Top \in Frames /\ Top.fn \in Functions /\ Len(stack) \in 1 .. Len(stack)
      /\ Top.at \in Nat /\ Len(Body(Top.fn)) \in Nat
      /\ DOMAIN Body(Top.fn) = 1 .. Len(Body(Top.fn))
  <2>1. Top \in Frames /\ Len(stack) \in 1 .. Len(stack)
    BY TopFacts DEF Shape, Types, Pops
  <2>2. Top.fn \in Functions /\ Top.at \in Nat
    BY <2>1 DEF Frames
  <2>. QED
    BY <2>1, <2>2, UnitFacts DEF Shape, Types
<1>2. CASE calls' = [calls EXCEPT ![Top.fn] = "some"]
  BY <1>1, <1>2 DEF Shape, Types
<1>3. CASE UNCHANGED calls /\ Top.at > Len(Body(Top.fn))
  <2>1. CASE Top.fn \in Writers
    BY <1>1, <1>3, <2>1 DEF Judged, WritersOnStack, Top
  <2>2. ASSUME NEW g \in Writing, CallsDirectly(Top.fn, g)
        PROVE  FALSE
    <3>1. PICK i \in 1 .. Len(Body(Top.fn)) : Body(Top.fn)[i].op = "call" /\ Body(Top.fn)[i].fn = g
      BY <1>1, <2>2 DEF CallsDirectly, CallsIn, Body
    <3>2. i < Top.at
      BY <1>1, <1>3, <3>1
    <3>3. Body(Top.fn)[i].fn \notin Writing
      BY <1>1, <3>1, <3>2 DEF Judged, PassedHarmless, Top
    <3>. QED
      BY <2>2, <3>1, <3>3
  <2>3. LeadsToWriter(Writing, Top.fn)
    BY <1>1, WritingUnfolds
  <2>. QED
    BY <2>1, <2>2, <2>3 DEF LeadsToWriter
<1>. QED
  BY <1>2, <1>3 DEF Pops

\* What does not change while the stack is not empty.
LEMMA SameRest ==
    ASSUME Shape, [Next]_vars
    PROVE  /\ Writing' = Writing /\ Writing \subseteq Functions
           /\ \A f : Body(f)' = Body(f)
           /\ \A f, g : CallsDirectly(f, g)' = CallsDirectly(f, g)
           /\ \A f \in Functions : Known(f) => Known(f)'
           /\ \A f \in Functions : calls[f] = "some" => calls'[f] = "some"
           /\ calls \in [Functions -> {"none", "empty", "some"}]
           /\ left' = left => Visited' = Visited
           /\ Visited \in Nat /\ unit' = unit
           /\ \A k \in 1 .. Len(stack) :
                stack[k].fn \in Functions /\ stack[k].at \in Nat /\ stack[k].at >= 1
<1>1. unit' = unit
  BY CallsGrow DEF Shape
<1>2. Writing' = Writing /\ (\A f : Body(f)' = Body(f)) /\ Writing \subseteq Functions
  BY <1>1, SameUnit, WritingUnfolds
<1>3. \A f, g : CallsDirectly(f, g)' = CallsDirectly(f, g)
  BY <1>1 DEF CallsDirectly
<1>4. left' = left => Visited' = Visited
  BY <1>1 DEF Visited
<1>5. Visited \in Nat
  BY UnitFacts, LenProperties DEF Visited, Shape, Types
<1>6. \A k \in 1 .. Len(stack) : stack[k].fn \in Functions /\ stack[k].at \in Nat /\ stack[k].at >= 1
  <2>1. \A k \in 1 .. Len(stack) : stack[k] \in Frames
    BY LenProperties DEF Shape, Types
  <2>. QED
    BY <2>1 DEF Frames
<1>. QED
  BY <1>1, <1>2, <1>3, <1>4, <1>5, <1>6, CallsGrow DEF Shape, Types

LEMMA AdvancesJudged ==
    ASSUME Shape, Judged, [Next]_vars, Advances
    PROVE  Judged'
<1>1. /\ stack # << >> /\ Top.at <= Len(Body(Top.fn)) /\ stack' = Advanced
      /\ left' = left /\ actions' = actions /\ unit' = unit
  BY DEF Advances
<1>2. /\ Len(stack') = Len(stack) /\ Len(stack) \in Nat /\ Len(stack) >= 1 /\ stack' # << >>
      /\ \A k \in 1 .. Len(stack) : k # Len(stack) => stack'[k] = stack[k]
      /\ stack'[Len(stack)].fn = Top.fn /\ stack'[Len(stack)].at = Top.at + 1
      /\ stack'[Len(stack)].back = FALSE
      /\ Top.fn \in Functions /\ Top.at \in Nat
  BY <1>1, AdvancedFacts, TopFacts DEF Shape, Types, Frames
<1>3. \A k \in 1 .. Len(stack) : stack'[k].fn = stack[k].fn
  BY <1>2 DEF Top
<1>4. ASSUME Stmt(Top).op = "call"
      PROVE  /\ Stmt(Top).fn \notin Writing /\ Stmt(Top).fn \in Functions
             /\ calls' = [calls EXCEPT ![Stmt(Top).fn] = "empty"]
  <2>1. /\ Known(Stmt(Top).fn) \/ Top.back
        /\ calls[Stmt(Top).fn] # "some" /\ Stmt(Top).fn \in Functions
        /\ calls' = [calls EXCEPT ![Stmt(Top).fn] = "empty"]
    BY <1>4 DEF Advances
  <2>2. calls[Stmt(Top).fn] \in {"none", "empty", "some"}
    BY <2>1 DEF Shape, Types
  <2>3. Known(Stmt(Top).fn) => Stmt(Top).fn \notin Writing
    BY <2>1, <2>2 DEF Known, Judged, EmptyHarmless
  <2>4. Top.back => Stmt(Top).fn \notin Writing
    BY <1>1, <2>1 DEF Judged, ReturnedJudged
  <2>. QED
    BY <2>1, <2>3, <2>4
<1>5. EmptyHarmless'
  <2>1. CASE Stmt(Top).op = "call"
    BY <1>4, <2>1, SameRest DEF Judged, EmptyHarmless
  <2>2. CASE Stmt(Top).op # "call"
    <3>1. calls' = calls \/ calls' = [calls EXCEPT ![Top.fn] = "some"]
      BY <2>2 DEF Advances
    <3>. QED
      BY <1>2, <3>1, SameRest DEF Judged, EmptyHarmless
  <2>. QED
    BY <2>1, <2>2
<1>6. PassedHarmless'
  <2>. SUFFICES ASSUME NEW k \in 1 .. Len(stack), NEW i \in 1 .. Len(Body(stack[k].fn)),
                       i < stack'[k].at, Body(stack[k].fn)[i].op = "call"
                PROVE  Body(stack[k].fn)[i].fn \notin Writing
    BY <1>2, <1>3, SameRest DEF PassedHarmless
  <2>1. CASE i < stack[k].at
    BY <2>1 DEF Judged, PassedHarmless
  <2>2. CASE ~(i < stack[k].at)
    <3>1. k = Len(stack)
      BY <1>2, <2>2
    <3>2. i = Top.at /\ stack[k] = Top
      BY <1>2, <2>2, <3>1, SameRest DEF Top
    <3>. QED
      BY <1>4, <3>2 DEF Stmt
  <2>. QED
    BY <2>1, <2>2
<1>7. ReturnedJudged'
  BY <1>2 DEF ReturnedJudged, Top
<1>8. InScope'
  <2>1. PICK T \in SUBSET Functions : Scope(T)
    BY DEF Judged, InScope
  <2>2. Scope(T)'
    BY <1>2, <1>3, <2>1, SameRest DEF Scope
  <2>. QED
    BY <2>2 DEF InScope
<1>9. WritersOnStack'
  BY <1>2, <1>3, SameRest DEF Judged, WritersOnStack
<1>10. VisitedJudged' /\ VisitedRegistered'
  BY <1>1, <1>2, SameRest DEF Judged, VisitedJudged, VisitedRegistered, Over
<1>. QED
  BY <1>5, <1>6, <1>7, <1>8, <1>9, <1>10 DEF Judged

LEMMA PushesJudged ==
    ASSUME Shape, Judged, [Next]_vars, Pushes
    PROVE  Judged'
<1>. DEFINE g == Stmt(Top).fn
<1>1. /\ stack # << >> /\ Top.at <= Len(Body(Top.fn)) /\ stack' = Pushed(g)
      /\ left' = left /\ actions' = actions /\ unit' = unit /\ calls' = calls
      /\ Stmt(Top).op = "call" /\ ~Known(g) /\ g \in Functions
  BY DEF Pushes
<1>2. /\ Len(stack') = Len(stack) + 1 /\ Len(stack) \in Nat /\ Len(stack) >= 1
      /\ stack' # << >>
      /\ \A k \in 1 .. Len(stack) : k # Len(stack) => stack'[k] = stack[k]
      /\ stack'[Len(stack)].fn = Top.fn /\ stack'[Len(stack)].at = Top.at
      /\ stack'[Len(stack) + 1] = Frame(g)
  BY <1>1, PushedFacts, TopFacts DEF Shape, Types
<1>3. Top.fn \in Functions /\ Top.at \in Nat /\ Top.at >= 1
  BY <1>1, TopFacts DEF Shape, Types, Frames
<1>4. \A k \in 1 .. Len(stack) : stack'[k].fn = stack[k].fn /\ stack'[k].at = stack[k].at
  BY <1>2 DEF Top
<1>5. /\ stack'[Len(stack) + 1].fn = g /\ stack'[Len(stack) + 1].at = 1
      /\ stack'[Len(stack) + 1].back = FALSE
  BY <1>2 DEF Frame
<1>6. PICK T \in SUBSET Functions : Scope(T)
  BY DEF Judged, InScope
<1>7. g \in T
  <2>1. /\ Len(Body(Top.fn)) \in Nat /\ DOMAIN Body(Top.fn) = 1 .. Len(Body(Top.fn))
    BY <1>3, UnitFacts DEF Shape, Types
  <2>2. Body(Top.fn) # << >>
    BY <1>1, <1>3, <2>1, EmptySeq
  <2>3. Top.fn \in T
    BY <1>2, <1>6, <2>2 DEF Scope, Top
  <2>4. CallsDirectly(Top.fn, g)
    BY <1>1, <1>3, <2>1 DEF CallsDirectly, CallsIn, Body, Stmt
  <2>. QED
    BY <1>1, <1>6, <2>3, <2>4 DEF Scope
<1>8. g \notin Writers
  BY <1>1, <1>6, <1>7 DEF Scope, Known
<1>. HIDE DEF g
<1>9. EmptyHarmless'
  BY <1>1, SameRest DEF Judged, EmptyHarmless
<1>10. PassedHarmless'
  <2>. SUFFICES ASSUME NEW k \in 1 .. Len(stack) + 1, NEW i \in 1 .. Len(Body(stack'[k].fn)),
                       i < stack'[k].at, Body(stack'[k].fn)[i].op = "call"
                PROVE  Body(stack'[k].fn)[i].fn \notin Writing
    BY <1>2, SameRest DEF PassedHarmless
  <2>1. k \in 1 .. Len(stack)
    BY <1>2, <1>5
  <2>. QED
    BY <1>4, <2>1 DEF Judged, PassedHarmless
<1>11. ReturnedJudged'
  BY <1>2, <1>5 DEF ReturnedJudged, Top
<1>12. InScope'
  <2>1. \A k \in 1 .. Len(stack) + 1 : Body(stack'[k].fn) # << >> => stack'[k].fn \in T
    BY <1>2, <1>4, <1>5, <1>6, <1>7 DEF Scope
  <2>2. Scope(T)'
    BY <1>1, <1>2, <1>6, <2>1, SameRest DEF Scope
  <2>. QED
    BY <2>2 DEF InScope
<1>13. WritersOnStack'
  <2>1. \A k \in 1 .. Len(stack) + 1 : stack'[k].fn \in Writers => calls[stack'[k].fn] = "some"
    BY <1>2, <1>4, <1>5, <1>8 DEF Judged, WritersOnStack
  <2>. QED
    BY <1>1, <1>2, <2>1 DEF WritersOnStack
<1>14. VisitedJudged' /\ VisitedRegistered'
  BY <1>1, <1>2, SameRest DEF Judged, VisitedJudged, VisitedRegistered, Over
<1>. QED
  BY <1>9, <1>10, <1>11, <1>12, <1>13, <1>14 DEF Judged

LEMMA PopsJudged ==
    ASSUME Shape, Judged, [Next]_vars, Pops
    PROVE  Judged'
<1>1. /\ stack # << >> /\ stack' = Popped /\ left' = left /\ actions' = actions
      /\ unit' = unit
      /\ calls' = calls \/ calls' = [calls EXCEPT ![Top.fn] = "some"]
  BY DEF Pops
<1>2. /\ Len(stack') = Len(stack) - 1 /\ Len(stack) \in Nat /\ Len(stack) >= 1
      /\ \A k \in 1 .. Len(stack) - 1 : stack'[k] = stack[k]
      /\ stack' = << >> <=> Len(stack) = 1
  BY <1>1, PoppedFacts, TopFacts DEF Shape, Types
<1>3. Top.fn \in Functions
  BY <1>1, TopFacts DEF Shape, Types, Frames
<1>4. EmptyHarmless'
  BY <1>1, <1>3, SameRest DEF Judged, EmptyHarmless
<1>5. PassedHarmless'
  <2>. SUFFICES ASSUME NEW k \in 1 .. Len(stack) - 1, NEW i \in 1 .. Len(Body(stack'[k].fn)),
                       i < stack'[k].at, Body(stack'[k].fn)[i].op = "call"
                PROVE  Body(stack'[k].fn)[i].fn \notin Writing
    BY <1>2, SameRest DEF PassedHarmless
  <2>1. k \in 1 .. Len(stack) /\ stack'[k] = stack[k]
    BY <1>2
  <2>. QED
    BY <2>1 DEF Judged, PassedHarmless
<1>6. ReturnedJudged'
  <2>. SUFFICES ASSUME stack' # << >>, Stmt(Top)'.fn \in Writing
                PROVE  calls'[Stmt(Top)'.fn] = "some"
    BY SameRest DEF ReturnedJudged
  <2>1. Len(stack) - 1 \in 1 .. Len(stack) /\ Len(stack) - 1 < Len(stack)
    BY <1>2
  <2>2. Top' = stack[Len(stack) - 1]
    BY <1>2, <2>1 DEF Top
  <2>3. Stmt(Top)' = Stmt(stack[Len(stack) - 1])
    BY <2>2, SameRest DEF Stmt
  <2>4. Stmt(Top)'.fn = Top.fn
    BY <1>2, <2>1, <2>3 DEF Shape, StackShape, Top
  <2>. QED
    BY <2>4, PoppedJudged
<1>7. InScope'
  <2>1. PICK T \in SUBSET Functions : Scope(T)
    BY DEF Judged, InScope
  <2>2. Scope(T)'
    BY <1>2, <2>1, SameRest DEF Scope
  <2>. QED
    BY <2>2 DEF InScope
<1>8. WritersOnStack'
  BY <1>2, SameRest DEF Judged, WritersOnStack
<1>9. VisitedJudged'
  <2>. SUFFICES ASSUME NEW j, NEW f \in Writing, Over(j)', unit.decls[j] = [fn |-> f]
                PROVE  calls'[f] = "some"
    BY <1>1, SameRest DEF VisitedJudged
  <2>1. CASE j < Visited
    BY <1>1, <2>1, SameRest DEF Judged, VisitedJudged, Over
  <2>2. CASE ~(j < Visited)
    <3>1. j = Visited /\ Len(stack) = 1
      BY <1>1, <1>2, <2>2, SameRest DEF Over
    <3>2. [fn |-> f] = [fn |-> Top.fn]
      BY <1>1, <3>1 DEF Shape, RootVisited, Top
    <3>3. f = Top.fn
      BY <3>2
    <3>. QED
      BY <3>3, PoppedJudged
  <2>. QED
    BY <2>1, <2>2
<1>10. VisitedRegistered'
  BY <1>1, SameRest DEF Judged, VisitedRegistered
<1>. QED
  BY <1>4, <1>5, <1>6, <1>7, <1>8, <1>9, <1>10 DEF Judged

LEMMA VisitsJudged ==
    ASSUME Shape, Judged, [Next]_vars, Visits
    PROVE  Judged'
<1>. DEFINE f == Head(left).fn
<1>1. /\ stack = << >> /\ unit' = unit /\ Visited \in Nat /\ Visited' = Visited + 1
      /\ Visited' <= Len(unit.decls) /\ Len(unit.decls) \in Nat
      /\ unit.decls[Visited'] = Head(left) /\ Head(left) \in Declarations /\ f \in Functions
  <2>1. stack = << >> /\ unit' = unit
    BY DEF Visits, VisitVariable, VisitFunction
  <2>2. Len(unit.decls) \in Nat
    BY UnitFacts DEF Shape, Types
  <2>. QED
    BY <2>1, <2>2, VisitFacts, DeclarationFacts DEF Shape
<1>2. \A j \in 1 .. Visited : \A h \in Writing :
        unit.decls[j] = [fn |-> h] => calls[h] = "some" /\ calls'[h] = "some"
  BY <1>1, SameRest DEF Judged, VisitedJudged, Over
<1>3. \A j \in 1 .. Visited' : j \in 1 .. Visited \/ j = Visited'
  BY <1>1
<1>4. ASSUME NEW h, unit.decls[Visited'] = [fn |-> h]
      PROVE  "var" \notin DOMAIN Head(left) /\ h = f
  <2>1. Head(left) = [fn |-> h]
    BY <1>1, <1>4
  <2>. QED
    BY <1>1, <2>1, DeclarationFacts
<1>5. VisitedJudged'
  <2>. SUFFICES ASSUME NEW j, NEW h \in Writing, Over(j)', unit.decls[j] = [fn |-> h]
                PROVE  calls'[h] = "some"
    BY <1>1, SameRest DEF VisitedJudged
  <2>1. CASE j \in 1 .. Visited
    BY <1>2, <2>1
  <2>2. CASE j = Visited'
    <3>1. stack' = << >> /\ "var" \notin DOMAIN Head(left) /\ h = f
      BY <1>1, <1>4, <2>2 DEF Over
    <3>2. stack' # <<Frame(f)>>
      BY <3>1
    <3>3. calls' = [calls EXCEPT ![f] = "some"]
      BY <3>1, <3>2 DEF Visits, VisitVariable, VisitFunction
    <3>. QED
      BY <1>1, <3>1, <3>3 DEF Shape, Types
  <2>. QED
    BY <1>3, <2>1, <2>2 DEF Over
<1>6. VisitedRegistered'
  <2>. SUFFICES ASSUME NEW j \in 1 .. Visited', NEW a \in Actions, unit.decls[j] = [fn |-> a]
                PROVE  a \in actions'
    BY <1>1 DEF VisitedRegistered
  <2>1. CASE j \in 1 .. Visited
    BY <2>1 DEF Judged, VisitedRegistered, Visits, VisitVariable, VisitFunction, Registered
  <2>2. CASE j = Visited'
    BY <1>4, <2>2 DEF Visits, VisitVariable, VisitFunction, Registered
  <2>. QED
    BY <1>3, <2>1, <2>2
<1>7. CASE /\ stack' = << >>
           /\ calls' = calls \/ calls' = [calls EXCEPT ![f] = "some"]
  <2>1. Len(stack') = 0
    BY <1>7, EmptySeq
  <2>2. EmptyHarmless'
    BY <1>1, <1>7, SameRest DEF Judged, EmptyHarmless
  <2>3. PassedHarmless' /\ ReturnedJudged' /\ WritersOnStack'
    BY <1>7, <2>1 DEF PassedHarmless, ReturnedJudged, WritersOnStack
  <2>4. InScope'
    <3>1. {} \in SUBSET Functions /\ Scope({})'
      BY <2>1 DEF Scope
    <3>. QED
      BY <3>1 DEF InScope
  <2>. QED
    BY <1>5, <1>6, <2>2, <2>3, <2>4 DEF Judged
<1>8. CASE /\ stack' = <<Frame(f)>> /\ calls' = calls
           /\ ~(f \in Writers /\ ~Known(f)) /\ "var" \notin DOMAIN Head(left)
  <2>1. Len(stack') = 1 /\ stack'[1] = Frame(f)
    BY <1>8
  <2>2. stack'[1].fn = f /\ stack'[1].at = 1 /\ stack'[1].back = FALSE
    BY <2>1 DEF Frame
  <2>3. EmptyHarmless'
    BY <1>8, SameRest DEF Judged, EmptyHarmless
  <2>4. PassedHarmless' /\ ReturnedJudged'
    BY <2>1, <2>2 DEF PassedHarmless, ReturnedJudged, Top
  <2>5. WritersOnStack'
    <3>1. f \in Writers => calls[f] = "some"
      <4>1. f \in Writers => calls[f] # "none" /\ calls[f] # "empty"
        BY <1>1, <1>8, WritersWrite DEF Known, Judged, EmptyHarmless
      <4>. QED
        BY <1>1, <4>1 DEF Shape, Types
    <3>. QED
      BY <1>8, <2>1, <2>2, <3>1 DEF WritersOnStack
  <2>6. InScope'
    <3>1. CASE Body(f) = << >>
      <4>1. {} \in SUBSET Functions /\ Scope({})'
        BY <2>1, <2>2, <3>1, SameRest DEF Scope
      <4>. QED
        BY <4>1 DEF InScope
    <3>2. CASE Body(f) # << >>
      <4>1. Visited' \in DOMAIN unit.decls
        BY <1>1, UnitFacts DEF Shape, Types
      <4>2. unit.decls[Visited'] \in [fn : Functions] /\ unit.decls[Visited'].fn = f
        <5>1. Head(left) = [fn |-> f]
          BY <1>1, <1>8, DeclarationFacts
        <5>2. [fn |-> f] \in [fn : Functions]
          BY <1>1
        <5>. QED
          BY <1>1, <5>1, <5>2
      <4>3. PICK T \in SUBSET Functions : DeclaredBefore(unit, Visited', T)
        BY <3>2, <4>1, <4>2, UnitsAssumption DEF Body, Shape, Types
      <4>4. \A w \in T \cap Writers : calls'[w] = "some"
        <5>. SUFFICES ASSUME NEW w \in T \cap Writers
                      PROVE  calls'[w] = "some"
          OBVIOUS
        <5>1. PICK j \in 1 .. Visited' - 1 : unit.decls[j] = [fn |-> w]
          BY <4>3 DEF DeclaredBefore
        <5>2. j \in 1 .. Visited /\ w \in Writing
          BY <1>1, WritersWrite
        <5>. QED
          BY <1>2, <5>1, <5>2
      <4>5. f \in T
        BY <4>2, <4>3 DEF DeclaredBefore
      <4>6. \A k \in 1 .. Len(stack') : stack'[k].fn \in T
        BY <2>1, <2>2, <4>5
      <4>7. \A h \in T, g \in Functions : CallsDirectly(h, g) => g \in T
        BY <4>3 DEF DeclaredBefore, CallsDirectly
      <4>8. Scope(T)'
        BY <4>4, <4>6, <4>7, SameRest DEF Scope
      <4>. QED
        BY <4>8 DEF InScope
    <3>. QED
      BY <3>1, <3>2
  <2>. QED
    BY <1>5, <1>6, <2>3, <2>4, <2>5, <2>6 DEF Judged
<1>. QED
  BY <1>1, <1>7, <1>8 DEF Visits, VisitVariable, VisitFunction

LEMMA JudgedKept ==
    ASSUME Shape, Judged, [Next]_vars
    PROVE  Judged'
<1>1. CASE Rests
  <2>1. /\ unit' = unit /\ left' = left /\ stack' = stack /\ calls' = calls
        /\ actions' = actions
    BY <1>1 DEF Rests
  <2>2. EmptyHarmless' /\ PassedHarmless' /\ ReturnedJudged' /\ InScope' /\ WritersOnStack'
    BY <2>1, SameRest DEF Judged, EmptyHarmless, PassedHarmless, ReturnedJudged, InScope,
       Scope, WritersOnStack, Stmt, Top
  <2>3. VisitedJudged' /\ VisitedRegistered'
    BY <2>1, SameRest DEF Judged, VisitedJudged, VisitedRegistered, Over
  <2>. QED
    BY <2>2, <2>3 DEF Judged
<1>. QED
  BY <1>1, AdvancesJudged, PushesJudged, PopsJudged, VisitsJudged, StepKinds DEF Shape

LEMMA ReportedKept ==
    ASSUME Reported, [Next]_vars
    PROVE  Reported'
<1>1. CASE UNCHANGED vars
  BY <1>1 DEF vars, Reported, Known
<1>2. CASE ProcessReadOnlyActions
  BY <1>2 DEF ProcessReadOnlyActions, Reported, Known
<1>3. CASE VisitVariable \/ VisitFunction \/ Leave
  BY <1>3 DEF VisitVariable, VisitFunction, Leave, Reported
<1>4. ASSUME NEW st \in Upcoming, ProcessStatement(st)
      PROVE  Reported'
  <2>1. state = "running"
    BY DEF Upcoming
  <2>2. errors' = errors /\ state' \in {state, "overflow"}
    BY <1>4 DEF ProcessStatement, Follow, Judge, ProcessIndiCallee, Declare,
       UpdateIndiFuncMap, Pass
  <2>. QED
    BY <2>1, <2>2 DEF Reported
<1>. QED
  BY <1>1, <1>2, <1>3, <1>4 DEF Next

\* Every action that leads to a writer by direct calls, each resolved to a
\* definition, is reported: the search of codegen.hpp, which stops at the first
\* callee that writes and never looks again at a function it has an entry for,
\* misses none of these, for any unit whose host functions are declared before
\* the functions that lead to them.
THEOREM CallsReported == Spec => []NoCallMissed
<1>1. Init => Shape /\ Judged /\ Reported
  BY ShapeStarts, JudgedStarts
<1>2. Shape /\ Judged /\ Reported /\ [Next]_vars => (Shape /\ Judged /\ Reported)'
  BY ShapeKept, JudgedKept, ReportedKept
<1>3. Shape /\ Judged /\ Reported => NoCallMissed
  <2>. SUFFICES ASSUME Shape, Judged, Reported, state = "done",
                       NEW a \in Actions, a \in Writing
                PROVE  a \in errors
    BY DEF NoCallMissed
  <2>1. PICK i \in DOMAIN unit.decls : unit.decls[i] = [fn |-> a]
    BY UnitsAssumption DEF Shape, Types
  <2>2. left = << >> /\ stack = << >> /\ errors = {b \in actions : Known(b)}
    BY DEF Reported
  <2>3. i \in 1 .. Visited /\ Visited \in Nat
    BY <2>1, <2>2, EmptySeq, UnitFacts DEF Visited, Shape, Types
  <2>4. a \in actions
    BY <2>1, <2>3 DEF Judged, VisitedRegistered
  <2>5. calls[a] = "some"
    BY <2>1, <2>2, <2>3 DEF Judged, VisitedJudged, Over
  <2>. QED
    BY <2>2, <2>4, <2>5 DEF Known
<1>. QED
  BY <1>1, <1>2, <1>3, PTL DEF Spec

\* A function from which the search goes astray makes its callers such.
LEMMA AstrayClosed ==
    ASSUME NEW f \in Functions, LosesTrack(Astray, f)
    PROVE  f \in Astray
<1>1. ASSUME NEW S \in SUBSET Functions,
             \A g \in Functions : LosesTrack(S, g) => g \in S
      PROVE  f \in S
  <2>1. Astray \subseteq S
    BY <1>1 DEF Astray, Least
  <2>2. LosesTrack(S, f)
    BY <2>1 DEF LosesTrack
  <2>. QED
    BY <1>1, <2>2
<1>. QED
  BY <1>1 DEF Astray, Least

\* What may write leads to a writer by calls that are followed, or astray.
LEMMA WritingOrAstray == WritingInDeed \subseteq Writing \cup Astray
<1>. DEFINE S == Writing \cup Astray
<1>1. S \in SUBSET Functions
  BY WritingUnfolds DEF Astray, Least
<1>2. ASSUME NEW f \in Functions, WritesInDeed(S, f)
      PROVE  f \in S
  <2>1. CASE f \in Writers
    BY <2>1, WritingUnfolds DEF LeadsToWriter
  <2>2. CASE unit.definition[f] # f
    BY <2>2, AstrayClosed DEF LosesTrack
  <2>3. ASSUME unit.definition[f] = f, NEW g \in S, Runs(f, g)
        PROVE  f \in S
    <3>1. CASE \E st \in Statements(f) : st.op \in {"nested", "indirect"}
      BY <3>1, AstrayClosed DEF LosesTrack
    <3>2. CASE CallsDirectly(f, g) /\ g \in Writing
      BY <3>2, WritingUnfolds DEF LeadsToWriter
    <3>3. CASE CallsDirectly(f, g) /\ g \in Astray
      BY <3>3, AstrayClosed DEF LosesTrack
    <3>4. CallsDirectly(f, g) \/ \E st \in Statements(f) : st.op \in {"nested", "indirect"}
      BY <2>3 DEF Runs, CallsIndirectly
    <3>. QED
      BY <2>3, <3>1, <3>2, <3>3, <3>4
  <2>. QED
    BY <1>2, <2>1, <2>2, <2>3 DEF WritesInDeed
<1>. QED
  BY <1>1, <1>2 DEF WritingInDeed, Least

\* What the search loses: an action that writes when it runs and is not
\* reported comes, by calls that are followed, to a declaration whose
\* definition is elsewhere, to a call within a statement or to a call through
\* a pointer.
THEOREM OnlyLostCallsMissed == Spec => []MissesExplained
<1>1. NoCallMissed => MissesExplained
  BY WritingOrAstray DEF NoCallMissed, MissesExplained
<1>. QED
  BY <1>1, CallsReported, PTL

-----------------------------------------------------------------------------
(* Calls of a pointer that has just been set.                              *)

\* The p-th statement of a sets a pointer to f, the next one calls it.
RedirectsAt(a, p, f) ==
    /\ Body(a)[p].op \in {"init", "assign"} /\ Body(a)[p].fn = f
    /\ p < Len(Body(a)) /\ Body(a)[p + 1] = [op |-> "indirect", var |-> Body(a)[p].var]

\* A pointer about to be called is in indi_func_map, if it was set just now to
\* a function with an entry.
PointerSet ==
    \A p \in Nat : \A f \in Functions :
      stack # << >> /\ Top.at = p + 1 /\ p >= 1 /\ RedirectsAt(Top.fn, p, f) /\ Known(f)
        => Body(Top.fn)[p].var \in pointers

\* The function f has been visited before the declaration j.
EarlierThan(j, f) == \E i \in 1 .. j - 1 : unit.decls[i] = [fn |-> f]

PassedRedirections ==
    \A k \in 1 .. Len(stack) : \A p \in 1 .. Len(Body(stack[k].fn)) : \A f \in Writing :
      /\ p + 1 < stack[k].at /\ RedirectsAt(stack[k].fn, p, f) /\ EarlierThan(Visited, f)
      => Known(stack[k].fn)

VisitedRedirections ==
    \A j : \A f \in Writing : \A a \in Functions :
      Over(j) /\ EarlierThan(j, f) /\ unit.decls[j] = [fn |-> a] /\ Redirects(a, f)
        => Known(a)

Redirected == PointerSet /\ PassedRedirections /\ VisitedRedirections

LEMMA RedirectedStarts ==
    ASSUME Init
    PROVE  Redirected
<1>1. stack = << >> /\ Len(stack) = 0
  BY EmptySeq DEF Init
<1>2. Visited = 0
  BY ShapeStarts, UnitFacts DEF Init, Visited, Shape, Types
<1>. QED
  BY <1>1, <1>2 DEF Redirected, PointerSet, PassedRedirections, VisitedRedirections, Over

LEMMA SameRedirects ==
    ASSUME Shape, [Next]_vars
    PROVE  /\ \A a, p, f : RedirectsAt(a, p, f)' = RedirectsAt(a, p, f)
           /\ \A a, f : Redirects(a, f)' = Redirects(a, f)
           /\ \A j \in Nat : \A f : EarlierThan(j, f)' = EarlierThan(j, f)
BY SameRest DEF RedirectsAt, Redirects, EarlierThan

LEMMA AdvancesRedirected ==
    ASSUME Shape, Judged, Redirected, [Next]_vars, Advances
    PROVE  Redirected'
<1>1. /\ stack # << >> /\ Top.at <= Len(Body(Top.fn)) /\ stack' = Advanced
      /\ left' = left /\ unit' = unit /\ Visited' = Visited /\ Visited \in Nat
  BY SameRest DEF Advances
<1>2. /\ Len(stack') = Len(stack) /\ Len(stack) \in Nat /\ Len(stack) >= 1 /\ stack' # << >>
      /\ \A k \in 1 .. Len(stack) : k # Len(stack) => stack'[k] = stack[k]
      /\ stack'[Len(stack)].fn = Top.fn /\ stack'[Len(stack)].at = Top.at + 1
      /\ Top.fn \in Functions /\ Top.at \in Nat /\ Top.at >= 1
  BY <1>1, AdvancedFacts, TopFacts DEF Shape, Types, Frames
<1>3. \A k \in 1 .. Len(stack) : stack'[k].fn = stack[k].fn
  BY <1>2 DEF Top
<1>4. PointerSet'
  <2>. SUFFICES ASSUME NEW p \in Nat, NEW f \in Functions, Top.at + 1 = p + 1, p >= 1,
                       RedirectsAt(Top.fn, p, f), Known(f)'
                PROVE  Body(Top.fn)[p].var \in pointers'
    <3>1. Top'.fn = Top.fn /\ Top'.at = Top.at + 1
      BY <1>2 DEF Top
    <3>. QED
      BY <3>1, SameRest, SameRedirects DEF PointerSet
  <2>1. p = Top.at
    BY <1>2
  <2>2. Stmt(Top).op \in {"init", "assign"} /\ Stmt(Top).fn = f /\ Stmt(Top) = Body(Top.fn)[p]
    BY <2>1 DEF RedirectsAt, Stmt
  <2>3. calls' = calls /\ (Known(f) => Stmt(Top).var \in pointers')
    BY <2>2 DEF Advances
  <2>. QED
    BY <2>2, <2>3 DEF Known
<1>5. PassedRedirections'
  <2>. SUFFICES ASSUME NEW k \in 1 .. Len(stack), NEW p \in 1 .. Len(Body(stack[k].fn)),
                       NEW f \in Writing, p + 1 < stack'[k].at,
                       RedirectsAt(stack[k].fn, p, f), EarlierThan(Visited, f)
                PROVE  calls'[stack[k].fn] # "none"
    BY <1>1, <1>2, <1>3, SameRest, SameRedirects DEF PassedRedirections, Known
  <2>1. CASE p + 1 < stack[k].at
    BY <2>1, SameRest DEF Redirected, PassedRedirections, Known
  <2>2. CASE ~(p + 1 < stack[k].at)
    <3>1. k = Len(stack)
      BY <1>2, <2>2
    <3>2. Len(Body(Top.fn)) \in Nat
      BY <1>2, UnitFacts DEF Shape, Types
    <3>3. p \in Nat /\ p >= 1 /\ Top.at = p + 1 /\ stack[k].fn = Top.fn
      BY <1>2, <2>2, <3>1, <3>2 DEF Top
    <3>4. Stmt(Top) = [op |-> "indirect", var |-> Body(Top.fn)[p].var]
      BY <3>3 DEF RedirectsAt, Stmt
    <3>5. Stmt(Top).op = "indirect" /\ Stmt(Top).var = Body(Top.fn)[p].var
      BY <3>4
    <3>6. f \in Functions /\ Known(f)
      <4>1. PICK i \in 1 .. Visited - 1 : unit.decls[i] = [fn |-> f]
        BY DEF EarlierThan
      <4>2. Over(i)
        BY <1>1, <4>1 DEF Over
      <4>. QED
        BY <4>1, <4>2, SameRest DEF Judged, VisitedJudged, Known
    <3>7. Stmt(Top).var \in pointers
      BY <1>1, <3>3, <3>5, <3>6 DEF Redirected, PointerSet
    <3>8. calls' = [calls EXCEPT ![Top.fn] = "some"]
      BY <3>5, <3>7 DEF Advances
    <3>. QED
      BY <1>2, <3>3, <3>8, SameRest DEF Known
  <2>. QED
    BY <2>1, <2>2
<1>6. VisitedRedirections'
  <2>1. \A j : Over(j)' => Over(j) /\ j \in Nat
    BY <1>1, <1>2 DEF Over
  <2>. QED
    BY <1>1, <2>1, SameRest, SameRedirects DEF Redirected, VisitedRedirections
<1>. QED
  BY <1>4, <1>5, <1>6 DEF Redirected

LEMMA PushesRedirected ==
    ASSUME Shape, Redirected, [Next]_vars, Pushes
    PROVE  Redirected'
<1>. DEFINE g == Stmt(Top).fn
<1>1. /\ stack # << >> /\ stack' = Pushed(g) /\ g \in Functions /\ calls' = calls
      /\ left' = left /\ unit' = unit /\ Visited' = Visited /\ Visited \in Nat
  BY SameRest DEF Pushes
<1>2. /\ Len(stack') = Len(stack) + 1 /\ Len(stack) \in Nat /\ Len(stack) >= 1
      /\ stack' # << >>
      /\ \A k \in 1 .. Len(stack) : k # Len(stack) => stack'[k] = stack[k]
      /\ stack'[Len(stack)].fn = Top.fn /\ stack'[Len(stack)].at = Top.at
      /\ stack'[Len(stack) + 1] = Frame(g)
  BY <1>1, PushedFacts, TopFacts DEF Shape, Types
<1>3. \A k \in 1 .. Len(stack) : stack'[k].fn = stack[k].fn /\ stack'[k].at = stack[k].at
  BY <1>2 DEF Top
<1>4. stack'[Len(stack) + 1].at = 1
  BY <1>2 DEF Frame
<1>. HIDE DEF g
<1>5. PointerSet'
  <2>1. Top'.at = 1
    BY <1>2, <1>4 DEF Top
  <2>. QED
    BY <2>1 DEF PointerSet
<1>6. PassedRedirections'
  <2>. SUFFICES ASSUME NEW k \in 1 .. Len(stack) + 1, NEW p \in 1 .. Len(Body(stack'[k].fn)),
                       NEW f \in Writing, p + 1 < stack'[k].at,
                       RedirectsAt(stack'[k].fn, p, f), EarlierThan(Visited, f)
                PROVE  Known(stack'[k].fn)
    BY <1>1, <1>2, SameRest, SameRedirects DEF PassedRedirections, Known
  <2>1. k \in 1 .. Len(stack)
    BY <1>2, <1>4
  <2>. QED
    BY <1>3, <2>1 DEF Redirected, PassedRedirections
<1>7. VisitedRedirections'
  <2>1. \A j : Over(j)' => Over(j) /\ j \in Nat
    BY <1>1, <1>2 DEF Over
  <2>. QED
    BY <1>1, <2>1, SameRest, SameRedirects DEF Redirected, VisitedRedirections
<1>. QED
  BY <1>5, <1>6, <1>7 DEF Redirected

LEMMA PopsRedirected ==
    ASSUME Shape, Redirected, [Next]_vars, Pops
    PROVE  Redirected'
<1>1. /\ stack # << >> /\ stack' = Popped
      /\ left' = left /\ unit' = unit /\ Visited' = Visited /\ Visited \in Nat
  BY SameRest DEF Pops
<1>2. /\ Len(stack') = Len(stack) - 1 /\ Len(stack) \in Nat /\ Len(stack) >= 1
      /\ \A k \in 1 .. Len(stack) - 1 : stack'[k] = stack[k]
      /\ stack' = << >> <=> Len(stack) = 1
      /\ Top.fn \in Functions /\ Top.at \in Nat
  BY <1>1, PoppedFacts, TopFacts DEF Shape, Types, Frames
<1>3. PointerSet'
  <2>. SUFFICES ASSUME NEW p \in Nat, NEW f \in Functions, stack' # << >>, Top'.at = p + 1,
                       RedirectsAt(Top'.fn, p, f)
                PROVE  FALSE
    BY SameRest, SameRedirects DEF PointerSet
  <2>1. Len(stack) - 1 \in 1 .. Len(stack) /\ Len(stack) - 1 < Len(stack)
    BY <1>2
  <2>2. Top' = stack[Len(stack) - 1]
    BY <1>2, <2>1 DEF Top
  <2>3. Stmt(stack[Len(stack) - 1]).op = "call"
    BY <2>1 DEF Shape, StackShape
  <2>4. Stmt(stack[Len(stack) - 1]) = [op |-> "indirect", var |-> Body(Top'.fn)[p].var]
    BY <2>2 DEF RedirectsAt, Stmt
  <2>. QED
    BY <2>3, <2>4
<1>4. PassedRedirections'
  <2>. SUFFICES ASSUME NEW k \in 1 .. Len(stack) - 1, NEW p \in 1 .. Len(Body(stack'[k].fn)),
                       NEW f \in Writing, p + 1 < stack'[k].at,
                       RedirectsAt(stack'[k].fn, p, f), EarlierThan(Visited, f)
                PROVE  calls'[stack'[k].fn] # "none"
    <3>1. /\ Writing' = Writing /\ (\A f : Body(f)' = Body(f))
          /\ \A a, p, f : RedirectsAt(a, p, f)' = RedirectsAt(a, p, f)
          /\ \A f : EarlierThan(Visited, f)' = EarlierThan(Visited, f)
      BY <1>1, SameRest, SameRedirects DEF EarlierThan
    <3>. QED
      BY <1>2, <3>1 DEF PassedRedirections, Known
  <2>1. k \in 1 .. Len(stack) /\ stack'[k] = stack[k]
    BY <1>2
  <2>2. Known(stack[k].fn) /\ stack[k].fn \in Functions
    BY <2>1, SameRest DEF Redirected, PassedRedirections
  <2>. QED
    BY <2>1, <2>2, SameRest DEF Known
<1>5. VisitedRedirections'
  <2>. SUFFICES ASSUME NEW j, NEW f \in Writing, NEW a \in Functions, Over(j)',
                       EarlierThan(j, f), unit.decls[j] = [fn |-> a], Redirects(a, f)
                PROVE  Known(a)'
    <3>1. \A j : Over(j)' => j \in Nat
      BY <1>1 DEF Over
    <3>. QED
      BY <1>1, <3>1, SameRest, SameRedirects DEF VisitedRedirections
  <2>1. CASE j < Visited
    BY <1>1, <2>1, SameRest DEF Redirected, VisitedRedirections, Over
  <2>2. CASE ~(j < Visited)
    <3>1. j = Visited /\ Len(stack) = 1
      BY <1>1, <1>2, <2>2 DEF Over
    <3>2. [fn |-> a] = [fn |-> Top.fn]
      BY <1>1, <3>1 DEF Shape, RootVisited, Top
    <3>3. a = Top.fn
      BY <3>2
    <3>4. CASE calls' = [calls EXCEPT ![Top.fn] = "some"]
      BY <3>3, <3>4, SameRest DEF Known
    <3>5. CASE UNCHANGED calls /\ Top.at > Len(Body(Top.fn))
      <4>1. Len(Body(Top.fn)) \in Nat /\ DOMAIN Body(Top.fn) = 1 .. Len(Body(Top.fn))
        BY <1>2, UnitFacts DEF Shape, Types
      <4>2. PICK p \in 1 .. Len(Body(Top.fn)) : RedirectsAt(Top.fn, p, f)
        BY <3>3, <4>1 DEF Redirects, RedirectsAt
      <4>3. p + 1 < Top.at
        BY <1>2, <3>5, <4>1, <4>2 DEF RedirectsAt
      <4>4. Len(stack) \in 1 .. Len(stack)
        BY <1>2
      <4>5. Known(Top.fn)
        BY <3>1, <4>2, <4>3, <4>4 DEF Redirected, PassedRedirections, Top
      <4>. QED
        BY <3>3, <4>5, SameRest
    <3>. QED
      BY <3>4, <3>5 DEF Pops
  <2>. QED
    BY <2>1, <2>2
<1>. QED
  BY <1>3, <1>4, <1>5 DEF Redirected

LEMMA VisitsRedirected ==
    ASSUME Shape, Redirected, [Next]_vars, Visits
    PROVE  Redirected'
<1>. DEFINE g == Head(left).fn
<1>1. /\ stack = << >> /\ unit' = unit /\ Visited \in Nat /\ Visited' = Visited + 1
      /\ unit.decls[Visited'] = Head(left) /\ Head(left) \in Declarations /\ g \in Functions
  BY VisitFacts, DeclarationFacts DEF Shape, Visits, VisitVariable, VisitFunction
<1>2. stack' = << >> \/ stack' = <<Frame(g)>>
  BY <1>1 DEF Visits, VisitVariable, VisitFunction
<1>3. stack' # << >> => Len(stack') = 1 /\ stack'[1].at = 1
  BY <1>2 DEF Frame
<1>4. PointerSet'
  <2>1. stack' # << >> => Top'.at = 1
    BY <1>3 DEF Top
  <2>. QED
    BY <2>1 DEF PointerSet
<1>5. PassedRedirections'
  <2>1. ASSUME NEW k \in 1 .. Len(stack')
        PROVE  stack'[k].at = 1
    <3>1. stack' # << >>
      BY EmptySeq
    <3>. QED
      BY <1>3, <3>1
  <2>. QED
    BY <2>1 DEF PassedRedirections
<1>6. VisitedRedirections'
  <2>. SUFFICES ASSUME NEW j, NEW f \in Writing, NEW a \in Functions, Over(j)',
                       EarlierThan(j, f), unit.decls[j] = [fn |-> a], Redirects(a, f)
                PROVE  Known(a)'
    <3>1. \A j : Over(j)' => j \in Nat
      BY <1>1 DEF Over
    <3>. QED
      BY <1>1, <3>1, SameRest, SameRedirects DEF VisitedRedirections
  <2>1. CASE j \in 1 .. Visited
    BY <1>1, <2>1, SameRest DEF Redirected, VisitedRedirections, Over
  <2>2. CASE j = Visited'
    <3>1. stack' = << >> /\ Head(left) = [fn |-> a]
      BY <1>1, <2>2 DEF Over
    <3>2. "var" \notin DOMAIN Head(left) /\ g = a
      BY <1>1, <3>1, DeclarationFacts
    <3>3. stack' # <<Frame(g)>>
      BY <3>1
    <3>4. calls' = [calls EXCEPT ![g] = "some"]
      BY <3>2, <3>3 DEF Visits, VisitVariable, VisitFunction
    <3>. QED
      BY <3>2, <3>4, SameRest DEF Known
  <2>. QED
    BY <1>1, <2>1, <2>2 DEF Over
<1>. QED
  BY <1>4, <1>5, <1>6 DEF Redirected

LEMMA RedirectedKept ==
    ASSUME Shape, Judged, Redirected, [Next]_vars
    PROVE  Redirected'
<1>1. CASE Rests
  <2>1. /\ unit' = unit /\ stack' = stack /\ calls' = calls /\ Visited' = Visited
        /\ pointers' = pointers /\ Visited \in Nat
    BY <1>1, SameRest DEF Rests
  <2>2. PointerSet' /\ PassedRedirections'
    BY <2>1, SameRest, SameRedirects DEF Redirected, PointerSet, PassedRedirections, Known, Top
  <2>3. \A j : Over(j)' = Over(j) /\ (Over(j) => j \in Nat)
    BY <2>1 DEF Over
  <2>4. VisitedRedirections'
    BY <2>1, <2>3, SameRest, SameRedirects DEF Redirected, VisitedRedirections, Known
  <2>. QED
    BY <2>2, <2>4 DEF Redirected
<1>. QED
  BY <1>1, AdvancesRedirected, PushesRedirected, PopsRedirected, VisitsRedirected, StepKinds
     DEF Shape

\* Every action that sets a pointer to a function defined before it, which
\* leads to a writer by calls of definitions, and calls the pointer at once is
\* reported, whatever update_indi_func_map and process_decl_init do with the
\* pointers in between.
THEOREM RedirectionsReported == Spec => []NoRedirectionMissed
<1>. DEFINE IInv == Shape /\ Judged /\ Reported /\ Redirected
<1>1. Init => IInv
  BY ShapeStarts, JudgedStarts, RedirectedStarts
<1>2. IInv /\ [Next]_vars => IInv'
  BY ShapeKept, JudgedKept, ReportedKept, RedirectedKept
<1>3. IInv => NoRedirectionMissed
  <2>. SUFFICES ASSUME Shape, Judged, Reported, Redirected, state = "done",
                       NEW a \in Actions, NEW f \in Writing, IsBefore(f, a), Redirects(a, f)
                PROVE  a \in errors
    BY DEF NoRedirectionMissed
  <2>1. PICK i, j \in DOMAIN unit.decls :
          i < j /\ unit.decls[i] = [fn |-> f] /\ unit.decls[j] = [fn |-> a]
    BY DEF IsBefore
  <2>2. left = << >> /\ stack = << >> /\ errors = {b \in actions : Known(b)}
    BY DEF Reported
  <2>3. j \in 1 .. Visited /\ Visited \in Nat /\ i \in 1 .. j - 1
    BY <2>1, <2>2, EmptySeq, UnitFacts DEF Visited, Shape, Types
  <2>4. a \in actions
    BY <2>1, <2>3 DEF Judged, VisitedRegistered
  <2>5. Over(j) /\ EarlierThan(j, f) /\ a \in Functions
    BY <2>1, <2>2, <2>3, FunctionsAssumption DEF Over, EarlierThan
  <2>6. Known(a)
    BY <2>1, <2>5 DEF Redirected, VisitedRedirections
  <2>. QED
    BY <2>2, <2>4, <2>6
<1>. QED
  BY <1>1, <1>2, <1>3, PTL DEF Spec

-----------------------------------------------------------------------------
(* Alarms.                                                                 *)

SomeSuspected == \A f \in Functions : calls[f] = "some" => f \in Suspected

EmptyCalled == \A f \in Functions : calls[f] = "empty" => Called(f)

\* A pointer in indi_func_map has a value with an entry in func_calls.
PointersKnown == \A x \in pointers : \E g \in Values(x) : Known(g)

Explained == SomeSuspected /\ EmptyCalled /\ PointersKnown

\* A function with an entry that can be called through a pointer of f makes f
\* suspected.
LEMMA IndirectSuspected ==
    ASSUME Shape, Explained, NEW f \in Functions, NEW i \in DOMAIN Body(f),
           Body(f)[i].op = "indirect", Body(f)[i].var \in pointers
    PROVE  f \in Suspected
<1>1. PICK g \in Values(Body(f)[i].var) : Known(g)
  BY DEF Explained, PointersKnown
<1>2. g \in Functions /\ CallsIndirectly(f, g)
  BY <1>1 DEF Values, CallsIndirectly, Statements
<1>3. calls[g] \in {"empty", "some"}
  BY <1>1, <1>2 DEF Known, Shape, Types
<1>4. LeadsToAlarm(Suspected, f)
  BY <1>2, <1>3 DEF Explained, SomeSuspected, EmptyCalled, LeadsToAlarm
<1>. QED
  BY <1>4, SuspectedClosed

LEMMA ExplainedKept ==
    ASSUME Shape, Explained, [Next]_vars
    PROVE  Explained'
<1>1. /\ Suspected' = Suspected /\ unit' = unit /\ (\A f : Called(f)' = Called(f))
      /\ \A x : Values(x)' = Values(x)
  BY SameRest, SameUnit
<1>2. \A x : Values(x) \subseteq Functions
  BY DEF Values
<1>3. \A x \in pointers : \E g \in Values(x) : Known(g)'
  BY <1>2, SameRest DEF Explained, PointersKnown
<1>4. ASSUME calls' = calls
      PROVE  SomeSuspected' /\ EmptyCalled'
  BY <1>1, <1>4 DEF Explained, SomeSuspected, EmptyCalled
<1>5. ASSUME NEW f \in Functions, f \in Suspected, calls' = [calls EXCEPT ![f] = "some"]
      PROVE  SomeSuspected' /\ EmptyCalled'
  BY <1>1, <1>5, SameRest DEF Explained, SomeSuspected, EmptyCalled
<1>6. ASSUME pointers' \subseteq pointers
      PROVE  PointersKnown'
  BY <1>1, <1>3, <1>6 DEF PointersKnown
<1>7. ASSUME stack # << >>, Top.at <= Len(Body(Top.fn))
      PROVE  /\ Top.fn \in Functions /\ Top.at \in DOMAIN Body(Top.fn)
             /\ Stmt(Top) = Body(Top.fn)[Top.at]
  <2>1. Top \in Frames
    BY <1>7, TopFacts DEF Shape, Types
  <2>2. Top.fn \in Functions /\ Top.at \in Nat /\ Top.at >= 1
    BY <2>1 DEF Frames
  <2>. QED
    BY <1>7, <2>2, UnitFacts DEF Shape, Types, Stmt
<1>8. CASE Advances
  <2>1. stack # << >> /\ Top.at <= Len(Body(Top.fn))
    BY <1>8 DEF Advances
  <2>2. CASE Stmt(Top).op = "call"
    <3>. DEFINE g == Stmt(Top).fn
    <3>1. /\ g \in Functions /\ calls' = [calls EXCEPT ![g] = "empty"]
          /\ pointers' = pointers
      BY <1>8, <2>2 DEF Advances
    <3>2. Called(g)
      BY <1>7, <2>1, <2>2 DEF Called, CallsDirectly, CallsIn, Body
    <3>3. SomeSuspected' /\ EmptyCalled'
      BY <1>1, <3>1, <3>2, SameRest DEF Explained, SomeSuspected, EmptyCalled
    <3>. QED
      BY <1>6, <3>1, <3>3 DEF Explained
  <2>3. CASE Stmt(Top).op = "indirect"
    <3>1. pointers' = pointers
      BY <1>8, <2>3 DEF Advances
    <3>2. CASE Stmt(Top).var \in pointers
      <4>1. Top.fn \in Suspected
        BY <1>7, <2>1, <2>3, <3>2, IndirectSuspected
      <4>2. calls' = [calls EXCEPT ![Top.fn] = "some"]
        BY <1>8, <2>3, <3>2 DEF Advances
      <4>. QED
        BY <1>5, <1>6, <1>7, <2>1, <3>1, <4>1, <4>2 DEF Explained
    <3>3. CASE Stmt(Top).var \notin pointers
      BY <1>4, <1>6, <1>8, <2>3, <3>1, <3>3 DEF Advances, Explained
    <3>. QED
      BY <3>2, <3>3
  <2>4. CASE Stmt(Top).op \in {"init", "assign"}
    <3>. DEFINE x == Stmt(Top).var
                g == Stmt(Top).fn
    <3>1. /\ g \in Functions /\ calls' = calls /\ pointers' \subseteq pointers \cup {x}
          /\ ~Known(g) => pointers' \subseteq pointers
      BY <1>8, <2>4 DEF Advances
    <3>2. g \in Values(x)
      BY <1>7, <2>1, <2>4, <3>1 DEF Values, Statements
    <3>3. PointersKnown'
      BY <1>1, <1>3, <1>6, <3>1, <3>2 DEF PointersKnown, Known
    <3>. QED
      BY <1>4, <3>1, <3>3 DEF Explained
  <2>5. CASE Stmt(Top).op = "nested"
    BY <1>4, <1>6, <1>8, <2>5 DEF Advances, Explained
  <2>. QED
    BY <1>8, <2>2, <2>3, <2>4, <2>5 DEF Advances
<1>9. CASE Pushes \/ Rests
  BY <1>4, <1>6, <1>9 DEF Pushes, Rests, Explained
<1>10. CASE Pops
  <2>1. CASE UNCHANGED calls
    BY <1>4, <1>6, <1>10, <2>1 DEF Pops, Explained
  <2>2. CASE calls' # calls
    <3>. DEFINE g == Stmt(Top).fn
    <3>1. /\ stack # << >> /\ Top.at <= Len(Body(Top.fn)) /\ Stmt(Top).op = "call"
          /\ g \in Functions /\ calls[g] = "some" /\ pointers' = pointers
          /\ calls' = [calls EXCEPT ![Top.fn] = "some"]
      BY <1>10, <2>2 DEF Pops
    <3>2. g \in Suspected /\ CallsDirectly(Top.fn, g)
      BY <1>7, <3>1 DEF Explained, SomeSuspected, CallsDirectly, CallsIn, Body
    <3>3. Top.fn \in Suspected
      BY <1>7, <3>1, <3>2, SuspectedClosed DEF LeadsToAlarm
    <3>. QED
      BY <1>5, <1>6, <1>7, <3>1, <3>3 DEF Explained
  <2>. QED
    BY <2>1, <2>2
<1>11. CASE VisitVariable
  <2>. DEFINE x == Head(left).var
              g == Head(left).fn
  <2>1. /\ calls' = calls /\ pointers' = IF Known(g) THEN pointers \cup {x} ELSE pointers
        /\ "var" \in DOMAIN Head(left)
    BY <1>11 DEF VisitVariable, ProcessDeclInit
  <2>2. /\ Head(left) = unit.decls[Visited'] /\ Head(left) \in Declarations
        /\ Visited' \in DOMAIN unit.decls
    BY <1>11, VisitFacts, UnitFacts DEF Visits, Shape, Types
  <2>3. Head(left) = [var |-> x, fn |-> g] /\ g \in Functions
    BY <2>1, <2>2, DeclarationFacts
  <2>4. g \in Values(x)
    BY <2>2, <2>3 DEF Values
  <2>5. PointersKnown'
    BY <1>1, <1>3, <2>1, <2>4 DEF PointersKnown, Known
  <2>. QED
    BY <1>4, <2>1, <2>5 DEF Explained
<1>12. CASE VisitFunction
  <2>1. CASE UNCHANGED calls
    BY <1>4, <1>6, <1>12, <2>1 DEF VisitFunction, Explained
  <2>2. CASE calls' # calls
    <3>. DEFINE f == Head(left).fn
    <3>1. f \in Writers /\ calls' = [calls EXCEPT ![f] = "some"] /\ pointers' = pointers
      BY <1>12, <2>2 DEF VisitFunction
    <3>2. f \in Functions /\ f \in Suspected
      BY <3>1, FunctionsAssumption, SuspectedClosed DEF LeadsToAlarm
    <3>. QED
      BY <1>5, <1>6, <3>1, <3>2 DEF Explained
  <2>. QED
    BY <2>1, <2>2
<1>. QED
  BY <1>8, <1>9, <1>10, <1>11, <1>12, StepKinds DEF Shape, Visits

\* No alarm without a reason: an action is reported only if it may write, if
\* it is called in a statement, or if it comes to a call through a pointer to
\* a function that is.
THEOREM OnlyExplainedAlarms == Spec => []AlarmsExplained
<1>. DEFINE IInv == Shape /\ Reported /\ Explained
<1>1. Init => IInv
  BY ShapeStarts, JudgedStarts DEF Init, Explained, SomeSuspected, EmptyCalled, PointersKnown
<1>2. IInv /\ [Next]_vars => IInv'
  BY ShapeKept, ReportedKept, ExplainedKept
<1>3. IInv => AlarmsExplained
  <2>. SUFFICES ASSUME Shape, Reported, Explained, NEW a \in errors
                PROVE  a \in Suspected \/ Called(a)
    BY DEF AlarmsExplained
  <2>1. a \in actions /\ Known(a)
    BY DEF Reported
  <2>2. a \in Functions /\ calls[a] \in {"empty", "some"}
    BY <2>1, FunctionsAssumption DEF Known, Shape, Types
  <2>. QED
    BY <2>2 DEF Explained, SomeSuspected, EmptyCalled
<1>. QED
  BY <1>1, <1>2, <1>3, PTL DEF Spec

=============================================================================
