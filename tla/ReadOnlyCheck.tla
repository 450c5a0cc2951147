--------------------------- MODULE ReadOnlyCheck ---------------------------
(***************************************************************************)
(* How cdt-cpp finds read-only actions that call a host function which     *)
(* writes (tools/include/eosio/codegen.hpp, eosio_codegen_visitor): the    *)
(* visitor comes by the declarations of a translation unit in their order  *)
(* and follows the calls in a function's body into functions it has not    *)
(* met, before it reports on the actions.                                  *)
(*                                                                         *)
(* The unit is data, chosen at the start: its declarations and the bodies  *)
(* of its functions as lists of statements.  A function here is one        *)
(* FunctionDecl, as in func_calls: a function that is declared above and   *)
(* defined below has two, and a call names the one that the compiler       *)
(* resolved it to.  Only the one that is the definition has a body.        *)
(* A statement is a record with the field op:                              *)
(*   call    fn        a call of the function fn                           *)
(*   indirect var      a call through the pointer var                      *)
(*   init    var, fn   the declaration of the local pointer var = fn       *)
(*   assign  var, fn   the assignment var = fn                             *)
(*   nested  fn        a call inside an if, a loop or an expression        *)
(* The visitor also generates the dispatchers of the actions it meets,     *)
(* from state of its own that the check does not read.                     *)
(***************************************************************************)
EXTENDS Naturals, Sequences, FiniteSets

CONSTANTS
    Functions,   \* the FunctionDecls of a unit
    Writers,     \* those of is_write_host_func, which have no body
    Actions,     \* those with the attributes action and read_only
    Vars,        \* the pointers to functions: variables and data members
    Units,       \* the units, [decls |-> declarations, body |-> bodies,
                 \* definition |-> the FunctionDecl with the body]
    MaxDepth     \* how deep process_function may recurse on the stack

Declarations == [fn : Functions] \cup [var : Vars, fn : Functions]

StatementSet ==
    [op : {"call", "nested"}, fn : Functions]
      \cup [op : {"indirect"}, var : Vars]
      \cup [op : {"init", "assign"}, var : Vars, fn : Functions]

CallsIn(u, f, g) ==
    \E i \in DOMAIN u.body[f] : u.body[f][i].op = "call" /\ u.body[f][i].fn = g

\* What C++ asks of a unit: of the functions T that the i-th declaration leads
\* to, the host functions are declared before it.
DeclaredBefore(u, i, T) ==
    /\ u.decls[i].fn \in T
    /\ \A f \in T, g \in Functions : CallsIn(u, f, g) => g \in T
    /\ \A w \in T \cap Writers : \E j \in 1 .. i - 1 : u.decls[j] = [fn |-> w]

ASSUME FunctionsAssumption ==
    /\ Writers \subseteq Functions /\ Actions \subseteq Functions
    /\ MaxDepth \in Nat \ {0} /\ IsFiniteSet(Functions)

ASSUME UnitsAssumption ==
    \A u \in Units :
      /\ u.decls \in Seq(Declarations)
      /\ u.body \in [Functions -> Seq(StatementSet)]
      /\ \A f \in Writers : u.body[f] = << >>
      /\ u.definition \in [Functions -> Functions]
      /\ \A f \in Functions : u.definition[f] # f => u.body[f] = << >>
      /\ \A a \in Actions : \E i \in DOMAIN u.decls : u.decls[i] = [fn |-> a]
      /\ \A i \in DOMAIN u.decls :
           u.decls[i] \in [fn : Functions] /\ u.body[u.decls[i].fn] # << >>
             => \E T \in SUBSET Functions : DeclaredBefore(u, i, T)

VARIABLES
    unit,      \* the translation unit
    left,      \* the declarations still to visit: a function [fn], or a
               \* global variable or data member with its value, [var, fn]
    stack,     \* the calls of process_function, [fn, at |-> statement,
               \* back |-> whether the callee there has been processed]
    calls,     \* func_calls: "none", or the vector is "empty" or "some"
    pointers,  \* the keys of indi_func_map
    actions,   \* read_only_actions
    errors,    \* the actions an error was reported for
    state      \* "running", "done", or "overflow" of the compiler's stack

vars == <<unit, left, stack, calls, pointers, actions, errors, state>>

Init ==
    /\ unit \in Units
    /\ left = unit.decls
    /\ stack = << >>
    /\ calls = [f \in Functions |-> "none"]
    /\ pointers = {} /\ actions = {} /\ errors = {}
    /\ state = "running"

Frame(f) == [fn |-> f, at |-> 1, back |-> FALSE]

Top == stack[Len(stack)]

\* What process_function goes through: nothing, unless this declaration is
\* the definition.
Body(f) == unit.body[f]

\* The statements, at most one, that process_function is about to look at.
Upcoming ==
    IF state = "running" /\ stack # << >> /\ Top.at <= Len(Body(Top.fn))
      THEN {Body(Top.fn)[Top.at]} ELSE {}

Advanced == [stack EXCEPT ![Len(stack)] = [Top EXCEPT !.at = Top.at + 1, !.back = FALSE]]

Popped == SubSeq(stack, 1, Len(stack) - 1)

Known(f) == calls[f] # "none"

-----------------------------------------------------------------------------

DeclInitOfEmpty(var, fn) ==
    pointers' = IF calls[fn] = "empty" THEN pointers \cup {var} ELSE pointers

\* process_decl_init
ProcessDeclInit(var, fn) ==
    pointers' = IF Known(fn) THEN pointers \cup {var} ELSE pointers

\* VisitDecl for a global variable, VisitCXXRecordDecl for a data member.
VisitVariable ==
    /\ state = "running" /\ stack = << >> /\ left # << >>
    /\ "var" \in DOMAIN Head(left)
    /\ ProcessDeclInit(Head(left).var, Head(left).fn)
    /\ left' = Tail(left)
    /\ UNCHANGED <<unit, stack, calls, actions, errors, state>>

\* What VisitCXXMethodDecl adds.
Registered(f) == actions \cup ({f} \cap Actions)

\* VisitFunctionDecl and then, for a read-only action, VisitCXXMethodDecl.
\* A function that process_function came by before is processed again.
VisitFunction ==
    /\ state = "running" /\ stack = << >> /\ left # << >>
    /\ "var" \notin DOMAIN Head(left)
    /\ \E f \in {Head(left).fn} :
         /\ \/ /\ f \in Writers /\ ~Known(f)
               /\ calls' = [calls EXCEPT ![f] = "some"]
               /\ UNCHANGED stack
            \/ /\ ~(f \in Writers /\ ~Known(f))
               /\ stack' = <<Frame(f)>>
               /\ UNCHANGED calls
         /\ actions' = Registered(f)
    /\ left' = Tail(left)
    /\ UNCHANGED <<unit, pointers, errors, state>>

-----------------------------------------------------------------------------
(* process_function.                                                       *)

FollowNothing(st) ==
    /\ st.op = "call"
    /\ ~Known(st.fn) /\ ~Top.back
    /\ stack' = [stack EXCEPT ![Len(stack)].back = TRUE]
    /\ UNCHANGED <<unit, left, calls, pointers, actions, errors, state>>
FollowAgain(st) ==
    /\ st.op = "call"
    /\ ~Known(st.fn) /\ ~Top.back
    /\ \/ /\ Len(stack) < MaxDepth
          /\ stack' = Append(stack, Frame(st.fn))
          /\ UNCHANGED state
       \/ /\ Len(stack) = MaxDepth
          /\ state' = "overflow"
          /\ UNCHANGED stack
    /\ UNCHANGED <<unit, left, calls, pointers, actions, errors>>

\* The callee has not been met: process_function calls itself for it, to no
\* effect if the callee is a declaration and the definition is elsewhere.
Follow(st) ==
    /\ st.op = "call"
    /\ ~Known(st.fn) /\ ~Top.back
    /\ \/ /\ Len(stack) < MaxDepth
          /\ stack' = Append([stack EXCEPT ![Len(stack)].back = TRUE], Frame(st.fn))
          /\ UNCHANGED state
       \/ /\ Len(stack) = MaxDepth
          /\ state' = "overflow"
          /\ UNCHANGED stack
    /\ UNCHANGED <<unit, left, calls, pointers, actions, errors>>

JudgeCallee(st) ==
    /\ st.op = "call"
    /\ Known(st.fn) \/ Top.back
    /\ \/ /\ calls[st.fn] = "some"
          /\ stack' = Popped
          /\ UNCHANGED calls
       \/ /\ calls[st.fn] # "some"
          /\ calls' = [calls EXCEPT ![st.fn] = "empty"]
          /\ stack' = Advanced
    /\ UNCHANGED <<unit, left, pointers, actions, errors, state>>

\* It has: a callee that writes ends the search, another one leaves an empty
\* vector behind.
Judge(st) ==
    /\ st.op = "call"
    /\ Known(st.fn) \/ Top.back
    /\ \/ /\ calls[st.fn] = "some"
          /\ calls' = [calls EXCEPT ![Top.fn] = "some"]
          /\ stack' = Popped
       \/ /\ calls[st.fn] # "some"
          /\ calls' = [calls EXCEPT ![st.fn] = "empty"]
          /\ stack' = Advanced
    /\ UNCHANGED <<unit, left, pointers, actions, errors, state>>

IndiCalleeUnchecked(st) ==
    /\ st.op = "indirect"
    /\ calls' = [calls EXCEPT ![Top.fn] = "some"]
    /\ stack' = Advanced
    /\ UNCHANGED <<unit, left, pointers, actions, errors, state>>

\* process_indi_callee
ProcessIndiCallee(st) ==
    /\ st.op = "indirect"
    /\ calls' = IF st.var \in pointers THEN [calls EXCEPT ![Top.fn] = "some"] ELSE calls
    /\ stack' = Advanced
    /\ UNCHANGED <<unit, left, pointers, actions, errors, state>>

Declare(st) ==
    /\ st.op = "init"
    /\ ProcessDeclInit(st.var, st.fn)
    /\ stack' = Advanced
    /\ UNCHANGED <<unit, left, calls, actions, errors, state>>

\* update_indi_func_map
UpdateIndiFuncMap(st) ==
    /\ st.op = "assign"
    /\ pointers' = IF Known(st.fn) THEN pointers \cup {st.var} ELSE pointers \ {st.var}
    /\ stack' = Advanced
    /\ UNCHANGED <<unit, left, calls, actions, errors, state>>

\* A call that is not a statement of the body itself is not looked at.
Pass(st) ==
    /\ st.op = "nested"
    /\ stack' = Advanced
    /\ UNCHANGED <<unit, left, calls, pointers, actions, errors, state>>

Leave ==
    /\ state = "running" /\ stack # << >> /\ Top.at > Len(Body(Top.fn))
    /\ stack' = Popped
    /\ UNCHANGED <<unit, left, calls, pointers, actions, errors, state>>

\* process_read_only_actions: an entry in func_calls counts, empty or not.
ProcessReadOnlyActions ==
    /\ state = "running" /\ stack = << >> /\ left = << >>
    /\ errors' = {a \in actions : Known(a)}
    /\ state' = "done"
    /\ UNCHANGED <<unit, left, stack, calls, pointers, actions>>

ProcessStatement(st) ==
    \/ Follow(st) \/ Judge(st) \/ ProcessIndiCallee(st)
    \/ Declare(st) \/ UpdateIndiFuncMap(st) \/ Pass(st)

Next ==
    \/ VisitVariable \/ VisitFunction
    \/ \E st \in Upcoming : ProcessStatement(st)
    \/ Leave \/ ProcessReadOnlyActions

\* The compiler runs until it is done.
Spec == Init /\ [][Next]_vars /\ WF_vars(Next)

-----------------------------------------------------------------------------

Statements(f) == {Body(f)[i] : i \in DOMAIN Body(f)}

\* f calls g in a statement of its own.
CallsDirectly(f, g) == CallsIn(unit, f, g)

\* The smallest set of functions that holds every function P finds in it.
Least(P(_, _)) ==
    {f \in Functions :
       \A S \in SUBSET Functions : (\A g \in Functions : P(S, g) => g \in S) => f \in S}

LeadsToWriter(S, f) == f \in Writers \/ \E g \in S : CallsDirectly(f, g)

\* The functions that lead to a writer by direct calls.
Writing == Least(LeadsToWriter)

\* The values of the pointer var anywhere in the unit.
Values(var) ==
    {f \in Functions :
       \/ \E i \in DOMAIN unit.decls : unit.decls[i] = [var |-> var, fn |-> f]
       \/ \E g \in Functions : \E st \in Statements(g) :
            st.op \in {"init", "assign"} /\ st.var = var /\ st.fn = f}

CallsIndirectly(f, g) ==
    \E st \in Statements(f) : st.op = "indirect" /\ g \in Values(st.var)

\* Somebody calls f in a statement.
Called(f) == \E g \in Functions : CallsDirectly(g, f)

\* Some functions call one another in a circle.
Recursive ==
    \E S \in SUBSET Functions :
      S # {} /\ \A f \in S : \E g \in S : CallsDirectly(f, g)

\* Every read-only action from which statements with a call, each resolved
\* to a function's definition or to a host function, lead to a host function
\* that writes is reported, wherever in the unit those definitions are.
NoCallMissed == state = "done" => Actions \cap Writing \subseteq errors

\* The action sets a pointer to f and calls it at once.
Redirects(a, f) ==
    \E i \in DOMAIN Body(a) :
      /\ Body(a)[i].op \in {"init", "assign"} /\ Body(a)[i].fn = f
      /\ i < Len(Body(a)) /\ Body(a)[i + 1] = [op |-> "indirect", var |-> Body(a)[i].var]

IsBefore(f, a) ==
    \E i, j \in DOMAIN unit.decls :
      i < j /\ unit.decls[i] = [fn |-> f] /\ unit.decls[j] = [fn |-> a]

\* So is an action that sets a pointer to such a function and calls it, if
\* the declaration it names, with the body, is before the action.
NoRedirectionMissed ==
    state = "done" =>
      \A a \in Actions : \A f \in Writing :
        IsBefore(f, a) /\ Redirects(a, f) => a \in errors

\* f calls g when it runs: in a statement, within one, or through a pointer,
\* and whichever declaration of f has the body.
Runs(f, g) ==
    LET d == unit.definition[f] IN
      \/ CallsDirectly(d, g) \/ CallsIndirectly(d, g)
      \/ \E st \in Statements(d) : st.op = "nested" /\ st.fn = g

WritesInDeed(S, f) == f \in Writers \/ \E g \in S : Runs(f, g)

\* The functions that may write when they run.
WritingInDeed == Least(WritesInDeed)

LosesTrack(S, f) ==
    \/ unit.definition[f] # f
    \/ \E st \in Statements(f) : st.op \in {"nested", "indirect"}
    \/ \E g \in S : CallsDirectly(f, g)

\* The functions from which the search comes to a call it does not follow.
Astray == Least(LosesTrack)

\* An action that writes when it runs is reported, or the statements with a
\* call lead from it to a declaration whose definition is elsewhere, to a
\* call within a statement or to a call through a pointer: process_function
\* has no other way to lose a call.
MissesExplained ==
    state = "done" => Actions \cap WritingInDeed \subseteq errors \cup Astray

LeadsToAlarm(S, f) ==
    \/ f \in Writers
    \/ \E g \in S : CallsDirectly(f, g) \/ CallsIndirectly(f, g)
    \/ \E g \in Functions : CallsIndirectly(f, g) /\ Called(g)

\* The functions that may write, or that come to a call of a pointer to a
\* function that is called in a statement.
Suspected == Least(LeadsToAlarm)

\* An action that is reported may write, or it is called in a statement, or
\* a function it comes to calls a pointer to a function that is: process_function
\* and process_read_only_actions have no other reason to report one.
AlarmsExplained == \A a \in errors : a \in Suspected \/ Called(a)

\* The search ends, unless a function calls itself in a statement of its
\* own: only then process_function recurses until the stack is full.
SearchEnds == Recursive \/ <>(state = "done")
=============================================================================
