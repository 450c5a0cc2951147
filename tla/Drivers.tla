------------------------------ MODULE Drivers -------------------------------
(***************************************************************************)
(* The compiler drivers cdt-cpp, cdt-cc and cdt-ld (tools/cc, tools/ld),   *)
(* run as jobs that share a file system, with the code generator           *)
(* (tools/include/eosio/codegen.hpp) and AbiGen inside cdt-cpp, and        *)
(* AbiMerge inside the linker.                                             *)
(*                                                                         *)
(* A job runs a command [tool, inputs, link, abigen].  The inputs of       *)
(* cdt-cpp and cdt-cc are names of source files; jobs run in directories   *)
(* of their own, so that two files of a name are different files.  The     *)
(* inputs of cdt-ld are jobs whose outputs it links.  The programs started *)
(* (clang-9, wasm-ld, eosio-pp) may fail at any time.                      *)
(***************************************************************************)
EXTENDS AbiGen, FiniteSets

CONSTANTS
    Jobs,
    Scenarios,  \* what the jobs may be asked to do: functions of the jobs
    Unit,       \* the declarations in a C++ source file
    HashId,     \* to_hash_id of the names of calls
    MaxReuse    \* how many types of a unit may lie at a reused address

\* A declaration is a method or what makes a table.
ASSUME UnitAssumption ==
    \A u \in DOMAIN Unit :
      /\ Unit[u] \in Seq(Elements(Unit[u]))
      /\ \A d \in Elements(Unit[u]) :
           \/ d.is # {} /\ d.is \subseteq {"action", "call", "notify"}
           \/ d.is \in {{"table"}, {"index"}, {"index", "table"}}

\* Every command names the files or jobs it works on.
ASSUME ScenariosAssumption ==
    \A s \in Scenarios :
      /\ DOMAIN s = Jobs
      /\ \A j \in Jobs : /\ s[j].tool \in {"cpp", "cc", "ld", "none"} /\ s[j].link \in BOOLEAN
                         /\ s[j].inputs \in Seq(Elements(s[j].inputs))
                         /\ s[j].inputs # << >> \/ s[j].tool = "none"
                         /\ s[j].tool = "cpp" => Elements(s[j].inputs) \subseteq DOMAIN Unit
                         /\ s[j].tool = "ld" => \A k \in Elements(s[j].inputs) :
                                                  k \in Jobs /\ s[k].tool # "none"

VARIABLES
    cmd,        \* the command of each job
    pc,         \* where each job is
    at,         \* the input each job is working on
    files,      \* the files there are, with their contents
    outs,       \* outputs: what clang was told to write
    cg,         \* the code generator of each job: see NewCodeGen
    tmp_files,  \* its stubs: the files made for the inputs
    ag,         \* abigen of each job
    broke,      \* jobs for which a program failed by itself
    stale       \* jobs in which a type lay at a reused address

vars == <<cmd, pc, at, files, outs, cg, tmp_files, ag, broke, stale>>

\* Files.  createTemporaryFile finds a name no one else has; cdt-cc makes up
\* its own from the name of the input.
TmpCpp(j, i) == <<"antelope.cpp", j, i>>
TmpObjPerJob(j, i) == <<"antelope.o", j, 0>>
TmpObj(j, i) == <<"antelope.o", j, i>>
TmpCc(name) == <<"tmp.c.o", name, 0>>
Output(j) == <<"out", j, 0>>

Temporary(f) == f[1] # "out"

\* An object: its source, its dispatchers and the ABI it carries, if any.  An
\* image has the sources of the objects in it, one after the other.
NoAbi == {}

Object(src, disp, abi) == [src |-> src, disp |-> disp, abi |-> abi]

\* The file createTemporaryFile leaves.
EmptyFile == Object(<<>>, {}, NoAbi)

Exists(f) == f \in DOMAIN files

WithFile(fs, f, x) == [g \in DOMAIN fs \cup {f} |-> IF g = f THEN x ELSE fs[g]]

Without(fs, S) == [g \in DOMAIN fs \ S |-> fs[g]]

Input(j) == cmd[j].inputs[at[j]]

Source(j, name) == <<j, name>>

-----------------------------------------------------------------------------
(* Code generation: codegen.hpp.                                           *)

NewCodeGen ==
    [keys      |-> [k \in {"action", "notify", "call"} |-> {}],
     ids       |-> {},     \* _call_id_map: the names of calls so far
     abi       |-> NoAbi,
     parsed    |-> ""]     \* parsed_contract_name

\* What keeps a dispatcher from being generated twice, and its symbol.
FullName(d) == d.method \o d.class
Symbol(d) == d.method \o "_" \o d.class

\* The dispatcher is only written for methods of the contract.
CreateDispatch(d, k) ==
    IF d.contract = Contract THEN {[kind |-> k, name |-> d.name, sym |-> Symbol(d)]} ELSE {}

DispatchByMethod(d, k, r) ==
    IF k \notin d.is \/ d.method \in r.cg.keys[k] THEN r
    ELSE [r EXCEPT !.disp = @ \cup CreateDispatch(d, k),
                   !.cg.keys[k] = @ \cup {d.method},
                   !.cg.parsed = d.contract]

\* One of the branches of VisitCXXMethodDecl.
Dispatch(d, k, r) ==
    IF k \notin d.is \/ FullName(d) \in r.cg.keys[k] THEN r
    ELSE [r EXCEPT !.disp = @ \cup CreateDispatch(d, k),
                   !.cg.keys[k] = @ \cup {FullName(d)},
                   !.cg.parsed = d.contract]

\* The check that no two names of calls have one id.
CheckCallId(d, r) ==
    IF "call" \notin d.is THEN r
    ELSE IF \E n \in r.cg.ids : HashId[n] = HashId[d.name] /\ n # d.name
      THEN [r EXCEPT !.error = TRUE]
      ELSE [r EXCEPT !.cg.ids = @ \cup {d.name}]

VisitForCode(d, r) ==
    Dispatch(d, "call", CheckCallId(d,
      IF "action" \in d.is THEN Dispatch(d, "action", r) ELSE Dispatch(d, "notify", r)))

\* The traversal of a unit: the code generator after it, the dispatchers and
\* whether an error was reported.
CodeOfUnit(unit, c) ==
    Traversed(unit, [cg |-> c, disp |-> {}, error |-> FALSE], VisitForCode)

\* abigen asks for the contract of actions, calls and tables: the last one
\* stays.
ParsedByAbiGen(unit, c) ==
    LET asked == {i \in DOMAIN unit : unit[i].is \cap {"action", "call", "table"} # {}}
    IN  IF asked = {} THEN c ELSE [c EXCEPT !.parsed = unit[Max(asked)].contract]

-----------------------------------------------------------------------------

Init ==
    /\ cmd \in Scenarios
    /\ pc = [j \in Jobs |-> CASE cmd[j].tool = "cpp" -> "generate"
                               [] cmd[j].tool = "cc"  -> "compile"
                               [] cmd[j].tool = "ld"  -> "wait"
                               [] OTHER               -> "ok"]
    /\ at = [j \in Jobs |-> 1]
    /\ files = << >>
    /\ outs = [j \in Jobs |-> << >>]
    /\ cg = [j \in Jobs |-> NewCodeGen]
    /\ tmp_files = [j \in Jobs |-> << >>]
    /\ ag = [j \in Jobs |-> NewAbiGen]
    /\ broke = {}
    /\ stale = {}

Goto(j, where) == pc' = [pc EXCEPT ![j] = where]

\* main returns -1.
Fail(j) == Goto(j, "failed") /\ UNCHANGED <<at, outs>>

Breaks(j) == broke' = broke \cup {j}

\* The output of clang for the i-th input, and for the current one.
OutputAt(j, i) ==
    IF ~cmd[j].link THEN Output(j)
    ELSE IF cmd[j].tool = "cc" THEN TmpCc(cmd[j].inputs[i]) ELSE TmpObj(j, i)

OutputOf(j) == OutputAt(j, at[j])

\* handle_empty_abigen throws.
EmptyError(j, g, c) == IsEmpty(g) /\ cmd[j].abigen /\ c.parsed # ""

\* The first run of the tool in generate: abigen.  reused are the types of
\* the unit that lie where a type of an earlier unit was.
Abigen(j, reused) ==
    LET g == AbiOfUnit(Unit[Input(j)], NewUnit(ag[j], reused))
        c == ParsedByAbiGen(Unit[Input(j)], cg[j])
    IN  /\ pc[j] = "generate"
        /\ reused # {} => ag[j].evaluated # {}
        /\ ag' = [ag EXCEPT ![j] = g]
        /\ stale' = IF reused = {} THEN stale ELSE stale \cup {j}
        /\ cg' = [cg EXCEPT ![j] = IF IsEmpty(g) THEN c ELSE [c EXCEPT !.abi = {ToJson(g)}]]
        /\ \/ EmptyError(j, g, c) /\ Fail(j)
           \/ ~EmptyError(j, g, c) /\ Goto(j, "codegen") /\ UNCHANGED <<at, outs>>
        /\ UNCHANGED <<cmd, files, tmp_files, broke>>

\* The unit does not parse, or it breaks a rule of abigen.
AbigenError(j) ==
    /\ pc[j] = "generate"
    /\ Fail(j) /\ Breaks(j)
    /\ UNCHANGED <<cmd, files, cg, tmp_files, ag, stale>>

\* tmp_files.emplace: an entry that is there stays.
Emplace(m, name, f) == IF name \in DOMAIN m THEN m ELSE WithFile(m, name, f)

\* The second run of the tool.  The stub with the dispatchers and the ABI is
\* written when the job has met an annotated method so far, errors or not.
\* bad: the unit breaks a rule of the code generator, as a read-only action
\* that writes does.
Codegen(j, bad) ==
    LET r    == CodeOfUnit(Unit[Input(j)], cg[j])
        stub == \E k \in DOMAIN r.cg.keys : r.cg.keys[k] # {}
        tmp  == TmpCpp(j, at[j])
        fs   == IF stub THEN WithFile(files, tmp, Object(Source(j, Input(j)), r.disp, r.cg.abi))
                        ELSE files
    IN  /\ pc[j] = "codegen"
        /\ cg' = [cg EXCEPT ![j] = r.cg]
        /\ tmp_files' = IF stub THEN [tmp_files EXCEPT ![j] = Emplace(@, Input(j), tmp)]
                                ELSE tmp_files
        /\ broke' = IF bad THEN broke \cup {j} ELSE broke
        /\ \/ (r.error \/ bad) /\ Fail(j) /\ files' = fs
           \/ /\ ~r.error /\ ~bad
              /\ Goto(j, "compile")
              /\ outs' = [outs EXCEPT ![j] = Append(@, OutputOf(j))]
              /\ files' = IF cmd[j].link THEN WithFile(fs, OutputOf(j), EmptyFile) ELSE fs
              /\ UNCHANGED at
        /\ UNCHANGED <<cmd, ag, stale>>

\* The file clang reads, where tmp_files has one for the input.
Redirected(j) == cmd[j].tool = "cpp" /\ Input(j) \in DOMAIN tmp_files[j]
StdinFile(j) == tmp_files[j][Input(j)]

\* What is removed after clang ran, whether it failed or not.
Spent(j) == IF Redirected(j) THEN {StdinFile(j)} ELSE {}

CompiledObject(j) ==
    IF Redirected(j) THEN files[StdinFile(j)] ELSE Object(Source(j, Input(j)), {}, NoAbi)

Compile(j) ==
    /\ pc[j] = "compile"
    /\ Redirected(j) => Exists(StdinFile(j))
    /\ files' = Without(WithFile(files, OutputOf(j), CompiledObject(j)), Spent(j))
    /\ outs' = IF cmd[j].tool = "cc" THEN [outs EXCEPT ![j] = Append(@, OutputOf(j))] ELSE outs
    /\ IF at[j] < Len(cmd[j].inputs)
         THEN /\ at' = [at EXCEPT ![j] = @ + 1]
              /\ Goto(j, IF cmd[j].tool = "cpp" THEN "generate" ELSE "compile")
         ELSE UNCHANGED at /\ Goto(j, IF cmd[j].link THEN "link" ELSE "ok")
    /\ UNCHANGED <<cmd, cg, tmp_files, ag, broke, stale>>

\* clang fails, or the file for its standard input is gone.
CompileError(j) ==
    /\ pc[j] = "compile"
    /\ Fail(j)
    /\ files' = Without(files, Spent(j))
    /\ IF Redirected(j) /\ ~Exists(StdinFile(j)) THEN UNCHANGED broke ELSE Breaks(j)
    /\ UNCHANGED <<cmd, cg, tmp_files, ag, stale>>

-----------------------------------------------------------------------------
(* Linking.                                                                *)

\* The objects of cdt-ld, in the order they are given to it.  cdt-cpp and
\* cdt-cc insert every output at the beginning.
LinkInputs(j) ==
    IF cmd[j].tool = "ld" THEN [i \in DOMAIN cmd[j].inputs |-> Output(cmd[j].inputs[i])]
                          ELSE Reverse(outs[j])

The(S) == CHOOSE x \in S : TRUE

\* wasm-ld merges the ABIs of the objects in their order: the ABI so far, and
\* whether the merger threw.
MergeInto(r, o) ==
    IF ~r.ok \/ o.abi = NoAbi THEN r
    ELSE IF r.abi = NoAbi THEN [r EXCEPT !.abi = o.abi]
    ELSE IF Throws(The(r.abi), The(o.abi)) THEN [r EXCEPT !.ok = FALSE]
    ELSE [r EXCEPT !.abi = {Merge(The(@), The(o.abi))}]

LinkedAbi(objs) ==
    LET upTo[i \in 0 .. Len(objs)] ==
          IF i = 0 THEN [ok |-> TRUE, abi |-> NoAbi] ELSE MergeInto(upTo[i - 1], objs[i])
    IN  upTo[Len(objs)]

ObjectsOf(j) == [i \in DOMAIN LinkInputs(j) |-> files[LinkInputs(j)[i]]]

Linkable(j) ==
    /\ \A i \in DOMAIN LinkInputs(j) : Exists(LinkInputs(j)[i])
    /\ LinkedAbi(ObjectsOf(j)).ok

Image(objs) ==
    Object([i \in DOMAIN objs |-> objs[i].src],
           UNION {objs[i].disp : i \in DOMAIN objs},
           LinkedAbi(objs).abi)

\* A user calls cdt-ld when the jobs that make its inputs are over.
StartLd(j) ==
    /\ pc[j] = "wait"
    /\ \A i \in DOMAIN cmd[j].inputs : pc[cmd[j].inputs[i]] \in {"ok", "failed"}
    /\ Goto(j, "link")
    /\ UNCHANGED <<cmd, at, files, outs, cg, tmp_files, ag, broke, stale>>

\* cdt-ld links and post-processes the output.
Link(j) ==
    /\ pc[j] = "link"
    /\ Linkable(j)
    /\ files' = WithFile(files, Output(j), Image(ObjectsOf(j)))
    /\ Goto(j, IF cmd[j].tool = "ld" THEN "ok" ELSE "clean")
    /\ UNCHANGED <<cmd, at, outs, cg, tmp_files, ag, broke, stale>>

\* wasm-ld fails or merging the ABIs does, or eosio-pp fails, which leaves
\* the output.
LinkError(j) ==
    /\ pc[j] = "link"
    /\ IF Linkable(j) THEN Breaks(j) ELSE UNCHANGED broke
    /\ \/ UNCHANGED files
       \/ Linkable(j) /\ files' = WithFile(files, Output(j), Image(ObjectsOf(j)))
    /\ Goto(j, IF cmd[j].tool = "ld" THEN "failed" ELSE "undo")
    /\ UNCHANGED <<cmd, at, outs, cg, tmp_files, ag, stale>>

CleanLast(j) ==
    /\ pc[j] \in {"clean", "undo"}
    /\ files' = Without(files, {outs[j][Len(outs[j])]})
    /\ Goto(j, IF pc[j] = "clean" THEN "ok" ELSE "failed")
    /\ UNCHANGED <<cmd, at, outs, cg, tmp_files, ag, broke, stale>>

\* The outputs are removed, whether linking failed or not.
Clean(j) ==
    /\ pc[j] \in {"clean", "undo"}
    /\ files' = Without(files, Elements(outs[j]))
    /\ Goto(j, IF pc[j] = "clean" THEN "ok" ELSE "failed")
    /\ UNCHANGED <<cmd, at, outs, cg, tmp_files, ag, broke, stale>>

Over == \A j \in Jobs : pc[j] \in {"ok", "failed"}

\* Nothing is left to do.
Rest == Over /\ UNCHANGED vars

Step(j) ==
    \/ \E reused \in SUBSET DOMAIN Types : Cardinality(reused) <= MaxReuse /\ Abigen(j, reused)
    \/ AbigenError(j)
    \/ \E bad \in BOOLEAN : Codegen(j, bad)
    \/ Compile(j)
    \/ CompileError(j)
    \/ StartLd(j)
    \/ Link(j)
    \/ LinkError(j)
    \/ Clean(j)

Next == Rest \/ \E j \in Jobs : Step(j)

Spec == Init /\ [][Next]_vars

-----------------------------------------------------------------------------

Linked(j) == pc[j] = "ok" /\ cmd[j].tool # "none" /\ cmd[j].link

ImageOf(j) == files[Output(j)]

NamesIn(disp, k) == {e.name : e \in {x \in disp : x.kind = k}}

InputsOf(j) == Elements(cmd[j].inputs)

\* The declarations in the files a job compiles.
DeclsOf(j) ==
    IF cmd[j].tool = "cpp" THEN UNION {Elements(Unit[u]) : u \in InputsOf(j)} ELSE {}

\* cdt-cc and cdt-cpp link the objects of their own sources, each once,
\* unless another cdt-cc compiles a file of the same name: the name of its
\* object in the temporary directory is made of the name of the input only.
LinkedOwnSources ==
    \A j \in Jobs : Linked(j) /\ cmd[j].tool # "ld" =>
      \/ ImageOf(j).src = Reverse([i \in DOMAIN cmd[j].inputs |-> Source(j, cmd[j].inputs[i])])
      \/ \E k \in Jobs \ {j} : {cmd[j].tool, cmd[k].tool} = {"cc"} /\ InputsOf(j) \cap InputsOf(k) # {}

\* A method of the contract whose dispatcher was taken for that of another
\* one: the two full names are the same.
Shadowed(d, k, j) ==
    \E e \in DeclsOf(j) :
      /\ k \in e.is /\ FullName(e) = FullName(d)
      /\ e.contract # d.contract \/ e.name # d.name \/ Symbol(e) # Symbol(d)

\* Everything cdt-cpp links is complete: every action, call and notification
\* handler the files declare for the contract has a dispatcher, over however
\* many files the declarations are spread, and every action and call is in
\* the ABI.  A method that is an action is not taken for a handler too.
ImageComplete ==
    \A j \in Jobs : Linked(j) /\ cmd[j].tool = "cpp" =>
      \A d \in DeclsOf(j) : d.contract = Contract =>
        /\ \A k \in d.is \cap {"action", "call", "notify"} :
             \/ [kind |-> k, name |-> d.name, sym |-> Symbol(d)] \in ImageOf(j).disp
             \/ Shadowed(d, k, j)
             \/ k = "notify" /\ "action" \in d.is
        /\ \A a \in ImageOf(j).abi :
             /\ "action" \in d.is => d.name \in Ids(a.sec["actions"])
             /\ "call" \in d.is => "calls" \in DOMAIN a.sec /\ d.name \in Ids(a.sec["calls"])
        /\ d.is \cap {"action", "call"} # {} => ImageOf(j).abi # NoAbi

\* Every action an image dispatches is in its ABI, also when cdt-ld is given
\* objects compiled on their own, and so is every call unless the ABI of one
\* of the objects has none: the merger then drops those of the later ones.
DispatchedIsDescribed ==
    \A j \in Jobs : Linked(j) => \A a \in ImageOf(j).abi :
      /\ NamesIn(ImageOf(j).disp, "action") \subseteq Ids(a.sec["actions"])
      /\ \/ cmd[j].tool = "ld" /\ \E k \in InputsOf(j) : \E b \in ImageOf(k).abi : "calls" \notin DOMAIN b.sec
         \/ NamesIn(ImageOf(j).disp, "call") = {}
         \/ /\ "calls" \in DOMAIN a.sec
            /\ NamesIn(ImageOf(j).disp, "call") \subseteq Ids(a.sec["calls"])

\* The first k inputs give rise to an ABI.
HasAbi(j, k) ==
    \/ Clauses # {}
    \/ \E i \in 1 .. k : \E d \in Elements(Unit[cmd[j].inputs[i]]) :
         d.contract = Contract /\ d.is # {"notify"}

HasCalls(j, k) ==
    \E i \in 1 .. k : \E d \in Elements(Unit[cmd[j].inputs[i]]) :
      d.contract = Contract /\ "call" \in d.is

\* Why a run of cdt-cpp fails although every program it starts works: a file
\* is given twice; there is nothing for the ABI, though some declaration is
\* annotated; two calls have the same id; an input without calls comes
\* before one with some, whose ABIs cannot be merged; or a multi_index has
\* the name of an annotated struct and other rows: within a file the struct
\* is no table then, from one file to the next the two clash.
CppExcuse(j) ==
    \/ \E h, i \in DOMAIN cmd[j].inputs : h # i /\ cmd[j].inputs[h] = cmd[j].inputs[i]
    \/ cmd[j].abigen /\ ~HasAbi(j, at[j]) /\ DeclsOf(j) # {}
    \/ \E d, e \in DeclsOf(j) :
         "call" \in d.is \cap e.is /\ d.name # e.name /\ HashId[d.name] = HashId[e.name]
    \/ \E k \in DOMAIN cmd[j].inputs : HasAbi(j, k) /\ ~HasCalls(j, k)
                                     /\ HasCalls(j, Len(cmd[j].inputs))
    \/ \E d, e \in DeclsOf(j) : /\ d.is = {"table"} /\ "index" \in e.is
                               /\ d.name = e.name /\ NameOf(d.type) # NameOf(e.type)

\* ... and one of cdt-cc: another one removed its object.
CcExcuse(j) ==
    \E k \in Jobs \ {j} : cmd[k].tool = "cc" /\ InputsOf(j) \cap InputsOf(k) # {}

\* ... and one of cdt-ld: an object is missing, or only one of two has calls,
\* or they disagree on an entry.
LdExcuse(j) ==
    \/ \E k \in InputsOf(j) : pc[k] = "failed"
    \/ \E h, k \in InputsOf(j) :
         \E a \in ImageOf(h).abi, b \in ImageOf(k).abi :
           \/ "calls" \in DOMAIN a.sec /\ "calls" \notin DOMAIN b.sec
           \/ \E s \in DOMAIN a.sec \cap DOMAIN b.sec : Clash(s, a.sec[s], b.sec[s])

\* A job fails only when one of the programs it starts does, or for one of
\* these reasons.
FailuresExplained ==
    \A j \in Jobs : pc[j] = "failed" /\ j \notin broke =>
      CASE cmd[j].tool = "cpp" -> CppExcuse(j)
        [] cmd[j].tool = "cc"  -> CcExcuse(j)
        [] cmd[j].tool = "ld"  -> LdExcuse(j)

\* The jobs a temporary file may belong to.
Owners(f) ==
    IF f[1] = "tmp.c.o" THEN {j \in Jobs : cmd[j].tool = "cc" /\ f[2] \in InputsOf(j)} ELSE {f[2]}

\* Only a job that fails leaves temporary files behind.
OnlyFailuresLeaveFiles ==
    Over => \A f \in DOMAIN files : Temporary(f) => \E j \in Owners(f) : pc[j] = "failed"

-----------------------------------------------------------------------------
(* What the ABI in a stub or an image says about types.                    *)

Rows(j) == {NameOf(d.type) : d \in {e \in DeclsOf(j) : "table" \in e.is}}

\* The types that an ABI of the job j has to describe: those of fields and
\* base classes, of aliases and in variants, the results of actions, and the
\* rows of tables that are annotated.  to_json does not look for the others:
\* results of calls, lists that actions return, and other rows.
Mentioned(j, a) ==
    LET sec == a.sec IN
    UNION {FieldNames(st) \cup ({st.def.base} \ {NoBase}) : st \in sec["structs"]}
      \cup {td.def.name : td \in sec["types"]} \cup VariantNames(sec)
      \cup {r.def.name : r \in {q \in sec["action_results"] : ~q.def.many}}
      \cup {x.def : x \in {t \in sec["tables"] : t.def \in Rows(j)}}

\* The structs with the parameters of its actions and calls.
Parameters(a) ==
    {x.def : x \in a.sec["actions"]}
      \cup (IF "calls" \in DOMAIN a.sec THEN {c.def.type : c \in a.sec["calls"]} ELSE {})

Described(a) == UNION {Ids(a.sec[s]) : s \in {"structs", "types", "variants"}}

\* Every type an ABI mentions is described in it or built in, and so are the
\* parameters of its actions and calls, except what is reserved and methods
\* with the name of a built-in type, as long as no type lay at the address of
\* a type that is gone.
TypesDescribed ==
    \A j \in Jobs \ stale : \A a \in cg[j].abi :
      /\ Mentioned(j, a) \subseteq Described(a) \cup Builtins \cup Reserved
      /\ Parameters(a) \subseteq Ids(a.sec["structs"]) \cup Builtins \cup Reserved
=============================================================================
