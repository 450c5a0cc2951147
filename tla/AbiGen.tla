------------------------------- MODULE AbiGen -------------------------------
(***************************************************************************)
(* ABI generation (tools/include/eosio/abigen.hpp): from the annotated     *)
(* declarations of a translation unit to the ABI.  The abigen object, here *)
(* g = [abi, ctables, evaluated], lives as long as the compiler driver: it *)
(* collects what every unit adds.                                          *)
(*                                                                         *)
(* A C++ type is a member of DOMAIN Types, which gives its kind, the name  *)
(* it has in an ABI, the types it is made of and its base class.  Kinds    *)
(* are "builtin", "alias", "list" (vector, set, optional, ...), "pair"     *)
(* (pair and tuple), "variant" and "struct".  A list of a list is the only *)
(* nested container.  What an ABI says about a type is                     *)
(* [name, many]: the name, and whether a suffix such as [] follows it.     *)
(***************************************************************************)
EXTENDS AbiMerge, SequencesExt

CONSTANTS
    Types,    \* the types of the program
    Builtins, \* the names is_builtin_type knows
    Reserved, \* the names with two underscores in them: is_reserved
    Contract, \* the contract to be compiled
    Clauses   \* the ricardian clauses found in the resource directories

\* The clauses are kept by their ids.
ASSUME ClausesAssumption == \A x, y \in Clauses : x.id = y.id => x = y

\* A type is built in when its name is.  The struct made of the parameters of
\* a method has the method's name, which may be that of a built-in type.
ASSUME BuiltinsAssumption ==
    \A t \in DOMAIN Types : Types[t].kind = "builtin" <=> Types[t].name \in Builtins

\* void, which has no name in an ABI.
Void == "void"
NoType == [name |-> "", many |-> FALSE]

NoBase == ""

BaseVersion == 12
BitsetVersion == 13
SyncCallsVersion == 13

KindOf(t) == Types[t].kind

NameOf(t) == Types[t].name

\* translate_type.
TranslateType(t) ==
    IF KindOf(t) = "list" THEN [name |-> NameOf(Types[t].args[1]), many |-> TRUE]
                          ELSE [name |-> NameOf(t), many |-> FALSE]

FieldsOf(ts) == [i \in DOMAIN ts |-> [name |-> i, type |-> TranslateType(ts[i])]]

IsExplicitNested(t) == KindOf(t) = "list" /\ KindOf(Types[t].args[1]) = "list"

SetMin(g, v) == [g EXCEPT !.abi.version = IF @ < v THEN v ELSE @]

\* The sections are std::sets ordered by name: a second definition is dropped.
Insert(g, s, x) ==
    IF x.id \in Ids(g.abi.sec[s]) THEN g ELSE [g EXCEPT !.abi.sec[s] = @ \cup {x}]

Struct(name, base, ts) ==
    [id |-> name, def |-> [base |-> base, fields |-> FieldsOf(ts)]]

Typedef(t, target) == [id |-> NameOf(t), def |-> TranslateType(target)]

\* What is inserted, in this order, and the types in evaluated then.  "version"
\* stands for set_min.
Unchanged(seen) == [ins |-> << >>, seen |-> seen]

Then(r, to, entry) == [r EXCEPT !.ins = Append(@, [to |-> to, entry |-> entry])]

\* What the functions below insert for a type t when seen are in evaluated;
\* adds tells it for those they call: see Adds.
Each(ts, seen, adds) ==
    FoldLeft(LAMBDA r, t : LET then == adds["type", t, r.seen]
                           IN  [ins |-> r.ins \o then.ins, seen |-> then.seen],
             Unchanged(seen), ts)

\* add_typedef.
TypedefAdds(t, seen, adds) ==
    LET target == Types[t].args[1]
    IN  Then(IF KindOf(target) = "builtin" THEN Unchanged(seen) ELSE adds["type", target, seen],
             "types", Typedef(t, target))

\* add_struct.
StructAdds(t, seen, adds) ==
    LET args == Types[t].args
        base == Types[t].base
    IN  Then(Each(IF base = NoBase THEN args ELSE <<base>> \o args, seen, adds), "structs",
             Struct(NameOf(t), IF base = NoBase THEN NoBase ELSE NameOf(base), args))

\* add_explicit_nested_type, for the inner list.
NestedAdds(t, seen, adds) ==
    LET inside == Types[t].args[1]
    IN  Then(CASE KindOf(inside) = "list"    -> adds["nested", inside, seen]
               [] KindOf(inside) = "builtin" -> Unchanged(seen)
               [] KindOf(inside) = "alias"   -> TypedefAdds(inside, seen, adds)
               [] OTHER                      -> StructAdds(inside, seen, adds),
             "types", Typedef(t, t))

\* add_type, for a type that was not in evaluated and is not a nested list.
NewTypeAdds(t, seen, adds) ==
    LET args == Types[t].args
    IN  CASE KindOf(t) = "builtin" -> IF NameOf(t) = "bitset"
                                        THEN Then(Unchanged(seen), "version", BitsetVersion)
                                        ELSE Unchanged(seen)
          [] KindOf(t) = "alias"   -> TypedefAdds(t, seen, adds)
          [] KindOf(t) = "list"    -> Each(args, seen, adds)
          [] KindOf(t) = "pair"    -> Then(Each(args, seen, adds), "structs",
                                           Struct(NameOf(t), NoBase, args))
          [] KindOf(t) = "variant" -> Then(Each(args, seen, adds), "variants",
                                           [id  |-> NameOf(t),
                                            def |-> [i \in DOMAIN args |-> TranslateType(args[i])]])
          [] KindOf(t) = "struct"  -> StructAdds(t, seen, adds)

\* add_explicit_nested_type and add_type, which call one another.  evaluated
\* holds addresses of clang types: see NewUnit.
Adds[how \in {"nested", "type"}, t \in DOMAIN Types, seen \in SUBSET DOMAIN Types] ==
    IF how = "nested" THEN NestedAdds(t, seen, Adds)
    ELSE IF t \in seen THEN Unchanged(seen)
    ELSE IF IsExplicitNested(t) THEN NestedAdds(Types[t].args[1], seen \cup {t}, Adds)
    ELSE NewTypeAdds(t, seen \cup {t}, Adds)

\* The entries of r.ins for the section s that are not dropped: the first one
\* of every new id.
Fresh(g, r, s) ==
    LET new == {i \in 1 .. Len(r.ins) :
                  r.ins[i].to = s /\ r.ins[i].entry.id \notin Ids(g.abi.sec[s])}
    IN  {r.ins[i].entry : i \in {n \in new : \A h \in new :
                                  r.ins[h].entry.id = r.ins[n].entry.id => n <= h}}

\* g after what r says.
Inserted(g, r) ==
    LET versioned == \E i \in 1 .. Len(r.ins) : r.ins[i].to = "version"
    IN  [SetMin(g, IF versioned THEN BitsetVersion ELSE BaseVersion) EXCEPT
           !.evaluated = r.seen,
           !.abi.sec["types"]    = @ \cup Fresh(g, r, "types"),
           !.abi.sec["structs"]  = @ \cup Fresh(g, r, "structs"),
           !.abi.sec["variants"] = @ \cup Fresh(g, r, "variants")]

AddType(t, g) == Inserted(g, Adds["type", t, g.evaluated])

AddTypes(ts, g) == Inserted(g, Each(ts, g.evaluated, Adds))

AddStruct(t, g) == Inserted(g, StructAdds(t, g.evaluated, Adds))

-----------------------------------------------------------------------------
(* The declarations the visitor reacts to.  d.is are the annotations of a  *)
(* method ("action", "call", "notify") or of a struct ("table"); an        *)
(* instance of multi_index or singleton is an "index", and a "table" too   *)
(* when its rows are annotated.  d.contract is the contract it belongs to. *)

AddAction(d, g) ==
    LET acted == Insert(g, "actions", [id |-> d.name, def |-> d.method])
    IN  IF d.result = Void THEN acted
        ELSE Insert(AddType(d.result, acted), "action_results",
                    [id |-> d.name, def |-> TranslateType(d.result)])

ResultOf(d) == IF d.result = Void THEN NoType ELSE TranslateType(d.result)

AddCall(d, g) ==
    LET typed == IF d.result = Void THEN g ELSE AddType(d.result, g)
    IN  SetMin(Insert(typed, "calls",
                      [id  |-> d.name,
                       def |-> [type   |-> d.method,
                                result |-> ResultOf(d)]]),
               SyncCallsVersion)

\* add_struct of a method: its parameters.
AddParams(d, g) == Insert(AddTypes(d.params, g), "structs", Struct(d.method, NoBase, d.params))

\* VisitCXXMethodDecl, VisitCXXRecordDecl and VisitDecl of the visitor.
VisitForAbi(d, g) ==
    LET acted   == IF "action" \in d.is THEN AddAction(d, AddParams(d, g)) ELSE g
        called  == IF "call" \in d.is THEN AddCall(d, AddParams(d, acted)) ELSE acted
        tabled  == [AddStruct(d.type, g) EXCEPT !.ctables =
                      IF d.name \in Ids(@) THEN @
                                           ELSE @ \cup {[id |-> d.name, def |-> NameOf(d.type)]}]
        row     == Insert(g, "tables", [id |-> d.name, def |-> NameOf(d.type)])
        indexed == IF "table" \in d.is THEN AddStruct(d.type, row) ELSE row
    IN  IF d.contract # Contract THEN g
        ELSE CASE d.is = {"table"}    -> tabled
               [] "index" \in d.is    -> indexed
               [] OTHER               -> called

\* abigen before the first unit.
NewAbiGen ==
    [abi       |-> [version |-> BaseVersion, sec |-> [s \in Sections |-> {}]],
     ctables   |-> {},
     evaluated |-> {}]

\* A unit begins: its types have addresses of their own, but evaluated still
\* holds those of earlier units, which are free again: reused are the types
\* of the unit that lie at one of them.
NewUnit(g, reused) == [g EXCEPT !.evaluated = reused]

\* A visitor goes through the declarations of a unit, from r.
Traversed(unit, r, Visit(_, _)) ==
    LET upTo[i \in 0 .. Len(unit)] == IF i = 0 THEN r ELSE Visit(unit[i], upTo[i - 1])
    IN  upTo[Len(unit)]

\* HandleTranslationUnit: the clauses come with the first declaration.
AbiOfUnit(unit, g) ==
    Traversed(unit, [g EXCEPT !.abi.sec["ricardian_clauses"] = @ \cup Clauses], VisitForAbi)

-----------------------------------------------------------------------------
(* to_json.                                                                *)

\* set_of_tables: an annotated struct is a table of its own name only when no
\* multi_index names another one.
TablesOf(g) ==
    LET indexed == g.abi.sec["tables"]
        own     == {t \in g.ctables : \A u \in indexed : u.def # t.def}
    IN  {t \in own : \A u \in indexed : u.id # t.id} \cup indexed

IsEmpty(g) ==
    /\ \A s \in (Always \cup {"calls"}) \ {"tables"} : g.abi.sec[s] = {}
    /\ TablesOf(g) = {}

\* get_root_name: what stands behind the aliases.
RootName(name, typedefs) ==
    LET root[n \in STRING] ==
          IF n \in Ids(typedefs) THEN root[(CHOOSE td \in typedefs : td.id = n).def.name] ELSE n
    IN  root[name]

FieldNames(st) == {st.def.fields[i].type.name : i \in DOMAIN st.def.fields}

VariantNames(sec) == UNION {{v.def[i].name : i \in DOMAIN v.def} : v \in sec["variants"]}

\* What _abi.actions, _abi.calls and _abi.action_results say: the result
\* types are compared with their suffix, those of calls not at all.
MethodNames(sec) ==
    {a.def : a \in sec["actions"]} \cup {c.def.type : c \in sec["calls"]}
      \cup {r.def.name : r \in {q \in sec["action_results"] : ~q.def.many}}

ValidateStructForgetsTypes(st, g) ==
    LET sec == g.abi.sec
    IN  /\ st.id \notin Builtins \cup Reserved
        /\ st.id \in UNION {FieldNames(q) : q \in sec["structs"]}
                       \cup VariantNames(sec)
                       \cup {q.def.base : q \in sec["structs"]}
                       \cup MethodNames(sec)
                       \cup {t.def : t \in TablesOf(g)}

\* validate_struct.
ValidateStruct(st, g) ==
    LET sec == g.abi.sec
    IN  /\ st.id \notin Builtins \cup Reserved
        /\ st.id \in UNION {FieldNames(q) : q \in sec["structs"]}
                       \cup VariantNames(sec)
                       \cup {RootName(q.def.base, sec["types"]) : q \in sec["structs"]}
                       \cup MethodNames(sec)
                       \cup {t.def : t \in TablesOf(g)}
                       \cup {td.def.name : td \in sec["types"]}

\* validate_types.
ValidateType(td, g) ==
    LET sec  == g.abi.sec
        kept == {st \in sec["structs"] : ValidateStruct(st, g)}
    IN  td.id \in UNION {FieldNames(q) \cup {q.def.base} : q \in kept}
                    \cup VariantNames(sec)
                    \cup {t.def : t \in sec["tables"]}
                    \cup MethodNames(sec)
                    \cup {q.def.name : q \in sec["types"]}

\* The ABI to_json makes: calls are there only when there are some.
ToJson(g) ==
    LET sec == g.abi.sec
    IN  [version |-> g.abi.version,
         sec |-> [s \in {q \in Sections : q = "calls" => sec["calls"] # {}} |->
                    CASE s = "structs" -> {st \in sec[s] : ValidateStruct(st, g)}
                      [] s = "types"   -> {td \in sec[s] : ValidateType(td, g)}
                      [] s = "tables"  -> TablesOf(g)
                      [] OTHER         -> sec[s]]]
=============================================================================
