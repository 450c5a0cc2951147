------------------------------ MODULE MCDrivers ------------------------------
(* One run of cdt-cpp over up to two files, two runs that compile a file    *)
(* each and cdt-ld on their outputs, or two runs of cdt-cc at a time.       *)
EXTENDS Drivers

Type(kind, name, args) == [kind |-> kind, name |-> name, args |-> args, base |-> NoBase]

MCTypes ==
    [u64  |-> Type("builtin", "uint64", << >>),
     bits |-> Type("builtin", "bitset", << >>),
     S    |-> Type("struct", "S", <<"u64", "LL">>),   \* refers to itself
     L    |-> Type("list", "B_vector_S_E", <<"S">>),
     LL   |-> Type("list", "", <<"L">>),
     T    |-> Type("struct", "T", <<"bits">>),
     A    |-> Type("alias", "A", <<"T">>),
     D    |-> [Type("struct", "D", <<"u64">>) EXCEPT !.base = "A"],
     P    |-> Type("pair", "pair_D_uint64", <<"D", "u64">>),
     V    |-> Type("variant", "variant_S_A", <<"S", "A">>),
     R    |-> Type("struct", "R", <<"u64">>),
     Q    |-> Type("struct", "Q", <<"u64">>),
     X    |-> Type("struct", "X__", <<"R">>),
     LR   |-> Type("list", "", <<"R">>)]

Method(is, method, class, contract, params, result) ==
    [is |-> is, method |-> method, class |-> class, name |-> method,
     contract |-> contract, params |-> params, result |-> result]

Record(is, name, type, contract) ==
    [is |-> is, method |-> "", class |-> "", name |-> name, type |-> type, contract |-> contract]

\* A method declared in a header several files include.
Shared == Method({"action"}, "transfer", "bc", "c", <<"L", "P">>, Void)

MCUnit ==
    [token  |-> <<Shared, Record({"index", "table"}, "rows", "S", "c"), Record({"table"}, "S", "S", "c")>>,
     more   |-> <<Shared, Method({"action"}, "list", "bc", "c", <<"V">>, "LR")>>,
     calls  |-> <<Method({"call"}, "bal", "bc", "c", <<"V">>, "R"), Record({"index"}, "raw", "Q", "c")>>,
     clash  |-> <<Method({"call"}, "bal2", "bc", "c", << >>, Void)>>,
     older  |-> <<Method({"action"}, "list", "bc", "c", <<"V">>, "u64")>>,
     both   |-> <<Method({"action", "call"}, "a", "bc", "c", <<"A">>, "u64"),
                  Method({"action"}, "ab", "c", "c", << >>, Void),
                  Method({"action"}, "bitset", "bc", "c", <<"X">>, "R"),
                  [Method({"action"}, "do__it", "bc", "c", <<"u64">>, Void) EXCEPT !.name = "doit"]>>,
     notify |-> <<Method({"notify"}, "on", "bc", "c", <<"u64">>, Void),
                  Method({"notify"}, "on", "de", "c", <<"u64">>, Void)>>,
     row    |-> <<Shared, Record({"table"}, "q", "T", "c")>>,
     rows   |-> <<Shared, Record({"index"}, "q", "Q", "c")>>,
     other  |-> <<Method({"action"}, "transfer", "de", "d", <<"u64">>, Void)>>,
     plain  |-> << >>]

MCHashId == [bal |-> 1, bal2 |-> 1, a |-> 2]

Command(tool, inputs, link) == [tool |-> tool, inputs |-> inputs, link |-> link, abigen |-> TRUE]

Idle == Command("none", << >>, FALSE)

UpToTwo(S) == {<<a>> : a \in S} \cup {<<a, b>> : a \in S, b \in S}

MCScenarios ==
    {<<Command("cpp", i, TRUE), Idle, Idle>> : i \in UpToTwo(DOMAIN MCUnit)}
      \cup {<<Command("cpp", <<a>>, FALSE), Command("cpp", <<b>>, FALSE), Command("ld", <<1, 2>>, TRUE)>> :
              a \in DOMAIN MCUnit, b \in DOMAIN MCUnit}
      \cup {<<Command("cc", i, TRUE), Command("cc", k, l), Idle>> :
              i \in UpToTwo({"x", "y"}) \ {<<"x", "x">>, <<"y", "y">>},
              k \in {<<"x">>, <<"y", "x">>}, l \in BOOLEAN}
=============================================================================
