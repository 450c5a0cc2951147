# A TLA+ verification of the Contract Development Toolkit

CDT compiles C++ contracts to WebAssembly. It consists of the libraries a
contract is linked with (`libraries/eosiolib`), a native runtime that runs
contracts as ordinary programs for unit tests (`libraries/native`), and the tools
that generate code and ABI files, compile and link (`tools`). This directory has
TLA+ models of its stateful parts, TLC configurations that check them, and
TLAPS proofs of what matters most.

All paths below are relative to the root of the repository. `PROJECT.json` names,
for every definition that models code, the lines it stands for, and lists the
hazards the properties are aimed at.

## 1. Inventory

### Libraries a contract is linked with

| Component | State | Operations | Hard behaviour | Correct when |
|---|---|---|---|---|
| `multi_index` (`contracts/eosio/multi_index.hpp`) | `_items_vector`, `_next_primary_key`, iterators to host objects kept in the items | `find`, `require_find`, `get`, `begin`, `end`, `lower_bound`, `upper_bound`, `iterator_to`, `++`, `--`, `emplace`, `modify`, `erase`, `available_primary_key`, the same through `index` | a cache in front of the host; host iterators die; table and index are changed by separate host calls; two largest keys are tags; an abort may come in between | cache = table, index exact, no dead iterator used, generated keys unused, behaves as an ordered table |
| host database (`capi/eosio/db.h`; external) | tables, indices, iterators | `db_*_i64`, `db_idx_*` | rollback on abort | given |
| `singleton` | a `multi_index` of one row | `exists`, `get`, `get_or_default`, `get_or_create`, `set`, `remove` | remove and set again within one action | a register |
| default allocator (`simple_malloc.cpp`) | `heap`, `last_ptr`, `next_page` | `malloc`, `calloc`, `realloc`, `free`, `memmove` | 32 bit sums and products wrap; the host may refuse to grow | blocks exist and are disjoint |
| freeing allocator (`malloc.cpp`) | array of heaps, headers in memory | the same | headers survive any sequence of calls; memory runs out | heaps are tiled by blocks, blocks are disjoint and keep their contents |
| `rope` | tree of shared nodes with mutable links | constructors, `append`, `+=`, `at`, `c_str` | a walk without a stack over nodes shared between trees | ropes are independent strings; the walk ends |
| `datastream`, `varint`, `serialize` | position in a buffer | `read`, `write`, `put`, `get`, `skip`, `seekp`, `<<`, `>>` | checks that compare words of different signs, over-long integers | no access out of bounds, unpack inverts pack |
| `asset`, `symbol`, `name`, `time`, `powers` | values | arithmetic, parsing, printing | overflow at the limits | exact or aborts; printing and parsing inverse |
| `string` | pointer, size, capacity | resize, insert, erase, append | literals shared until written | the terminator is where `c_str` says |
| `bitset`, `binary_extension`, `fixed_bytes`, `ignore`, `base64`, `key_utils` | values | conversions | none beyond their data | codecs are inverse |
| `action`, `dispatcher`, `call`, `contract` | action data, return value | unpack, run, return; inline actions; sync calls | status and size of a sync call's answer | one handler per action, return value set once |
| `transaction`, `permission`, `privileged`, `producer_schedule`, `system` | packed structures | argument packing for host calls | saturating sum of weights | valid authorities are accepted |
| `crypto`, `print`, `check`, C API headers | none | host calls | – | – |

### Native runtime and tester

`native/eosio/tester.hpp`, `crt.cpp` and `intrinsics.cpp` keep two jump buffers
and a pointer to one of them, the buffers of captured output, and three flags.
The macros `EOSIO_TEST`, `CHECK_*`, `REQUIRE_*` and `_wrap_main` move by `setjmp`
and `longjmp`. An assert of the contract must reach the expectation that waits
for it, and the exit code must be the verdict on all tests.

### Tools

| Component | State | Hard behaviour | Correct when |
|---|---|---|---|
| read-only check (`tools/include/eosio/codegen.hpp`) | `func_calls`, `indi_func_map`, `read_only_actions` | order of declarations, recursion, function pointers | writing read-only actions are rejected, others accepted, the compiler ends |
| dispatcher generation (`codegen.hpp`) | sets of methods, ids of calls and stub files over the units of a run | methods declared in several units, files given twice | one dispatcher per action, notification and call, in the image that is linked |
| `abigen.hpp`, `gen.hpp` | the ABI under construction and the types seen, over the units of a run | closure over types, addresses that are reused | every type used is defined |
| `abimerge.hpp` | – | order of inputs, conflicting definitions, sections only one ABI has | nothing dispatched is left out; conflicts rejected |
| drivers `cdt-cpp`, `cdt-cc`, `cdt-ld` | temporary files, exit codes | several inputs, a step that fails, concurrent invocations | outputs belong to inputs, nothing is left behind |
| `cdt-abidiff`, `cdt-init`, toolchain tester | – | – | – |

Boost, jsoncons, wabt, meta_refl, softfloat and whereami are third-party code;
libc, libc++ and llvm are submodules.

### How they interact

`multi_index` and `singleton` call the host database; every object caches what it
read and nobody tells it about the others. All of `eosiolib` allocates
through `malloc`, which is one of the two allocators, chosen at link time; both ask
the host for pages. An `eosio::check` that fails ends the action and rolls the
database back. In native builds host functions are replaceable C++ functions
of `intrinsics.cpp`, and `eosio_assert` jumps to the buffer `___env_ptr` points
to. The drivers run the plugins of `codegen.hpp` and `abigen.hpp` on every input,
then the compiler, the linker and the ABI merger.

A contract is sequential. What is hard is not concurrency but long sequences of
legal calls: state cached before a call and used after it, wrap around at the limits
of 32 and 64 bits, aborts between two host calls, several objects
on one table, and jumps out of nested macros. The drivers are different: several of
them run at a time and share the temporary directory, every program they start may fail,
and what one unit leaves in `abigen` and `codegen` is met by the next.

## 2. Modules

| Module | Models | Role |
|---|---|---|
| `SimpleMalloc` | `simple_malloc.cpp`, `memmove` of `memory.cpp` | component |
| `SimpleMallocProofs` | | theorems |
| `ChainDb` | host database (external) | part of `MultiIndex` |
| `MultiIndex` | `multi_index.hpp` | component, over `ChainDb` |
| `OrderedTable` | what a table with an index promises | abstract specification of `MultiIndex` |
| `MultiIndexProofs` | | theorems |
| `Singleton` | `singleton.hpp` over the primary part of `multi_index.hpp` | component |
| `Register` | what a singleton promises | abstract specification of `Singleton` |
| `FreeingMalloc` | `malloc.cpp` | component |
| `FreeingMallocProofs` | | theorems |
| `Rope` | `rope.hpp` | component |
| `Text` | strings | abstract specification of `Rope` |
| `LibraryProofs` | | theorems on `Rope` and `Singleton` |
| `Tester` | `tester.hpp`, `crt.cpp`, asserts of `intrinsics.cpp` | component |
| `TesterVerdict` | the documented verdict on a program of tests | reference for `Tester` |
| `TesterProofs` | | theorems |
| `ReadOnlyCheck` | `process_function` and its callers in `codegen.hpp` | component |
| `ReadOnlyCheckProofs` | | theorems |
| `Datastream` | `datastream.hpp` over a buffer, `varint.hpp` | component |
| `DatastreamProofs` | | theorems |
| `AbiMerge` | `abimerge.hpp` | operators |
| `AbiGen` | `abigen.hpp` | operators, over `AbiMerge` |
| `Drivers` | `cdt-cpp`, `cdt-cc`, `cdt-ld`, the dispatchers of `codegen.hpp` | composes `AbiGen` and `AbiMerge` |
| `DriversProofs` | | theorems, on `AbiMerge` too |
| `MC...` | | instances for TLC |

### SimpleMalloc

`h` is the object `_dsmalloc` with the memory: `last` and `next` are `last_ptr` and
`next_page`, `pages` the count of the host, `ok` is FALSE once `eosio::check` has
aborted. `live` are the blocks the program holds and `copy` is the range of the last
`memmove` in `realloc`. `Dsmalloc` is `operator()`: it aligns, computes the pages to
allocate and asks the host. All of it is computed modulo `Word`, as `size_t` is on
wasm32. `Malloc`, `Calloc`, `Realloc` and `Free` are the C functions; `Instantiate`
is a new action of the chain, which starts with a new memory. With `CMem`, `realloc`
copies by the `memmove` of `memory.cpp`, which allocates a block of its own. `free`
does nothing to the allocator: it ends the program's use of the block.

### ChainDb, MultiIndex, OrderedTable

`ChainDb` is the host: `tbl` and `idx` map primary keys to secondary keys or
`Absent`, `saved` is what an abort falls back to. A host iterator is a
pair of a key and the number of times the key was removed in this action; it
is dead as soon as the row has been removed. `MultiIndex` has for each object
`cache` (`_items_vector`: an item by its host iterator, with its value and its
lazily found index iterator), `nextpk` (`_next_primary_key`) and `cur`, an iterator
the contract holds. One action stands for one member function. `last` tells how
a call ended: "ok", or the abort of a `check`, of the host, or of a dead iterator.
`EndAction` commits, and the next action begins with new objects, on a table of
its own contract or of another one (`own`). One secondary index stands for all of
them, as the code treats them one after another in the same way. A row is its two
keys; the payload and its serialization are left out.

`OrderedTable` has the table, the index and the cursor and no cache; it says what
each call returns.

### Singleton, Register

`row` is the row of the host, `seen` the items each object has loaded, by the
removals that came before. `Register` is set, deleted, created and read. The definitions are
`SingletonInit`, `SingletonNext` and `SingletonSpec`, as `LibraryProofs` extends `Rope`, too.

### FreeingMalloc

`m` is the `memory_manager` with the memory: cells of the size of a `size_t` that
hold a header or data of the program. `Malloc` is `memory_manager::malloc` with `malloc` of
the active heap, `next_active_heap` and `sbrk`; `Realloc` is
`realloc_in_place` with `merge_contiguous_if_available`, then malloc, copy and free. When the host
refuses to grow, `sbrk` returns `(void*)-1`, and malloc goes on with that address and traps:
the comparison of `malloc.cpp:96` with a 64 bit -1 is false for a 32 bit pointer. In native builds
`_grow_memory` (`crt.cpp:38`) asserts or counts on and never returns -1. So no build comes to the branch
behind that comparison, nor to `malloc_from_freed`, and the model has neither. `MemBlock` is 2 on
wasm32, where a header takes half of the alignment; native builds are not modelled. `Tame` restricts the program, not the allocator: with it there is no call of
`realloc` that `CrossesEnd`, that is, lets a block that is not the last of its heap grow
past what was carved off. Requests are below 2^31 bytes.

### Rope, Text

`node` is the memory: leaves and concatenations with `left`, `right` and the mutable
`temp`. `walk` has the locals of `c_str` and every iteration of its loop is an action
(`Descend`, `CopyLeaf`, `TurnRight`, `Ascend`, `Return`), so that what earlier walks left in shared
nodes is met. Note that a concatenation has the later text on its left. `Chars` are the
characters; `Visit` is the position the loop of `at` comes to.

### Tester, TesterVerdict

A program is a sequence of tests, asserts and `silence_output`; `stack` holds the active calls, each
with the statements left and, as `expect_assert` does, what `___disable_output` was when it began. `setjmp` remembers a position of the stack and `longjmp`
cuts the stack back to it. `Statements` are all statements the programs may be
made of.

The verdict of `TesterVerdict` is computed from the program text alone. `Outcome` of a statement
is the assert that leaves it and whether a CHECK in it failed, computed from the outcome of the code inside it;
`Listed` does it for a sequence, which runs up to its first assert. `Levels` tells how deep expectations
are nested. `Depth` measures how deep a statement is: `DepthAssumption` says that texts are finite, and
`FormAssumption` what statements consist of, that `main()` has no macros of its own and that a test is not
inside a test.

### ReadOnlyCheck

A unit is a sequence of declarations with bodies. `Functions` are its `FunctionDecl`s, the keys of
`func_calls`: a function that is declared above and defined below, or a method defined outside its
class, has two, of which the one that is the `definition` has the body (`codegen.hpp:504`), and a call names
the one it was resolved to. A statement is a call, a
declaration with initialiser, an assignment, an indirect call, or one the search does
not look into (a call nested in an `if` or in an expression). `calls` is `func_calls`
with the difference between no entry and an empty vector, which
decides about errors. `Writing`, `WritingInDeed`, `Astray` and `Suspected`, what the search is measured by, are smallest sets
of functions that are closed under calls: `Writing` has those that lead to a writer by calls the search can follow,
`WritingInDeed` those that may write when they run, whatever kind of call it is and whichever declaration has the body.
Whether a definition outside the class carries the attributes of the declaration is decided by the compiler
(a submodule); the model has them where `Actions` says so. `MaxDepth` is the stack of the compiler.

### Datastream

Pointers and sizes are words that wrap at `Mem` = 2 * `Half`, as on wasm32; `pos` is `_pos`,
and `_start` and `_end` are the constants `Start` and `End`. An integer is the set of its bits
that are 1, so that shifts move bits, bits shifted out are lost, and a shift by the width or
more, which C++ leaves undefined, gives any result. Every member function is an action that
either does what it does or ends the transaction. `last` remembers what the last
one touched; a stream that touched memory which is not its own is not followed any further.
Bytes around the buffer can be read and have contents of their own. `UnpackBytes` is the
`operator>>` of a vector of single bytes and of a string.

### AbiMerge, AbiGen, Drivers

An ABI maps the names of its sections to sets of entries, each with an id and a definition.
`AbiMerge` has the merger as it is: which sections it goes through is decided by the first
ABI alone, and what counts as the same definition by a comparison for each section.
`AbiGen` folds the annotated declarations of a unit into the object `abigen`, which the
driver keeps for all units; `ToJson` is `to_json` with the searches that decide which
structs and types are kept; structs with a name in `Builtins` or `Reserved` (two underscores) never are. `Adds` is what `add_type` and the functions it calls insert, as one
recursive function. A C++ type is a member of `Types`, which may refer to each other
and to themselves.

`Drivers` has jobs that run at the same time on one file system `files`. A job of `cdt-cpp`
goes through `Abigen`, `Codegen` and `Compile` for each input, then `Link` and `Clean`; `cdt-cc`
through `Compile` only; `cdt-ld` starts when the objects it is given are there or not to be
expected. Every program may fail (`AbigenError`, `bad` in `Codegen`, `CompileError`,
`LinkError`), which `broke` remembers so that other failures can be told from these. Files
made by `createTemporaryFile` have a name of their own; the object of `cdt-cc` has a name made
of the input only. `tmp_files` has the stubs by input. An object knows its source and an image those of its objects, the
dispatchers and the ABI, and linking puts them together. `reused` are types of a unit that clang allocates where a type of an
earlier unit was; `stale` are the jobs where this happened.

## 3. Runs

| Run | States | Shows |
|---|---|---|
| `simple_malloc` | 512,818 | page counts of allocator and host agree; blocks lie in the memory and are disjoint although sums and products wrap; `realloc` reads inside the memory; no page is reserved early |
| `multi_index` | 75,182 | with one object: the cache is the table, the index is exact, no dead iterator reaches the host, generated keys are unused, lookups are exact, and the whole implements `OrderedTable` |
| `multi_index_shared` | 145,924 | with two objects on one table: rows and entries keep the same keys, and only a step of an object with an outdated item makes their values differ |
| `singleton` | 127 | one singleton object implements `Register` |
| `freeing_malloc` | 20,187 | with `realloc`, for tame programs: heaps are tiled by their blocks, blocks are disjoint and keep their contents, until the memory runs out |
| `rope` | 137,784 | two ropes that share nodes in all ways are two independent strings; a walk fills its buffer from the end without a gap, and ends |
| `tester` | 107,410 | the exit code is the verdict; with nested expectations it may be a failure too many, never one too few; asserts go to a running expectation; silence changes where the program asks for it, after a failed `REQUIRE`, and where a `CHECK_ASSERT` without an assert puts back what was before; the program ends |
| `read_only` | 367,640 | every read-only action that leads to a writing host function by statements with a call of a definition, or that sets a pointer to one and calls it, is reported; an action that writes and is not reported comes to a declaration whose definition is elsewhere, a call within a statement or one through a pointer; an action that is reported may write, or is called by a function, or calls a pointer to one that is; the search ends unless functions are recursive |
| `drivers` | 22,240 | images are linked from the job's own sources, each once; every action, call and notification handler has its dispatcher and, as far as it should, its entry in the ABI; every dispatched action is described; jobs that fail although all programs work have one of the reasons the property lists, and only jobs that fail leave temporary files; the ABI describes the parameters of actions and calls and the types of fields, bases, aliases, variants, single results of actions and annotated rows, unless their names are reserved or a type lay at a reused address |
| `datastream` | 150,069 | no operation uses memory outside the buffer except from positions and with sizes the property names; integers are read back as they were written and use as few bytes as can be read as them; bytes that are read as an integer are those it would be written as, up to padding and excess bits |

Several of these properties list exceptions, each of which TLC reaches; leaving one out of
the formula gives a counterexample. They are what the code does, some of them defects, and section 5 names
them. Such a property does not flag the defect it excepts: it shows that the list is complete, that nothing else goes wrong in
the same way. The notes of the hazards in `PROJECT.json` say where that is so.

Two runs show where the code differs from what the repository says of it:

* `freeing_malloc_overlap`: `malloc a, malloc b, free b, realloc a` to more than
  both, `malloc c` gives blocks a and c that overlap. `merge_contiguous`
  (`malloc.cpp:472`) runs to the end of the heap and takes untouched zeros for free
  blocks; `_offset` is not moved. `malloc_tests.cpp:13`: "make sure that malloc
  allocates non-overlapping writable memory". The `freeing_malloc` run shows that without
  such a call `realloc` does no harm.
* `freeing_malloc_trap`: on wasm32 `sbrk`'s failure is not recognised
  (`malloc.cpp:96`, a comparison of a 32 bit address with a 64 bit -1), so that
  freed blocks are never used; the comments of lines 97 and 291 describe the path
  that is not taken.

### Bounds

* `simple_malloc`: a page of 12 bytes is three alignments of 4, so that blocks end at,
  before and behind page boundaries; `Word` = 72 is six pages, four of which the host
  grants, so that there are addresses no memory backs; sizes are zero, one, one
  alignment, one less than a page, a page, more than two pages, and two less than the
  word, whose sums and products wrap. The proofs remove all of these bounds.
* `multi_index`: three keys, two neighbours and `KeyMax`, give every order of a row,
  its predecessor and its successor, the end, and both tags; two secondary keys give
  ties and changes. `MaxGen` = 1: each key may be erased and stored again within an
  action. `multi_index_shared` has one key, as its properties speak of one row at a
  time; the two objects are symmetric.
* `singleton`: three values, three removals per action.
* `freeing_malloc`: pages of four units, an initial heap of six, three pages at the start and at most five; requests
  of 0, 1 and 5 units and reallocs to 0, 1, 3 and 5. A request of 5 takes 6 with its header, more than a page, so that
  the memory grows by one page and by two at once; a heap is extended, left for the next one with and
  without a rest to close, merges have a rest or none, and the memory runs out.
* `rope`: two ropes and seven nodes allow an append of a rope to itself, to another
  and back, with walks between them.
* `tester`: two tests, the first with up to two statements or one with three levels of
  expectations, with silence and asserts in `main()` before, between and behind. State that outlives a test is three flags and two buffers, and two tests
  show whether it is reset.
* `read_only`: two methods, an action, a pointer and a declaration without body, in three orders; bodies
  of up to two statements. In two more layouts, with bodies of one statement for one of the methods, the other method is
  declared above and defined below, or the action is defined outside its class. Recursion through two functions is included;
  `MaxDepth` = 6 is more than a search without recursion needs.
* `drivers`: `cdt-cpp` gets one or two of eleven files, the same twice included: what a unit
  leaves behind is met by the next one, and a third meets nothing new. The files
  share a method, have calls with one id, two methods whose names run together to the same
  key, two handlers of one notification, a table and a `multi_index` of one name with different
  rows, another contract's action, an action with the name of a built-in type, a method with two underscores
  in its name, and nothing at all. The
  fourteen types have an alias of a base class, a list of lists, a pair, a variant and a
  struct that refers to itself, and one a struct with a reserved name. `MaxReuse` = 1: one type per unit at a reused address. Objects
  compiled apart are linked in the order given. Two runs of `cdt-cc` have one or two files, with
  names in common or not.
* `datastream`: three bytes at address 2 of 16, integers of 3 bits, 2 to a byte. Sizes are all
  words, so that every wrap and every change of sign happens; integers take one or
  two bytes; three bytes in a row are an integer with too many bits. The bound is in the size
  of the words only, and `StreamSafety` is proved without it. Eight as the modulus of `by` lets
  the undefined shift happen before the counter wraps, as 256 does for 32 bits.

### Fairness

* `Rope`: `WF_vars(Step)`, for the iterations of the loop in `c_str`: a call that runs
  goes on. Nothing is assumed of the program's other calls.
* `Tester` and `ReadOnlyCheck`: `WF_vars(Next)`: each is one thread that always has a next
  step until it ends; the process runs. Programs that assert in `main()` behind a test are
  excluded from `Terminates`: they do run for ever, see section 5. `SearchEnds` allows an
  overflow of the stack for recursive functions.

Safety runs need no fairness. `CHECK_DEADLOCK FALSE` is used for `tester`, `read_only` and
`datastream`: program and search come to an end, and a failed check ends the
transaction; elsewhere a deadlock is an error. `Drivers` has the step `Rest` for jobs that are
over, so that a job that cannot go on is a deadlock.

## 4. Proofs

### SimpleMallocProofs

For every page size, alignment, word, memory limit and set of sizes with
`SizesAssumption` (the alignment divides the page, the page divides the word) and
`MemoryAssumption` (one page more than the limit is still below the word: on chain
33 MiB against 4 GiB):

* `TypeCorrect`: the state keeps its type.
* `MemorySafety`: the page counts agree, blocks lie in the memory, are disjoint,
  aligned and not null; `PagesCounted` and `BlocksExist` are its parts `Backed` and
  `BlocksInMemory`.
* `ReallocReads`: `realloc` copies inside the memory although it copies the length of the
  new block from the old one.
* `NoWaste`: less than a page, or what the instance started with, is reserved and unused.

The blocks' properties are not inductive: that a new block is disjoint from the old ones
follows from all of them lying below `last_ptr`, and that it lies in the memory
from `last_ptr` lying below the pages the host has granted. `IInv` is

    TypeOK /\ HeapInv(h) /\ BlocksInv /\ BlocksDisjoint /\ CopyInv

where `HeapInv` has the two page counts equal, `last` aligned, below the memory's end and
at most the slack away from it; `BlocksInv` has every block end at or below `last`. The
centre is `DsmallocStep`: an `operator()` that does not abort yields a
block directly at the old `last` that ends below the new one. If the sum wraps,
the page arithmetic asks for more pages than the host can grant, so the call aborts.
The lemmas on division (`DivMod`, `AlignUpBelow`, ...) carry that arithmetic.

### MultiIndexProofs

For every set of keys below `KeyMax`, every set of secondary keys and every `MaxGen`
(`KeysAssumption`, and distinct model values):

* `TypeCorrect` and `RowsAndEntries`, for any number of objects on the table: a row
  exists exactly if its index entry does. The invariant `GInv` adds the same
  fact about what an abort falls back to.
* `Coherence`, `IndexExact`, `IteratorsValid` and `FreshKeys`, for one object per table
  (`SingleObject`): items hold current rows and the index equals the table; no call uses
  a dead iterator; the remembered next key is above every key in use. They need one
  another: an item's index iterator is valid because the item is
  current, `modify` keeps the index exact because the item it compares with is current,
  an item is current because erase forgets it. `SInv` is their conjunction
  with `GInv`. Both inductions
  have lemmas for the kinds of steps (a read, an erase, an abort, fresh objects) and one
  proof step per member function in `GReading`, `GWriting`, `SReading` and `SWriting`.
* `TornOnlyByStaleItems`, for any number of objects: when a step makes a row and its index entry
  differ, some object had an item of the row that differed from the entry before. This is the
  exact price of several objects on a table; it needs `GInv` only.
* `LookupsAreExact`, for one object: what `find`, the bounds and the searches of the index
  answer is what the table and the index say, the keys that are tags included.
* `TableImplemented`, for one object (`Insts = {one}`): the refinement of `OrderedTable`. Every
  member function is a step of the abstract table or leaves it alone, under `SInv`; `TReading` and
  `TWriting` have one step per member function.

### LibraryProofs

`Singleton`, for every set of values and every bound on the removals, with one object per table:
`LoadedIsRow` (what the object has loaded for the current row is the row; items of earlier
rows are gone) is the inductive invariant, and `SingletonIsRegister` the refinement of `Register`
that follows from it, step by step: a `get` that is answered from the object's own item is
right because the item is current.

`Rope`, for every set of characters, any number of ropes and nodes:

* `RopesAreStrings`: the refinement of `Text`. However nodes are shared, an append changes one rope, `at` gives the
  character at its position, and `c_str` the text.
* `TailIsWritten`: while `c_str` walks, the end of its buffer has the end of the text, without a gap.

The text of a node is a function that recurses into both halves. `TextDefined` and `VisitDefined`
show that such functions exist: nodes point to older nodes only (`Tree`), so that a node with none
would lead to a least one, which there is not. The invariant `RopeInv` has the ropes on such a tree with their
sizes (`RopesStand`) and, for a walk under way (`Underway`), the nodes from the root to where it is: `Way` says that their `temp`
links lead back to the root, whatever earlier walks left in other nodes, and where in the text each
of them begins; `Written`, that the buffer has the text from there on.
`VisitFinds` is the argument for `at`.

### FreeingMallocProofs

For every size of a page, of the initial heap and of the memory, every number of heaps from two on, both
widths of a header and all sets of sizes (`UnitsAssumption`: the initial heap lies in the memory the
program starts with and ends before it does; `DataAssumption`: data is told from a header), and for all
sequences of calls of programs that are `Tame`:

* `HeadersDivideHeaps`: walking from header to header one comes by the end of what was carved off each heap
  (`HeapTiled`), and the headers marked as allocated are those of the blocks the program holds.
* `BlocksNeverOverlap` and `DataSurvives`: blocks are disjoint, and no header is written into one.
`Tame` is what the run `freeing_malloc_overlap` shows to be necessary.

None of this is inductive by itself. The invariant `Inv` says that there is a set of headers for each heap
(`Owns`, `Sound`) such that

* `Layout`: the manager is in one of three phases. No heap is set up, or the initial one is active, or
  that one is full and the one that grows is active (`Fresh`, `InFirst`, `InSecond`). This is where it shows that
  there are never more than two heaps and that they do not overlap;
* `Divided`: the headers tile each heap up to its offset;
* `Holds`: the allocated ones are those of the program's blocks, which have what it wrote.

The lemmas go from the loops to the calls. `LoopDefined` and `LoopInduction` are about any loop with a rank
that grows and is bounded: the function the model defines by recursion exists, and what holds where the
loop stops holds where it began. `SpanRound` applies it to the loop of
`merge_contiguous`, and `WalkTiles` to the walk of `HeapTiled` itself. `Recut` is the step
they have in common: a block and the free ones behind it become a block and a rest, and the
heap is tiled again. `OneHeap` extends what happens to one heap to all. `Moves` then is what every
step of the manager is shown to be (`PreparedMoves`, `NextMoves`, `CleanupMoves`, `CarveMoves`, `ReallocMoves`):
allocated blocks other than the one at hand keep their header and their cells, and none is added.

### TesterProofs

For every set of programs (`ProgramsAssumption`, `DepthAssumption`, `FormAssumption`: what a text in C++
that uses the macros is), of any length and any depth of nesting:

* `JumpsToLiveFrames`: when `___env_ptr` leads to `test_env`, the frame that called `setjmp` is on
  the stack and is the innermost expectation that has not returned. `JumpInv` adds that `main()` is at the bottom
  and that only expectations are left by a jump.
* `SilenceKept`: an action property; no step but those named begins or ends the silence, and a `CHECK_ASSERT` that saw no
  assert always puts back what was before its function ran.
* `VerdictIsExact`: what a program returns is the verdict by the documentation of the macros, or, with nested
  expectations, a failure too many.
* `AssertsFindExpectation`: while an expectation runs, asserts go to it; only nested ones may miss theirs.

The verdict is defined by recursion on statements, the program runs on a stack with two jump buffers. The proof goes
in four steps.

1. `Outcome` and `Levels` are what their equations say (`OutcomeUnfolds`, `LevelsUnfold`). `SolutionsAgree` and
   `SolutionExists` show it for any recursion from a statement to the statements in it: where two solutions differ first in `Depth`
   they cannot differ, and solutions up to each depth are put together.
2. `View(s, e, a, i)` is what will leave the `i`-th call of a stack: the outcome of what is left of its
   code, after what the call above it comes to. `Carries` says that the flag `___has_failed`, or a failure that is
   still to come in some call, or an assert that will leave the test, is the verdict of the test. A statement moves a failure from what is
   to come to the flag (`StepCarries`), a call adds what its function comes to (`EnterCarries`), a return takes it away
   (`LeaveCarries`); an assert passes functions that only print (`AssertPasses`), is caught by the innermost
   expectation (`CatchCarries`) or fails the test (`TestAborts`).
3. `Sound` and `Nests` tell which calls may be on the stack: without nested expectations there is at most one.
   `Errs` says that a jump to `test_env` finds `std_err` empty, so that the message compared is the one of this assert.
4. `At(n)` is the place of `main()` and where `env` leads; the flags agree with the tests before it, or `main()` is
   in the endless loop of an assert behind a test (`Doomed`). `Agree` is "reports, perhaps too much if expectations are nested".

`VerdictInv` is the conjunction. There is a lemma per action (`StatementGood`, `EndGood`, `NoAssertGood`, `CaughtGood`, `PrintedGood`,
`ReturnGood`, `MainGood`); TLC checked it on the `tester` run before it was proved.

### ReadOnlyCheckProofs

For every set of functions and every unit, with `UnitsAssumption`: bodies are sequences of statements, host
functions and declarations that are not the definition have no body, actions are declared, and the host functions a declaration leads
to are declared before it, which C++ demands of every call.

* `CallsReported`: no call that was resolved to a definition is missed. The search looks at a function only once and stops at the first
  callee that writes, so the invariant has to say what an entry is worth while the search is
  still under way. `Shape` ties the stack of `process_function` to the bodies; `Judged` says that a
  function whose visit is over is known when it leads to a writer, and what of a function on
  the stack has been passed without finding one; `Reported` that a known action in a visited
  declaration is reported.
* `RedirectionsReported`: the same for pointers set and called at once; `Redirected` follows
  `indi_func_map` along the body.
* `OnlyLostCallsMissed`: what is missed has a reason. The functions in `Writing` or `Astray` are closed under calls of
  every kind, made from whichever declaration has the body (`WritingOrAstray`), so that they include `WritingInDeed`;
  `CallsReported` does the rest.
* `OnlyExplainedAlarms`: `Explained` says what it takes to get an entry: "some" for functions that may
  write, "empty" for those that are called, a pointer for one of its values that has an entry.

The sets `Writing`, `Astray` and `Suspected` are smallest closed sets, so that what is in them is shown by giving
a closed set; no recursion is involved.

### DatastreamProofs

For every word size, buffer, width of integers, bits per byte and contents (`Constants`: the buffer
ends inside the address space and is shorter than half of it, and the type of `by` can hold the
width, as a `uint8_t` holds 32):

* `StreamSafety`: memory outside the buffer is used only in the cases `EscapesExplained` names. The
  inductive invariant `Safe` is `TypeOK /\ EscapesExplained`; what has to be known of earlier
  steps is only that the position is a word. The work is in the arithmetic: lemmas on the
  wrapping sum and difference say for each check which addresses it lets through, and one
  step per operation puts them together. The proof is where the last exception came to
  light: so far behind the end that the difference of the pointers is positive again
  writing passes its check, too.
* `IntegersRoundTrip`: an integer that was packed is read back as it was, and no fewer bytes would
  do. `DecodeEncode` is the heart: every bit of the integer has exactly one place in the bytes
  (`DigitsApart`, `BitPlace`), so decoding what `Encode` writes has one outcome, the integer. `ZigZagInverse` does the same
  for the sign, and `ShorterIsOther` shows that a prefix is read as something else.
* `EncodingsUnique`: bytes that are read as an integer are those it is written as, up to padding, excess bits
  and shifts that are undefined (`EncodeDecode`).

### DriversProofs

For any two ABIs: `MergeKeepsIds` (the names of a section are those of both, in either
order), `MergeKeepsUnique`, `MergeRepresents` (all of the first is kept, and each entry of the
second is there or was taken for one that is), `MergeAbsorbs` (an ABI that contains the
other stays as it is) and `CallsOfFirstDecide`. `MergeAbsorbs` is why cdt-cpp works although
it links its objects in reverse: the ABI of the last input contains those of all before.

For any number of jobs with any inputs, in every interleaving and with failures anywhere
(`ScenariosAssumption`: a command has a tool and names at least one input, without which the
drivers end at once; the inputs of `cdt-cpp` are files, those of `cdt-ld` outputs of other
jobs. `UnitAssumption`: a declaration is a method or what makes a table, a unit is a finite
list of them. `ClausesAssumption`: ricardian clauses have ids of their own):

* `TemporariesRemoved`: when all jobs are over, a temporary file that is left belongs to one that
  failed. The invariant `IInv` has for each job where it may be and what is in `outputs` and
  `tmp_files` there (`JobShape`), and an owner for each file (`FilesOwned`): the output of a job, a stub that a job has
  yet to compile or left when it failed, or an object it has yet to remove. The stub clang
  reads is the current one because those of earlier inputs have no owner any more (`StubIsOwned`).
* `OwnSourcesLinked`: an image has the sources of the job's own inputs, last one first, unless another
  `cdt-cc` compiles a file of the same name. `SourcesOwn` adds the contents to `IInv`: stubs, objects and images
  have the sources they should. `Untouched` is the argument about interleavings: the names of the files
  of two jobs are different except for the objects of `cdt-cc`.
* `ImagesComplete`: what `cdt-cpp` links has everything its inputs declare. `CppInv` says what the
  parts of a job have made of the declarations of the inputs so far: abigen has collected them
  (`Collected`), the code generator has a key for each (`Coded`), every object has an ABI of the
  inputs up to its own (`ObjOf`), and what has a key has its dispatcher in one of the objects or in
  the stub about to be compiled (`Served`). Linking keeps this although the merger lets the first ABI
  decide, because the first object is that of the last input (`ImageIsFor`).
* `DispatchersDescribed`: `OutInv` adds that every output is `Good`, its ABI names what it
  dispatches, and that objects of `cdt-cc` carry neither dispatchers nor an ABI. `ImageGood` shows that
  linking good objects gives a good image for any number of them.
* `FailuresHaveReasons`: `EndInv` keeps the reason of every job that failed or is about to: it stays
  true, as the inputs of a `cdt-ld` that has started take no more steps. `WhyDisagree` goes back from two ABIs that
  cannot be merged to the declarations they come from.

The walks over declarations and objects (`Traversed`, for abigen and the code generator, and
`LinkedAbi`) are recursive functions on an interval. What they keep is shown by `UpToN`, induction stated for a set instead
of an operator, which rests on the least member of a set of naturals (`Smallest`).

The proof of `FailuresHaveReasons` changed the property: `WhyDisagree` failed on an annotated struct and a
`multi_index` of one name with different rows. Within a file `to_json` leaves the struct out; when
the `multi_index` comes in a later file, the ABIs of the two disagree and linking
fails. The excuse is now in `CppExcuse`, and the files `row` and `rows` of `MCDrivers` reach it. In the same way
`DispatchedIsDescribed` now excepts only what the merger really drops, and `ImageComplete` says that a method
that is both an action and a handler is dispatched as an action.

### Only model-checked

* `FreeingMalloc` for programs that are not `Tame`.
* `TypesDescribed` of `Drivers`: it is about the closure `Adds` over types that refer to each other, a
  recursion that is not along an interval.
* Liveness: `WalkEnds`, `Terminates`, `SearchEnds`.

No module with a theorem extends one with a RECURSIVE operator.

## 5. Assumptions and observations

* One object per table and action. With two `multi_index` objects (`Insts = {a, b}` in
  `MCMultiIndex.cfg`) `IndexMatchesTable` and `AvailableKeyUnused` fail: an object
  decides from its cached item whether the index changes, and remembers its next key. With
  two `singleton` objects `ImplementsRegister` fails: `get` returns a value that is no longer
  stored. Nothing in the code prevents it.
* `realloc` of the freeing allocator to a smaller size keeps the whole block.
* `malloc_from_freed` of the freeing allocator, and with it every use of freed blocks other than by a `realloc` of the block before
  them, is reached in no build.
* An assert in `main()` behind an `EOSIO_TEST` jumps back into the `else` branch of that
  macro, and `main()` comes to the same assert again.
* The inner of two nested `CHECK_ASSERT` resets `___env_ptr`, and the outer one misses its
  assert.
* A `CHECK_ASSERT` around a function that calls `silence_output` and does not assert undoes the call: it puts back
  what it read before (`tester.hpp:26`, `34`).
* The read-only check sees calls that are statements of a body and were resolved to a definition. It does not
  see calls within expressions and `if`, calls that were resolved to an earlier declaration of a function that is defined
  below, which is usual for helpers and for methods that are defined outside their class (`codegen.hpp:504`), and pointers to functions that are
  declared later. An action that is defined outside its class is searched only as that definition. The documentation
  (`docs/07_best-practices/08_abi/01_abi-code-generator-attributes-explained.md:116`) says that the tools "will generate an error and
  terminate compilation if an action tagged read-only attempts to call insert/update (write) functions". A function that calls itself in
  a statement overflows the compiler's stack. It rejects a read-only action that writes nothing
  when another function calls it: `func_calls[fd]` (`codegen.hpp:519`) inserts an empty vector
  and any entry is an error (`codegen.hpp:605`), while that documentation
  speaks of actions that write.
* `datastream::read` compares unsigned words and `write` signed ones. After a `skip` or `seekp`
  behind the end `read` passes its check with any size up to the end of the address space;
  before the start all checks pass, as they look at the end only. `write` of 2^31 bytes and more passes everywhere.
  `seekp` returns true for an offset that wraps to before the start, though its comment
  says "true if p is within the range". Unpacking cannot get there by itself, whatever the
  data: `EscapesExplained` has no exception for it.
* Integers have more than one encoding: zeros may be appended, bits above the width are dropped,
  and from the sixth byte on (the third in the model) the shift is undefined.
* A vector or string is resized to what the data claim before the size is checked.
* Two runs of `cdt-cc` on files of one name share the object in the temporary directory: each may
  link the other's code or fail as the object is gone.
* `cdt-cpp` fails on a file that is given twice (the stub of the first visit is gone), on
  a contract with notification handlers only when it has a second file, and when a file
  without calls comes before the first one with calls. In the last case merging the ABIs
  fails, as the merger finds `calls` in the first ABI only. It also fails when a file with an annotated
  struct comes before one with a `multi_index` of that name and other rows.
* `cdt-ld` drops the calls of an object from the ABI when the first object has none.
* Two methods such as `a` of class `bc` and `ab` of class `c` have one key (`codegen.hpp:378`), and
  the second one gets no dispatcher.
* `to_json` leaves out structs that only a call returns, that an action returns in a list, or that
  are rows of a table without annotation; the guide to ABI files
  (`docs/07_best-practices/08_abi/00_understanding-abi-files.md:66`) says that structs
  exposed to the ABI need to be described.
* It also leaves out, before it looks for a use, structs with two underscores in their name (`abigen.hpp:708`) and the parameters of a method
  with the name of a built-in type, such as an action `name` or `asset` (`abigen.hpp:705`). The ABI mentions both.
* The merger counts two definitions of a variant as one when the first has a part of the alternatives of the second
  (`abimerge.hpp:95`), and compares structs without the order of their fields (line 56): a conflict between objects may be
  found in one order only, or not at all. `MergeRepresents` is stated up to that comparison.
* A type at the address of an earlier unit's type is taken for known and left out of the ABI;
  `TypesDescribed` leaves such jobs out. It takes several inputs in one run.
* When a job fails, the stub and the objects of the inputs it had come to stay in the temporary
  directory, unless linking was what failed.
* Requests of 2^31 bytes and more of the freeing allocator, the counter of pages
  of the native `_grow_memory` (`crt.cpp:38`, one page whatever it is asked for) are known
  weak points that no property is about.

## 6. Not modelled

Left out for good: the crypto wrappers, printing and C API headers (host calls without
state); compiler builtins (forwarded to softfloat); `cdt-init` and the toolchain
tester (file templates); clang's AST walks; wasm-ld and eosio-pp beyond what the drivers see of
them; third-party code, which is most of the lines of the repository. Within modelled parts:
row serialization and payers of `multi_index`, requests of 2^31 bytes and more, native builds and the code behind a recognised failure of `sbrk` in the
freeing allocator, formatting in the tester, `datastream<size_t>` and the packing of
other types element by element, options, preprocessing and native builds of the drivers, the
text of the generated dispatchers, actions declared as structs, ricardian contracts.

`asset`, `symbol`, `name`, `time`, `string`, `bitset`, `base64` and the weights of
`block_signing_authority` are values without state; what could go wrong in them is arithmetic
that unit tests of the limits reach.

## 7. Plan

Done: 1 allocators, 2 `multi_index` with its host and abstraction, 3 `singleton`, `rope`,
tester, read-only check, 4 `Datastream`, 5 `AbiMerge`, `AbiGen` and `Drivers`, and the proofs of
section 4. Left, in this order:

1. A theorem for `TypesDescribed` of `Drivers`, by induction on the types not seen yet.
2. `Values`: `asset`, `symbol` and `name` as operators on bounded integers against reference
   definitions, with the widths of the code.
3. `String`: capacity and shared literals. Page count of the native `_grow_memory`.
