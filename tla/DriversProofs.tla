--------------------------- MODULE DriversProofs ----------------------------
(***************************************************************************)
(* What AbiMerge keeps and loses.  Whatever the jobs of Drivers are and    *)
(* however they run side by side:                                          *)
(*   - only those that fail leave temporary files, and cdt-cpp and cdt-cc  *)
(*     link the objects of their own sources;                              *)
(*   - cdt-cpp links a dispatcher and an entry of the ABI for everything   *)
(*     its inputs declare, and what an image dispatches is in its ABI;     *)
(*   - a job fails only for a reason that can be told.                     *)
(* The invariants are IInv (places and files), SourcesOwn, CppInv (what    *)
(* abigen, the code generator and the objects of cdt-cpp have), OutInv     *)
(* (the outputs) and EndInv (jobs that are over), each inductive given     *)
(* those before it.                                                        *)
(***************************************************************************)
EXTENDS Drivers, SequenceTheorems, NaturalsInduction, WellFoundedInduction, TLAPS

-----------------------------------------------------------------------------
(* AbiMerge: what merging two ABIs of any size keeps and loses.            *)

\* Every entry of a section can be told by its id.
UniqueIds(S) == \A x, y \in S : x.id = y.id => x = y

\* The entries y that something in S stands for.
Represented(s, y, S) == \E x \in S : x.id = y.id /\ IsSame(s, x, y)

LEMMA SameIsReflexive ==
    ASSUME NEW s, NEW x
    PROVE  IsSame(s, x, x)
BY DEF IsSame

LEMMA AddIds ==
    ASSUME NEW A, NEW B
    PROVE  Ids(AddObjectToArray(A, B)) = Ids(A) \cup Ids(B)
BY DEF AddObjectToArray, Ids

LEMMA AddUnique ==
    ASSUME NEW A, NEW B, UniqueIds(A), UniqueIds(B)
    PROVE  UniqueIds(AddObjectToArray(A, B))
BY DEF AddObjectToArray, Ids, UniqueIds

\* The ids of the result do not depend on which of the ABIs came first, as
\* long as their sections are the same: merging loses and invents no name.
THEOREM MergeKeepsIds ==
    ASSUME NEW a, NEW b, NEW s \in Merges(a), s \in Merges(b)
    PROVE  /\ Ids(Merge(a, b).sec[s]) = Ids(a.sec[s]) \cup Ids(b.sec[s])
           /\ Ids(Merge(a, b).sec[s]) = Ids(Merge(b, a).sec[s])
<1>1. /\ Merge(a, b).sec[s] = AddObjectToArray(a.sec[s], b.sec[s])
      /\ Merge(b, a).sec[s] = AddObjectToArray(b.sec[s], a.sec[s])
  BY DEF Merge
<1>2. /\ Ids(AddObjectToArray(a.sec[s], b.sec[s])) = Ids(a.sec[s]) \cup Ids(b.sec[s])
      /\ Ids(AddObjectToArray(b.sec[s], a.sec[s])) = Ids(b.sec[s]) \cup Ids(a.sec[s])
  BY AddIds
<1>3. Ids(a.sec[s]) \cup Ids(b.sec[s]) = Ids(b.sec[s]) \cup Ids(a.sec[s])
  OBVIOUS
<1> QED
  BY <1>1, <1>2, <1>3

\* The names in a section stay distinct.
THEOREM MergeKeepsUnique ==
    ASSUME NEW a, NEW b, NEW s \in Merges(a),
           UniqueIds(a.sec[s]), UniqueIds(b.sec[s])
    PROVE  UniqueIds(Merge(a, b).sec[s])
BY AddUnique DEF Merge

\* When merge does not throw, what it leaves out of the second ABI is in the
\* first one, as far as the comparison of entries goes, and all of the first
\* one is kept.
THEOREM MergeRepresents ==
    ASSUME NEW a, NEW b, ~Throws(a, b), NEW s \in Merges(a)
    PROVE  /\ a.sec[s] \subseteq Merge(a, b).sec[s]
           /\ \A y \in b.sec[s] : Represented(s, y, Merge(a, b).sec[s])
<1>1. Merge(a, b).sec[s] = AddObjectToArray(a.sec[s], b.sec[s])
  BY DEF Merge
<1>2. ~Clash(s, a.sec[s], b.sec[s])
  BY DEF Throws
<1>3. ASSUME NEW y \in b.sec[s]
      PROVE  Represented(s, y, Merge(a, b).sec[s])
  <2>1. CASE y.id \in Ids(a.sec[s])
    <3>1. PICK x \in a.sec[s] : x.id = y.id
      BY <2>1 DEF Ids
    <3> QED
      BY <1>1, <1>2, <3>1 DEF Clash, Represented, AddObjectToArray
  <2>2. CASE y.id \notin Ids(a.sec[s])
    <3>1. y \in Merge(a, b).sec[s]
      BY <1>1, <2>2 DEF AddObjectToArray
    <3> QED
      BY <3>1, SameIsReflexive DEF Represented
  <2> QED
    BY <2>1, <2>2
<1> QED
  BY <1>1, <1>3 DEF AddObjectToArray

\* An ABI absorbs any ABI whose sections are part of its own.  This is why
\* the order in which cdt-cpp hands its objects to the linker does no harm:
\* abigen collects over the inputs, so the ABI in the object of the last
\* input has all of the earlier ones, and that object is linked first.
THEOREM MergeAbsorbs ==
    ASSUME NEW a, NEW b, a = [version |-> a.version, sec |-> a.sec],
           a.version \in Nat, b.version \in Nat, b.version <= a.version,
           a.sec = [s \in Merges(a) |-> a.sec[s]],
           \A s \in Merges(a) : s \in DOMAIN b.sec /\ b.sec[s] \subseteq a.sec[s],
           \A s \in Merges(a) : UniqueIds(a.sec[s])
    PROVE  ~Throws(a, b) /\ Merge(a, b) = a
<1>1. DOMAIN a.sec = Merges(a)
  BY DEF Merges
<1>2. ASSUME NEW s \in Merges(a)
      PROVE  ~Clash(s, a.sec[s], b.sec[s])
  <2>1. \A x \in a.sec[s], y \in b.sec[s] : x.id = y.id => x = y
    BY <1>2 DEF UniqueIds
  <2> QED
    BY <2>1, SameIsReflexive DEF Clash
<1>3. ~Throws(a, b)
  BY <1>1, <1>2 DEF Throws
<1>4. \A s \in Merges(a) : AddObjectToArray(a.sec[s], b.sec[s]) = a.sec[s]
  BY DEF AddObjectToArray, Ids
<1>5. Merge(a, b).sec = a.sec
  BY <1>4 DEF Merge
<1>6. Merge(a, b).version = a.version
  BY DEF Merge
<1> QED
  BY <1>3, <1>5, <1>6 DEF Merge

\* Calls are the exception: the first ABI decides.  If it has none, those of
\* the second are dropped without an error; if it has some, merging fails
\* when the second has none.
THEOREM CallsOfFirstDecide ==
    ASSUME NEW a, NEW b
    PROVE  /\ "calls" \notin DOMAIN a.sec => "calls" \notin DOMAIN Merge(a, b).sec
           /\ "calls" \in DOMAIN a.sec /\ "calls" \notin DOMAIN b.sec => Throws(a, b)
BY DEF Merge, Merges, Throws, Always

-----------------------------------------------------------------------------
(* Drivers: the temporary files of the jobs.                               *)

Compiler(j) == cmd[j].tool \in {"cpp", "cc"}

Inputs(j) == Len(cmd[j].inputs)

\* The names in outputs: of the inputs before the current one, and of that
\* one too when cdt-cpp is about to compile it.
Made(j) ==
    IF pc[j] \in {"generate", "codegen"} \/ (pc[j] = "compile" /\ cmd[j].tool = "cc")
      THEN at[j] - 1
    ELSE IF pc[j] = "compile" THEN at[j] ELSE Inputs(j)

\* Where a job of each kind may be.
Places(j) ==
    CASE cmd[j].tool = "cpp"  -> {"generate", "codegen", "compile", "ok", "failed"}
                                   \cup (IF cmd[j].link THEN {"link", "clean", "undo"} ELSE {})
      [] cmd[j].tool = "cc"   -> {"compile", "ok", "failed"}
                                   \cup (IF cmd[j].link THEN {"link", "clean", "undo"} ELSE {})
      [] cmd[j].tool = "ld"   -> {"wait", "link", "ok", "failed"}
      [] cmd[j].tool = "none" -> {"ok"}

JobShape(j) ==
    /\ pc[j] \in Places(j)
    /\ Compiler(j) => at[j] \in 1 .. Inputs(j)
    /\ Compiler(j) /\ pc[j] # "failed" => outs[j] = [i \in 1 .. Made(j) |-> OutputAt(j, i)]
    /\ \A x \in DOMAIN tmp_files[j] : \E i \in 1 .. Inputs(j) : tmp_files[j][x] = TmpCpp(j, i)

Shape ==
    /\ cmd \in Scenarios
    /\ DOMAIN pc = Jobs /\ DOMAIN at = Jobs /\ DOMAIN outs = Jobs /\ DOMAIN tmp_files = Jobs
    /\ \A j \in Jobs : JobShape(j)

\* f is a stub that job j has yet to compile, or left when it failed.
StubOf(j, f) ==
    /\ cmd[j].tool = "cpp" /\ f = TmpCpp(j, at[j])
    /\ pc[j] = "failed" \/ (pc[j] = "compile" /\ Input(j) \in DOMAIN tmp_files[j])

\* f is an object job j has yet to remove, or may have left when it failed.
ObjectOf(j, f) ==
    /\ Compiler(j) /\ cmd[j].link /\ pc[j] # "ok"
    /\ \E i \in 1 .. Inputs(j) : f = OutputAt(j, i) /\ (pc[j] # "failed" => i <= Made(j))

OutputOfJob(f) == \E j \in Jobs : f = Output(j)

FilesOwned ==
    \A f \in DOMAIN files : OutputOfJob(f) \/ \E j \in Jobs : StubOf(j, f) \/ ObjectOf(j, f)

IInv == Shape /\ FilesOwned

-----------------------------------------------------------------------------
(* What a job does leaves the others as they are.                          *)

LEMMA CmdFacts ==
    ASSUME cmd \in Scenarios, NEW j \in Jobs
    PROVE  /\ cmd[j].tool \in {"cpp", "cc", "ld", "none"} /\ cmd[j].link \in BOOLEAN
           /\ Inputs(j) \in Nat /\ DOMAIN cmd[j].inputs = 1 .. Inputs(j)
           /\ Compiler(j) => Inputs(j) >= 1
<1>1. /\ cmd[j].tool \in {"cpp", "cc", "ld", "none"} /\ cmd[j].link \in BOOLEAN
      /\ cmd[j].inputs \in Seq(Elements(cmd[j].inputs))
      /\ cmd[j].inputs # << >> \/ cmd[j].tool = "none"
  BY ScenariosAssumption
<1>2. Inputs(j) \in Nat /\ DOMAIN cmd[j].inputs = 1 .. Inputs(j)
  BY <1>1, LenProperties DEF Inputs
<1>3. cmd[j].inputs # << >> => Inputs(j) # 0
  BY <1>1, EmptySeq DEF Inputs
<1>. QED
  BY <1>1, <1>2, <1>3 DEF Compiler

Others(j) ==
    /\ cmd' = cmd
    /\ DOMAIN pc' = Jobs /\ DOMAIN at' = Jobs /\ DOMAIN outs' = Jobs /\ DOMAIN tmp_files' = Jobs
    /\ \A k \in Jobs \ {j} : /\ pc'[k] = pc[k] /\ at'[k] = at[k]
                             /\ outs'[k] = outs[k] /\ tmp_files'[k] = tmp_files[k]

LEMMA ShapeKept ==
    ASSUME Shape, NEW j \in Jobs, Others(j), JobShape(j)'
    PROVE  Shape'
<1>1. ASSUME NEW k \in Jobs, k # j
      PROVE  JobShape(k)'
  <2>1. pc'[k] = pc[k] /\ at'[k] = at[k] /\ outs'[k] = outs[k] /\ tmp_files'[k] = tmp_files[k]
    BY <1>1 DEF Others
  <2>2. JobShape(k) /\ cmd' = cmd
    BY DEF Shape, Others
  <2>3. (Compiler(k)' <=> Compiler(k)) /\ Inputs(k)' = Inputs(k) /\ Places(k)' = Places(k)
    BY <2>2 DEF Compiler, Inputs, Places
  <2>4. Made(k)' = Made(k)
    BY <2>1, <2>2, <2>3 DEF Made
  <2>5. \A i : OutputAt(k, i)' = OutputAt(k, i)
    BY <2>2 DEF OutputAt
  <2>6. [i \in 1 .. Made(k) |-> OutputAt(k, i)]' = [i \in 1 .. Made(k) |-> OutputAt(k, i)]
    BY <2>4, <2>5
  <2>7. /\ pc'[k] \in Places(k)' /\ (Compiler(k)' => at'[k] \in 1 .. Inputs(k)')
        /\ \A x \in DOMAIN tmp_files'[k] : \E i \in 1 .. Inputs(k)' : tmp_files'[k][x] = TmpCpp(k, i)
    BY <2>1, <2>2, <2>3 DEF JobShape
  <2>8. Compiler(k)' /\ pc'[k] # "failed" => outs'[k] = [i \in 1 .. Made(k) |-> OutputAt(k, i)]'
    BY <2>1, <2>2, <2>3, <2>6 DEF JobShape
  <2>. QED
    BY <2>7, <2>8 DEF JobShape, TmpCpp
<1>. QED
  BY <1>1 DEF Shape, Others

LEMMA OwnersStay ==
    ASSUME NEW j \in Jobs, Others(j), NEW k \in Jobs, k # j, NEW f
    PROVE  StubOf(k, f)' = StubOf(k, f) /\ ObjectOf(k, f)' = ObjectOf(k, f)
<1>1. pc'[k] = pc[k] /\ at'[k] = at[k] /\ tmp_files'[k] = tmp_files[k] /\ cmd' = cmd
  BY DEF Others
<1>. QED
  BY <1>1 DEF StubOf, ObjectOf, Compiler, Inputs, Made, OutputAt, Input

LEMMA FilesKept ==
    ASSUME FilesOwned, NEW j \in Jobs, Others(j),
           \A f \in DOMAIN files' :
             \/ f \in DOMAIN files /\ (StubOf(j, f) \/ ObjectOf(j, f) =>
                                         (StubOf(j, f) \/ ObjectOf(j, f))')
             \/ OutputOfJob(f)
             \/ (StubOf(j, f) \/ ObjectOf(j, f))'
    PROVE  FilesOwned'
<1>. SUFFICES ASSUME NEW f \in DOMAIN files', ~OutputOfJob(f), ~(StubOf(j, f) \/ ObjectOf(j, f))'
              PROVE  \E k \in Jobs : (StubOf(k, f) \/ ObjectOf(k, f))'
  BY DEF FilesOwned, OutputOfJob, Output
<1>1. f \in DOMAIN files /\ ~(StubOf(j, f) \/ ObjectOf(j, f))
  OBVIOUS
<1>2. PICK k \in Jobs : StubOf(k, f) \/ ObjectOf(k, f)
  BY <1>1 DEF FilesOwned
<1>3. k # j
  BY <1>1, <1>2
<1>. QED
  BY <1>2, <1>3, OwnersStay

\* Which jobs may be where.
LEMMA PlaceFacts ==
    ASSUME Shape, NEW j \in Jobs
    PROVE  /\ pc[j] \in {"generate", "codegen"} => cmd[j].tool = "cpp" /\ Compiler(j)
           /\ pc[j] = "compile" => Compiler(j)
           /\ pc[j] \in {"clean", "undo"} => Compiler(j) /\ cmd[j].link
           /\ pc[j] = "link" => cmd[j].tool = "ld" \/ (Compiler(j) /\ cmd[j].link)
           /\ pc[j] = "wait" => cmd[j].tool = "ld"
<1>1. pc[j] \in Places(j) /\ cmd[j].tool \in {"cpp", "cc", "ld", "none"}
  BY CmdFacts DEF Shape, JobShape
<1>. QED
  BY <1>1 DEF Places, Compiler

\* A step that changes only where the job is.
LEMMA GotoShape ==
    ASSUME Shape, NEW j \in Jobs, NEW where, Goto(j, where),
           UNCHANGED <<cmd, at, outs, tmp_files>>,
           where \in Places(j),
           Compiler(j) /\ where # "failed" => pc[j] # "failed" /\ Made(j)' = Made(j)
    PROVE  Others(j) /\ Shape' /\ pc'[j] = where
<1>1. Others(j) /\ pc'[j] = where
  BY DEF Shape, Others, Goto
<1>2. JobShape(j)'
  <2>1. JobShape(j)
    BY DEF Shape
  <2>2. (Compiler(j)' <=> Compiler(j)) /\ Inputs(j)' = Inputs(j) /\ Places(j)' = Places(j)
    BY DEF Compiler, Inputs, Places
  <2>3. \A i : OutputAt(j, i)' = OutputAt(j, i)
    BY DEF OutputAt
  <2>4. Compiler(j) /\ where # "failed" => outs'[j] = [i \in 1 .. Made(j) |-> OutputAt(j, i)]'
    BY <2>1, <2>3 DEF JobShape
  <2>5. /\ pc'[j] \in Places(j)' /\ (Compiler(j)' => at'[j] \in 1 .. Inputs(j)')
        /\ \A x \in DOMAIN tmp_files'[j] : \E i \in 1 .. Inputs(j)' : tmp_files'[j][x] = TmpCpp(j, i)
    BY <1>1, <2>1, <2>2 DEF JobShape
  <2>. QED
    BY <1>1, <2>2, <2>4, <2>5 DEF JobShape, TmpCpp
<1>. QED
  BY <1>1, <1>2, ShapeKept

\* ... and one that writes no file but outputs.
LEMMA GotoOwned ==
    ASSUME IInv, NEW j \in Jobs, Others(j),
           \A f \in DOMAIN files' : f \in DOMAIN files \/ OutputOfJob(f),
           \A f \in DOMAIN files' : StubOf(j, f) \/ ObjectOf(j, f) => (StubOf(j, f) \/ ObjectOf(j, f))'
    PROVE  FilesOwned'
BY FilesKept DEF IInv

LEMMA AbigenStep ==
    ASSUME IInv, NEW j \in Jobs, NEW reused, Abigen(j, reused) \/ AbigenError(j)
    PROVE  IInv' /\ Others(j)
<1>1. /\ pc[j] = "generate" /\ UNCHANGED <<cmd, at, outs, tmp_files, files>>
      /\ Goto(j, "failed") \/ Goto(j, "codegen")
  BY DEF Abigen, AbigenError, Fail
<1>2. cmd[j].tool = "cpp" /\ Compiler(j)
  BY <1>1, PlaceFacts DEF IInv
<1>3. "failed" \in Places(j) /\ "codegen" \in Places(j)
  BY <1>2 DEF Places
<1>4. pc'[j] \in {"failed", "codegen"}
  BY <1>1 DEF Goto, IInv, Shape
<1>5. pc'[j] = "codegen" => Made(j)' = Made(j)
  BY <1>1 DEF Made
<1>6. Others(j) /\ Shape'
  <2>1. CASE Goto(j, "failed")
    BY <1>1, <1>3, <2>1, GotoShape DEF IInv
  <2>2. CASE Goto(j, "codegen")
    <3>1. pc'[j] = "codegen"
      BY <2>2 DEF Goto, IInv, Shape
    <3>. QED
      BY <1>1, <1>3, <1>5, <2>2, <3>1, GotoShape DEF IInv
  <2>. QED
    BY <1>1, <2>1, <2>2
<1>7. ASSUME NEW f, StubOf(j, f) \/ ObjectOf(j, f)
      PROVE  (StubOf(j, f) \/ ObjectOf(j, f))'
  <2>1. ObjectOf(j, f)
    BY <1>1, <1>7 DEF StubOf
  <2>2. (Compiler(j)' <=> Compiler(j)) /\ Inputs(j)' = Inputs(j) /\ cmd'[j].link = cmd[j].link
    BY <1>1 DEF Compiler, Inputs
  <2>3. \A i : OutputAt(j, i)' = OutputAt(j, i)
    BY <1>1 DEF OutputAt
  <2>. QED
    BY <1>1, <1>4, <1>5, <2>1, <2>2, <2>3 DEF ObjectOf
<1>8. FilesOwned'
  BY <1>1, <1>6, <1>7, GotoOwned
<1>. QED
  BY <1>6, <1>8 DEF IInv

SourceAt(j, i) == Source(j, cmd[j].inputs[i])

\* The stub of the current input, in the files fs and among the stubs.
Stubbed(j, fs, stubs) ==
    \E x : /\ x.src = SourceAt(j, at[j])
           /\ fs = WithFile(files, TmpCpp(j, at[j]), x)
           /\ stubs = [tmp_files EXCEPT ![j] = Emplace(@, Input(j), TmpCpp(j, at[j]))]

LEMMA CodegenEffect ==
    ASSUME NEW j \in Jobs, NEW bad \in BOOLEAN, Codegen(j, bad)
    PROVE  \E fs :
             /\ pc[j] = "codegen" /\ UNCHANGED <<cmd, at>>
             /\ (fs = files /\ tmp_files' = tmp_files) \/ Stubbed(j, fs, tmp_files')
             /\ \/ Goto(j, "failed") /\ outs' = outs /\ files' = fs
                \/ /\ Goto(j, "compile")
                   /\ outs' = [outs EXCEPT ![j] = Append(@, OutputOf(j))]
                   /\ files' = IF cmd[j].link THEN WithFile(fs, OutputOf(j), EmptyFile) ELSE fs
<1>. DEFINE r    == CodeOfUnit(Unit[Input(j)], cg[j])
            stub == \E k \in DOMAIN r.cg.keys : r.cg.keys[k] # {}
            x    == Object(Source(j, Input(j)), r.disp, r.cg.abi)
            fs   == IF stub THEN WithFile(files, TmpCpp(j, at[j]), x) ELSE files
<1>1. /\ pc[j] = "codegen" /\ UNCHANGED <<cmd, at>>
      /\ tmp_files' = IF stub THEN [tmp_files EXCEPT ![j] = Emplace(@, Input(j), TmpCpp(j, at[j]))]
                              ELSE tmp_files
      /\ \/ Goto(j, "failed") /\ outs' = outs /\ files' = fs
         \/ /\ Goto(j, "compile")
            /\ outs' = [outs EXCEPT ![j] = Append(@, OutputOf(j))]
            /\ files' = IF cmd[j].link THEN WithFile(fs, OutputOf(j), EmptyFile) ELSE fs
  BY DEF Codegen, Fail
<1>2. x.src = SourceAt(j, at[j])
  BY DEF Object, SourceAt, Input
<1>. HIDE DEF r, stub, x
<1>3. (fs = files /\ tmp_files' = tmp_files) \/ Stubbed(j, fs, tmp_files')
  BY <1>1, <1>2 DEF Stubbed
<1>. HIDE DEF fs
<1>. QED
  BY <1>1, <1>3

\* Outputs are appended one by one.
LEMMA NextOutput ==
    ASSUME NEW n \in Nat, NEW g, NEW s, s = [i \in 1 .. n |-> g[i]]
    PROVE  Append(s, g[n + 1]) = [i \in 1 .. n + 1 |-> g[i]]
<1>1. s \in Seq({g[i] : i \in 1 .. n + 1}) /\ Len(s) = n
  OBVIOUS
<1>. QED
  BY <1>1

LEMMA NextOut ==
    ASSUME Shape, NEW j \in Jobs, NEW n \in Nat,
           outs[j] = [i \in 1 .. n |-> OutputAt(j, i)]
    PROVE  Append(outs[j], OutputAt(j, n + 1)) = [i \in 1 .. n + 1 |-> OutputAt(j, i)]
<1>. DEFINE g == [i \in 1 .. n + 1 |-> OutputAt(j, i)]
<1>1. outs[j] = [i \in 1 .. n |-> g[i]] /\ g[n + 1] = OutputAt(j, n + 1)
  OBVIOUS
<1>2. g = [i \in 1 .. n + 1 |-> g[i]]
  OBVIOUS
<1>. HIDE DEF g
<1>3. Append(outs[j], g[n + 1]) = [i \in 1 .. n + 1 |-> g[i]]
  BY <1>1, NextOutput
<1>. QED
  BY <1>1, <1>2, <1>3 DEF g

LEMMA CodegenShape ==
    ASSUME IInv, NEW j \in Jobs, NEW bad \in BOOLEAN, Codegen(j, bad)
    PROVE  Shape' /\ Others(j)
<1>1. PICK fs :
        /\ pc[j] = "codegen" /\ UNCHANGED <<cmd, at>>
        /\ (fs = files /\ tmp_files' = tmp_files) \/ Stubbed(j, fs, tmp_files')
        /\ \/ Goto(j, "failed") /\ outs' = outs /\ files' = fs
           \/ /\ Goto(j, "compile")
              /\ outs' = [outs EXCEPT ![j] = Append(@, OutputOf(j))]
              /\ files' = IF cmd[j].link THEN WithFile(fs, OutputOf(j), EmptyFile) ELSE fs
  BY CodegenEffect
<1>2. Shape /\ JobShape(j)
  BY DEF IInv, Shape
<1>3. cmd[j].tool = "cpp" /\ Compiler(j) /\ Inputs(j) \in Nat /\ at[j] \in 1 .. Inputs(j)
  BY <1>1, <1>2, PlaceFacts, CmdFacts DEF JobShape, Shape
<1>4. /\ DOMAIN tmp_files' = Jobs
      /\ \A k \in Jobs \ {j} : tmp_files'[k] = tmp_files[k]
      /\ tmp_files'[j] = tmp_files[j] \/ tmp_files'[j] = Emplace(tmp_files[j], Input(j), TmpCpp(j, at[j]))
  BY <1>1, <1>2 DEF Shape, Stubbed
<1>5. \A x \in DOMAIN tmp_files'[j] : \E i \in 1 .. Inputs(j) : tmp_files'[j][x] = TmpCpp(j, i)
  <2>1. \A x \in DOMAIN tmp_files[j] : \E i \in 1 .. Inputs(j) : tmp_files[j][x] = TmpCpp(j, i)
    BY <1>2 DEF JobShape
  <2>. QED
    BY <1>3, <1>4, <2>1 DEF Emplace, WithFile
<1>6. Others(j)
  BY <1>1, <1>2, <1>4 DEF Others, Shape, Goto
<1>7. (Compiler(j)' <=> Compiler(j)) /\ Inputs(j)' = Inputs(j) /\ Places(j)' = Places(j) /\ at'[j] = at[j]
  BY <1>1 DEF Compiler, Inputs, Places
<1>8. pc'[j] \in {"failed", "compile"}
  BY <1>1, <1>2 DEF Goto, Shape
<1>9. "failed" \in Places(j) /\ "compile" \in Places(j)
  BY <1>3 DEF Places
<1>10. pc'[j] # "failed" => outs'[j] = [i \in 1 .. Made(j) |-> OutputAt(j, i)]'
  <2>. SUFFICES ASSUME pc'[j] # "failed"
                PROVE  outs'[j] = [i \in 1 .. Made(j) |-> OutputAt(j, i)]'
    OBVIOUS
  <2>1. ~Goto(j, "failed")
    BY <1>2 DEF Goto, Shape
  <2>2. outs'[j] = Append(outs[j], OutputAt(j, at[j]))
    BY <1>1, <1>2, <2>1 DEF OutputOf, Shape
  <2>3. outs[j] = [i \in 1 .. at[j] - 1 |-> OutputAt(j, i)]
    BY <1>1, <1>2, <1>3 DEF JobShape, Made
  <2>4. at[j] - 1 \in Nat /\ (at[j] - 1) + 1 = at[j]
    BY <1>3
  <2>5. outs'[j] = [i \in 1 .. at[j] |-> OutputAt(j, i)]
    BY <1>2, <2>2, <2>3, <2>4, NextOut
  <2>6. Made(j)' = at[j]
    BY <1>1, <1>3, <1>8 DEF Made
  <2>7. \A i : OutputAt(j, i)' = OutputAt(j, i)
    BY <1>1 DEF OutputAt
  <2>. QED
    BY <2>5, <2>6, <2>7
<1>11. JobShape(j)'
  BY <1>3, <1>5, <1>7, <1>8, <1>9, <1>10 DEF JobShape, TmpCpp
<1>. QED
  BY <1>2, <1>6, <1>11, ShapeKept

LEMMA CodegenStep ==
    ASSUME IInv, NEW j \in Jobs, NEW bad \in BOOLEAN, Codegen(j, bad)
    PROVE  IInv' /\ Others(j)
<1>1. PICK fs :
        /\ pc[j] = "codegen" /\ UNCHANGED <<cmd, at>>
        /\ (fs = files /\ tmp_files' = tmp_files) \/ Stubbed(j, fs, tmp_files')
        /\ \/ Goto(j, "failed") /\ outs' = outs /\ files' = fs
           \/ /\ Goto(j, "compile")
              /\ outs' = [outs EXCEPT ![j] = Append(@, OutputOf(j))]
              /\ files' = IF cmd[j].link THEN WithFile(fs, OutputOf(j), EmptyFile) ELSE fs
  BY CodegenEffect
<1>2. Shape' /\ Others(j) /\ Shape
  BY CodegenShape DEF IInv
<1>3. cmd[j].tool = "cpp" /\ Compiler(j) /\ Inputs(j) \in Nat /\ at[j] \in 1 .. Inputs(j)
  BY <1>1, <1>2, PlaceFacts, CmdFacts DEF JobShape, Shape
<1>4. pc'[j] \in {"failed", "compile"}
  BY <1>1, <1>2 DEF Goto, Shape
<1>5. (Compiler(j)' <=> Compiler(j)) /\ Inputs(j)' = Inputs(j) /\ at'[j] = at[j] /\ cmd' = cmd
  BY <1>1 DEF Compiler, Inputs
<1>6. \A i : OutputAt(j, i)' = OutputAt(j, i)
  BY <1>1 DEF OutputAt
<1>7. Made(j) = at[j] - 1 /\ (pc'[j] = "compile" => Made(j)' = at[j])
  BY <1>1, <1>3, <1>5 DEF Made
<1>8. ASSUME NEW f, StubOf(j, f) \/ ObjectOf(j, f)
      PROVE  ObjectOf(j, f)'
  <2>1. ObjectOf(j, f)
    BY <1>1, <1>8 DEF StubOf
  <2>2. PICK i \in 1 .. Inputs(j) : f = OutputAt(j, i) /\ i <= Made(j)
    BY <1>1, <2>1 DEF ObjectOf
  <2>3. pc'[j] # "failed" => i <= Made(j)'
    BY <1>3, <1>4, <1>7, <2>2
  <2>. QED
    BY <1>4, <1>5, <1>6, <2>1, <2>2, <2>3 DEF ObjectOf
<1>9. \A f \in DOMAIN fs : f \in DOMAIN files \/ StubOf(j, f)'
  <2>. SUFFICES ASSUME NEW f \in DOMAIN fs, f \notin DOMAIN files
                PROVE  StubOf(j, f)'
    OBVIOUS
  <2>1. Stubbed(j, fs, tmp_files')
    BY <1>1
  <2>2. f = TmpCpp(j, at[j])
    BY <2>1 DEF Stubbed, WithFile
  <2>3. tmp_files'[j] = Emplace(tmp_files[j], Input(j), TmpCpp(j, at[j]))
    BY <1>2, <2>1 DEF Stubbed, Shape
  <2>4. Input(j) \in DOMAIN tmp_files'[j]
    BY <2>3 DEF Emplace, WithFile
  <2>5. Input(j)' = Input(j) /\ f = TmpCpp(j, at[j])'
    BY <1>5, <2>2 DEF Input, TmpCpp
  <2>. QED
    BY <1>3, <1>4, <1>5, <2>4, <2>5 DEF StubOf
<1>10. \A f \in DOMAIN files' : f \in DOMAIN fs \/ OutputOfJob(f) \/ ObjectOf(j, f)'
  <2>. SUFFICES ASSUME NEW f \in DOMAIN files', f \notin DOMAIN fs
                PROVE  OutputOfJob(f) \/ ObjectOf(j, f)'
    OBVIOUS
  <2>1. /\ Goto(j, "compile") /\ cmd[j].link /\ f = OutputAt(j, at[j])
    BY <1>1 DEF OutputOf, WithFile
  <2>2. pc'[j] = "compile"
    BY <1>2, <2>1 DEF Goto, Shape
  <2>3. at[j] \in 1 .. Inputs(j)' /\ f = OutputAt(j, at[j])' /\ at[j] <= Made(j)'
    BY <1>3, <1>5, <1>7, <2>1, <2>2 DEF OutputAt, TmpCc, TmpObj, Output
  <2>. QED
    BY <1>3, <1>5, <1>6, <1>7, <2>1, <2>2, <2>3 DEF ObjectOf
<1>11. FilesOwned'
  BY <1>2, <1>8, <1>9, <1>10, FilesKept DEF IInv
<1>. QED
  BY <1>2, <1>11 DEF IInv

\* Files of different kinds, jobs or inputs have different names.
LEMMA NamesApart ==
    ASSUME NEW j, NEW i, NEW k, NEW h
    PROVE  /\ TmpCpp(j, i) = TmpCpp(k, h) => j = k /\ i = h
           /\ TmpObj(j, i) = TmpObj(k, h) => j = k /\ i = h
           /\ Output(j) = Output(k) => j = k
           /\ TmpCc(j) = TmpCc(k) => j = k
           /\ TmpCpp(j, i) # TmpObj(k, h) /\ TmpCpp(j, i) # TmpCc(k) /\ TmpCpp(j, i) # Output(k)
           /\ TmpObj(j, i) # TmpCc(k) /\ TmpObj(j, i) # Output(k) /\ TmpCc(j) # Output(k)
BY DEF TmpCpp, TmpObj, TmpCc, Output

\* A stub that is there is one the job has yet to compile, or left.
LEMMA StubIsOwned ==
    ASSUME IInv, NEW j \in Jobs, NEW i, TmpCpp(j, i) \in DOMAIN files
    PROVE  StubOf(j, TmpCpp(j, i))
<1>1. ~OutputOfJob(TmpCpp(j, i))
  BY NamesApart DEF OutputOfJob
<1>2. PICK k \in Jobs : StubOf(k, TmpCpp(j, i)) \/ ObjectOf(k, TmpCpp(j, i))
  BY <1>1 DEF IInv, FilesOwned
<1>3. ~ObjectOf(k, TmpCpp(j, i))
  <2>1. \A n : cmd[k].link => OutputAt(k, n) # TmpCpp(j, i)
    BY NamesApart DEF OutputAt
  <2>. QED
    BY <2>1 DEF ObjectOf
<1>4. TmpCpp(j, i) = TmpCpp(k, at[k])
  BY <1>2, <1>3 DEF StubOf
<1>5. k = j
  BY <1>4 DEF TmpCpp
<1>. QED
  BY <1>2, <1>3, <1>5

\* A stub that is there when clang is to read it is that of the current
\* input: those of earlier inputs are gone.
LEMMA StdinIsCurrent ==
    ASSUME IInv, NEW j \in Jobs, Redirected(j), Exists(StdinFile(j))
    PROVE  StdinFile(j) = TmpCpp(j, at[j])
<1>1. PICK i \in 1 .. Inputs(j) : StdinFile(j) = TmpCpp(j, i)
  BY DEF IInv, Shape, JobShape, Redirected, StdinFile
<1>. QED
  BY <1>1, StubIsOwned DEF Exists, StubOf

LEMMA CompileEffect ==
    ASSUME IInv, NEW j \in Jobs, Compile(j)
    PROVE  /\ pc[j] = "compile" /\ Compiler(j) /\ cmd' = cmd /\ tmp_files' = tmp_files
           /\ Inputs(j) \in Nat /\ at[j] \in 1 .. Inputs(j)
           /\ Others(j)
           /\ \/ /\ at[j] < Inputs(j) /\ at'[j] = at[j] + 1
                 /\ pc'[j] = IF cmd[j].tool = "cpp" THEN "generate" ELSE "compile"
              \/ /\ at[j] = Inputs(j) /\ at'[j] = at[j]
                 /\ pc'[j] = IF cmd[j].link THEN "link" ELSE "ok"
           /\ outs'[j] = [i \in 1 .. at[j] |-> OutputAt(j, i)]
           /\ files' = Without(WithFile(files, OutputAt(j, at[j]), CompiledObject(j)), Spent(j))
<1>1. pc[j] = "compile" /\ cmd' = cmd /\ tmp_files' = tmp_files
  BY DEF Compile
<1>2. Shape /\ JobShape(j)
  BY DEF IInv, Shape
<1>3. Compiler(j) /\ Inputs(j) \in Nat /\ at[j] \in 1 .. Inputs(j)
  BY <1>1, <1>2, PlaceFacts, CmdFacts DEF JobShape, Shape
<1>4. \/ /\ at[j] < Inputs(j) /\ at' = [at EXCEPT ![j] = at[j] + 1]
         /\ Goto(j, IF cmd[j].tool = "cpp" THEN "generate" ELSE "compile")
      \/ /\ ~(at[j] < Inputs(j)) /\ at' = at
         /\ Goto(j, IF cmd[j].link THEN "link" ELSE "ok")
  BY DEF Compile, Inputs
<1>5. \/ /\ at[j] < Inputs(j) /\ at'[j] = at[j] + 1
         /\ pc'[j] = IF cmd[j].tool = "cpp" THEN "generate" ELSE "compile"
      \/ /\ at[j] = Inputs(j) /\ at'[j] = at[j]
         /\ pc'[j] = IF cmd[j].link THEN "link" ELSE "ok"
  BY <1>2, <1>3, <1>4 DEF Goto, Shape
<1>6. outs' = IF cmd[j].tool = "cc" THEN [outs EXCEPT ![j] = Append(outs[j], OutputAt(j, at[j]))]
                                    ELSE outs
  BY DEF Compile, OutputOf
<1>7. Others(j)
  <2>1. DOMAIN at' = Jobs /\ DOMAIN pc' = Jobs /\ \A k \in Jobs \ {j} : at'[k] = at[k] /\ pc'[k] = pc[k]
    BY <1>2, <1>4 DEF Goto, Shape
  <2>2. DOMAIN outs' = Jobs /\ \A k \in Jobs \ {j} : outs'[k] = outs[k]
    BY <1>2, <1>6 DEF Shape
  <2>. QED
    BY <1>1, <1>2, <2>1, <2>2 DEF Others, Shape
<1>8. outs'[j] = [i \in 1 .. at[j] |-> OutputAt(j, i)]
  <2>1. CASE cmd[j].tool = "cc"
    <3>1. outs[j] = [i \in 1 .. at[j] - 1 |-> OutputAt(j, i)]
      BY <1>1, <1>2, <1>3, <2>1 DEF JobShape, Made
    <3>2. at[j] - 1 \in Nat /\ (at[j] - 1) + 1 = at[j]
      BY <1>3
    <3>3. outs'[j] = Append(outs[j], OutputAt(j, at[j]))
      BY <1>2, <1>6, <2>1 DEF Shape
    <3>. QED
      BY <1>2, <3>1, <3>2, <3>3, NextOut
  <2>2. CASE cmd[j].tool # "cc"
    BY <1>1, <1>2, <1>3, <1>6, <2>2 DEF JobShape, Made
  <2>. QED
    BY <2>1, <2>2
<1>9. files' = Without(WithFile(files, OutputAt(j, at[j]), CompiledObject(j)), Spent(j))
  BY DEF Compile, OutputOf
<1>. QED
  BY <1>1, <1>3, <1>5, <1>7, <1>8, <1>9

LEMMA CompileStep ==
    ASSUME IInv, NEW j \in Jobs, Compile(j)
    PROVE  IInv' /\ Others(j)
<1>1. /\ pc[j] = "compile" /\ Compiler(j) /\ cmd' = cmd /\ tmp_files' = tmp_files
      /\ Inputs(j) \in Nat /\ at[j] \in 1 .. Inputs(j)
      /\ Others(j)
      /\ outs'[j] = [i \in 1 .. at[j] |-> OutputAt(j, i)]
      /\ files' = Without(WithFile(files, OutputAt(j, at[j]), CompiledObject(j)), Spent(j))
  BY CompileEffect
<1>2. \/ /\ at[j] < Inputs(j) /\ at'[j] = at[j] + 1
         /\ pc'[j] = IF cmd[j].tool = "cpp" THEN "generate" ELSE "compile"
      \/ /\ at[j] = Inputs(j) /\ at'[j] = at[j]
         /\ pc'[j] = IF cmd[j].link THEN "link" ELSE "ok"
  BY CompileEffect
<1>3. (Compiler(j)' <=> Compiler(j)) /\ Inputs(j)' = Inputs(j) /\ Places(j)' = Places(j)
  BY <1>1 DEF Compiler, Inputs, Places
<1>4. \A i : OutputAt(j, i)' = OutputAt(j, i)
  BY <1>1 DEF OutputAt
<1>5. Made(j)' = at[j]
  BY <1>1, <1>2, <1>3 DEF Made, Compiler
<1>6. pc'[j] \in Places(j)
  BY <1>1, <1>2 DEF Places, Compiler
<1>7. at'[j] \in 1 .. Inputs(j)
  BY <1>1, <1>2
<1>8. Shape'
  <2>1. outs'[j] = [i \in 1 .. Made(j) |-> OutputAt(j, i)]'
    BY <1>1, <1>4, <1>5
  <2>2. \A x \in DOMAIN tmp_files'[j] : \E i \in 1 .. Inputs(j) : tmp_files'[j][x] = TmpCpp(j, i)
    BY <1>1 DEF IInv, Shape, JobShape
  <2>3. JobShape(j)'
    BY <1>3, <1>6, <1>7, <2>1, <2>2 DEF JobShape, TmpCpp
  <2>. QED
    BY <1>1, <2>3, ShapeKept DEF IInv
<1>9. \A f \in DOMAIN files' : (f \in DOMAIN files \/ f = OutputAt(j, at[j])) /\ f \notin Spent(j)
  BY <1>1 DEF Without, WithFile
<1>10. ASSUME cmd[j].link, NEW i \in 1 .. at[j]
       PROVE  ObjectOf(j, OutputAt(j, i))'
  <2>1. pc'[j] \notin {"ok", "failed"} /\ i \in 1 .. Inputs(j) /\ cmd'[j].link
    BY <1>1, <1>2, <1>10
  <2>2. i \in 1 .. Inputs(j)' /\ i <= Made(j)'
    BY <1>3, <1>5, <2>1
  <2>. QED
    BY <1>1, <1>3, <2>1, <2>2 DEF ObjectOf
<1>11. ASSUME NEW f \in DOMAIN files', f = OutputAt(j, at[j])
       PROVE  OutputOfJob(f) \/ ObjectOf(j, f)'
  <2>1. CASE cmd[j].link
    BY <1>1, <1>4, <1>10, <1>11, <2>1
  <2>2. CASE ~cmd[j].link
    BY <1>11, <2>2 DEF OutputAt, OutputOfJob
  <2>. QED
    BY <2>1, <2>2
<1>12. ASSUME NEW f \in DOMAIN files', StubOf(j, f), f # OutputAt(j, at[j])
       PROVE  FALSE
  <2>1. Redirected(j) /\ f = TmpCpp(j, at[j])
    BY <1>1, <1>12 DEF StubOf, Redirected
  <2>2. StdinFile(j) = TmpCpp(j, at[j])
    BY <2>1, StdinIsCurrent DEF Compile
  <2>. QED
    BY <1>9, <2>1, <2>2 DEF Spent
<1>13. ASSUME NEW f \in DOMAIN files', ObjectOf(j, f)
       PROVE  ObjectOf(j, f)'
  <2>1. PICK i \in 1 .. Inputs(j) : f = OutputAt(j, i) /\ i <= Made(j)
    BY <1>1, <1>13 DEF ObjectOf
  <2>2. cmd[j].link /\ i \in 1 .. at[j]
    BY <1>1, <1>13, <2>1 DEF ObjectOf, Made
  <2>. QED
    BY <1>4, <1>10, <2>1, <2>2
<1>14. FilesOwned'
  BY <1>1, <1>9, <1>11, <1>12, <1>13, FilesKept DEF IInv
<1>. QED
  BY <1>1, <1>8, <1>14 DEF IInv

LEMMA CompileErrorStep ==
    ASSUME IInv, NEW j \in Jobs, CompileError(j)
    PROVE  IInv' /\ Others(j)
<1>1. /\ pc[j] = "compile" /\ Goto(j, "failed") /\ UNCHANGED <<cmd, at, outs, tmp_files>>
      /\ files' = Without(files, Spent(j))
  BY DEF CompileError, Fail
<1>2. Compiler(j)
  BY <1>1, PlaceFacts DEF IInv
<1>3. "failed" \in Places(j)
  BY <1>2 DEF Places, Compiler
<1>4. Others(j) /\ Shape' /\ pc'[j] = "failed"
  BY <1>1, <1>3, GotoShape DEF IInv
<1>5. (Compiler(j)' <=> Compiler(j)) /\ Inputs(j)' = Inputs(j) /\ cmd'[j].link = cmd[j].link
  BY <1>1 DEF Compiler, Inputs
<1>6. \A i : OutputAt(j, i)' = OutputAt(j, i)
  BY <1>1 DEF OutputAt
<1>7. ASSUME NEW f, StubOf(j, f) \/ ObjectOf(j, f)
      PROVE  (StubOf(j, f) \/ ObjectOf(j, f))'
  <2>1. CASE StubOf(j, f)
    BY <1>1, <1>4, <2>1 DEF StubOf, TmpCpp
  <2>2. CASE ObjectOf(j, f)
    BY <1>4, <1>5, <1>6, <2>2 DEF ObjectOf
  <2>. QED
    BY <1>7, <2>1, <2>2
<1>8. FilesOwned'
  BY <1>1, <1>4, <1>7, GotoOwned DEF Without
<1>. QED
  BY <1>4, <1>8 DEF IInv

\* Starting cdt-ld, linking, and an error of the linker.
LEMMA LinkSteps ==
    ASSUME IInv, NEW j \in Jobs, StartLd(j) \/ Link(j) \/ LinkError(j)
    PROVE  /\ IInv' /\ Others(j)
           /\ \/ pc[j] = "wait" /\ pc'[j] = "link"
              \/ pc[j] = "link" /\ pc'[j] \in {"ok", "clean", "failed", "undo"}
           /\ Link(j) /\ Compiler(j) => pc'[j] = "clean"
<1>1. /\ UNCHANGED <<cmd, at, outs, tmp_files>>
      /\ \/ files' = files
         \/ \E x : files' = WithFile(files, Output(j), x)
  BY DEF StartLd, Link, LinkError
<1>2. PICK where : /\ Goto(j, where)
                   /\ \/ pc[j] = "wait" /\ where = "link"
                      \/ pc[j] = "link" /\ cmd[j].tool = "ld" /\ where \in {"ok", "failed"}
                      \/ pc[j] = "link" /\ cmd[j].tool # "ld" /\ where \in {"clean", "undo"}
  BY DEF StartLd, Link, LinkError
<1>3. pc'[j] = where
  BY <1>2 DEF Goto, IInv, Shape
<1>4. \/ cmd[j].tool = "ld" /\ ~Compiler(j)
      \/ Compiler(j) /\ cmd[j].link /\ pc[j] = "link" /\ where \in {"clean", "undo"}
  BY <1>2, PlaceFacts DEF IInv, Compiler
<1>5. where \in Places(j)
  <2>1. CASE cmd[j].tool = "ld"
    BY <1>2, <2>1, PlaceFacts DEF Places
  <2>2. CASE Compiler(j)
    BY <1>4, <2>2 DEF Places, Compiler
  <2>. QED
    BY <1>4, <2>1, <2>2
<1>6. Compiler(j) => Made(j)' = Made(j) /\ Made(j) = Inputs(j)
  BY <1>1, <1>3, <1>4 DEF Made, Inputs
<1>7. Others(j) /\ Shape'
  BY <1>1, <1>2, <1>4, <1>5, <1>6, GotoShape DEF IInv
<1>8. ASSUME NEW f, StubOf(j, f) \/ ObjectOf(j, f)
      PROVE  (StubOf(j, f) \/ ObjectOf(j, f))'
  <2>1. Compiler(j) /\ pc[j] = "link" /\ pc'[j] \in {"clean", "undo"}
    BY <1>3, <1>4, <1>8 DEF StubOf, ObjectOf, Compiler
  <2>2. ObjectOf(j, f)
    BY <1>8, <2>1 DEF StubOf
  <2>3. (Compiler(j)' <=> Compiler(j)) /\ Inputs(j)' = Inputs(j) /\ cmd'[j].link = cmd[j].link
    BY <1>1 DEF Compiler, Inputs
  <2>4. \A i : OutputAt(j, i)' = OutputAt(j, i)
    BY <1>1 DEF OutputAt
  <2>. QED
    BY <1>6, <2>1, <2>2, <2>3, <2>4 DEF ObjectOf
<1>9. FilesOwned'
  <2>1. \A f \in DOMAIN files' : f \in DOMAIN files \/ OutputOfJob(f)
    BY <1>1 DEF WithFile, OutputOfJob
  <2>. QED
    BY <1>7, <1>8, <2>1, GotoOwned
<1>10. Link(j) /\ Compiler(j) => pc'[j] = "clean"
  BY DEF Link, Goto, IInv, Shape, Compiler
<1>. QED
  BY <1>2, <1>3, <1>7, <1>9, <1>10 DEF IInv

LEMMA CleanStep ==
    ASSUME IInv, NEW j \in Jobs, Clean(j)
    PROVE  /\ IInv' /\ Others(j)
           /\ files' = Without(files, {OutputAt(j, i) : i \in 1 .. Inputs(j)})
           /\ pc'[j] = IF pc[j] = "clean" THEN "ok" ELSE "failed"
<1>1. /\ pc[j] \in {"clean", "undo"} /\ UNCHANGED <<cmd, at, outs, tmp_files>>
      /\ Goto(j, IF pc[j] = "clean" THEN "ok" ELSE "failed")
      /\ files' = Without(files, Elements(outs[j]))
  BY DEF Clean
<1>2. Compiler(j) /\ cmd[j].link
  BY <1>1, PlaceFacts DEF IInv
<1>3. "ok" \in Places(j) /\ "failed" \in Places(j)
  BY <1>2 DEF Places, Compiler
<1>4. pc'[j] = IF pc[j] = "clean" THEN "ok" ELSE "failed"
  BY <1>1 DEF Goto, IInv, Shape
<1>5. Made(j) = Inputs(j) /\ Made(j)' = Made(j)
  BY <1>1, <1>4 DEF Made, Inputs
<1>6. Others(j) /\ Shape'
  <2>1. CASE Goto(j, "ok")
    BY <1>1, <1>3, <1>5, <2>1, GotoShape DEF IInv
  <2>2. CASE Goto(j, "failed")
    BY <1>1, <1>3, <2>2, GotoShape DEF IInv
  <2>. QED
    BY <1>1, <2>1, <2>2
<1>7. outs[j] = [i \in 1 .. Inputs(j) |-> OutputAt(j, i)]
  BY <1>1, <1>2, <1>5 DEF IInv, Shape, JobShape
<1>8. Elements(outs[j]) = {OutputAt(j, i) : i \in 1 .. Inputs(j)}
  BY <1>7 DEF Elements
<1>9. ASSUME NEW f \in DOMAIN files', StubOf(j, f) \/ ObjectOf(j, f)
      PROVE  FALSE
  <2>1. ObjectOf(j, f)
    BY <1>1, <1>9 DEF StubOf
  <2>2. f \in Elements(outs[j])
    BY <1>8, <2>1 DEF ObjectOf
  <2>. QED
    BY <1>1, <1>9, <2>2 DEF Without
<1>10. FilesOwned'
  BY <1>1, <1>6, <1>9, GotoOwned DEF Without
<1>. QED
  BY <1>1, <1>4, <1>6, <1>8, <1>10 DEF IInv

-----------------------------------------------------------------------------
(* Temporary files.                                                        *)

LEMMA Inductive ==
    ASSUME IInv, [Next]_vars
    PROVE  IInv'
<1>1. ASSUME UNCHANGED vars
      PROVE  IInv'
  <2>1. /\ cmd' = cmd /\ pc' = pc /\ at' = at /\ files' = files /\ outs' = outs
        /\ tmp_files' = tmp_files
    BY <1>1 DEF vars
  <2>2. ASSUME NEW j \in Jobs
        PROVE  Others(j)
    BY <2>1 DEF Others, IInv, Shape
  <2>3. ASSUME NEW j \in Jobs
        PROVE  JobShape(j)'
    <3>1. JobShape(j) /\ (JobShape(j)' <=> JobShape(j))
      BY <2>1 DEF IInv, Shape, JobShape, Compiler, Inputs, Places, Made, OutputAt
    <3>. QED
      BY <3>1
  <2>4. Shape'
    BY <2>1, <2>3 DEF IInv, Shape
  <2>5. CASE Jobs = {}
    BY <2>1, <2>4, <2>5 DEF IInv, FilesOwned, OutputOfJob
  <2>6. CASE Jobs # {}
    <3>1. PICK j \in Jobs : TRUE
      BY <2>6
    <3>2. \A f : (StubOf(j, f)' <=> StubOf(j, f)) /\ (ObjectOf(j, f)' <=> ObjectOf(j, f))
      BY <2>1 DEF StubOf, ObjectOf, Compiler, Inputs, Made, OutputAt, Input
    <3>. QED
      BY <2>1, <2>2, <2>4, <3>2, FilesKept DEF IInv
  <2>. QED
    BY <2>4, <2>5, <2>6 DEF IInv
<1>2. ASSUME NEW j \in Jobs, Step(j)
      PROVE  IInv'
  BY <1>2, AbigenStep, CodegenStep, CompileStep, CompileErrorStep, LinkSteps, CleanStep DEF Step
<1>. QED
  BY <1>1, <1>2 DEF Next, Rest

LEMMA Initially == Init => IInv
<1>. SUFFICES ASSUME Init
              PROVE  IInv
  OBVIOUS
<1>1. cmd \in Scenarios /\ files = << >>
  BY DEF Init
<1>2. DOMAIN pc = Jobs /\ DOMAIN at = Jobs /\ DOMAIN outs = Jobs /\ DOMAIN tmp_files = Jobs
  BY DEF Init
<1>3. ASSUME NEW j \in Jobs
      PROVE  JobShape(j)
  <2>1. /\ cmd[j].tool \in {"cpp", "cc", "ld", "none"} /\ Inputs(j) \in Nat
        /\ Compiler(j) => Inputs(j) >= 1
    BY <1>1, CmdFacts
  <2>2. at[j] = 1 /\ outs[j] = << >> /\ tmp_files[j] = << >>
    BY DEF Init
  <2>3. pc[j] = CASE cmd[j].tool = "cpp" -> "generate"
                  [] cmd[j].tool = "cc"  -> "compile"
                  [] cmd[j].tool = "ld"  -> "wait"
                  [] OTHER               -> "ok"
    BY DEF Init
  <2>4. pc[j] \in Places(j)
    BY <2>1, <2>3 DEF Places
  <2>5. Compiler(j) => Made(j) = 0
    BY <2>2, <2>3 DEF Compiler, Made
  <2>6. Compiler(j) => outs[j] = [i \in 1 .. Made(j) |-> OutputAt(j, i)]
    BY <2>2, <2>5
  <2>. QED
    BY <2>1, <2>2, <2>4, <2>6 DEF JobShape
<1>. QED
  BY <1>1, <1>2, <1>3 DEF IInv, Shape, FilesOwned

LEMMA Owned == Spec => []IInv
<1>. QED
  BY Initially, Inductive, PTL DEF Spec

\* However the jobs of a build run side by side, and wherever one of them
\* fails: when all are over, a temporary file that is left belongs to a job
\* that failed.
THEOREM TemporariesRemoved == Spec => []OnlyFailuresLeaveFiles
<1>1. IInv => OnlyFailuresLeaveFiles
  <2>. SUFFICES ASSUME IInv, Over, NEW f \in DOMAIN files, Temporary(f)
                PROVE  \E j \in Owners(f) : pc[j] = "failed"
    BY DEF OnlyFailuresLeaveFiles
  <2>1. ~OutputOfJob(f)
    BY DEF OutputOfJob, Temporary, Output
  <2>2. PICK j \in Jobs : StubOf(j, f) \/ ObjectOf(j, f)
    BY <2>1 DEF IInv, FilesOwned
  <2>3. pc[j] = "failed"
    BY <2>2 DEF StubOf, ObjectOf, Over
  <2>4. j \in Owners(f)
    <3>1. CASE StubOf(j, f)
      BY <3>1 DEF StubOf, Owners, TmpCpp
    <3>2. CASE ObjectOf(j, f)
      <4>1. PICK i \in 1 .. Inputs(j) : f = OutputAt(j, i)
        BY <3>2 DEF ObjectOf
      <4>2. CASE cmd[j].tool = "cc"
        <5>1. f = TmpCc(cmd[j].inputs[i])
          BY <3>2, <4>1, <4>2 DEF OutputAt, ObjectOf
        <5>2. cmd[j].inputs[i] \in InputsOf(j)
          BY CmdFacts DEF InputsOf, Elements, IInv, Shape
        <5>. QED
          BY <4>2, <5>1, <5>2 DEF Owners, TmpCc
      <4>3. CASE cmd[j].tool # "cc"
        BY <3>2, <4>1, <4>3 DEF OutputAt, ObjectOf, Owners, TmpObj
      <4>. QED
        BY <4>2, <4>3
    <3>. QED
      BY <2>2, <3>1, <3>2
  <2>. QED
    BY <2>3, <2>4
<1>. QED
  BY <1>1, Owned, PTL

-----------------------------------------------------------------------------
(* The sources of an image.                                                *)

\* Another cdt-cc compiles a file of the same name.
Collides(j) ==
    \E k \in Jobs \ {j} :
      {cmd[j].tool, cmd[k].tool} = {"cc"} /\ InputsOf(j) \cap InputsOf(k) # {}

\* The stub of the current input has its source.
StubOwn(j) ==
    cmd[j].tool = "cpp" /\ pc[j] = "compile" /\ TmpCpp(j, at[j]) \in DOMAIN files =>
      files[TmpCpp(j, at[j])].src = SourceAt(j, at[j])

\* The objects compiled so far have theirs.
ObjectsOwn(j) ==
    Compiler(j) /\ cmd[j].link /\ pc[j] \in {"generate", "codegen", "compile", "link"} /\ ~Collides(j) =>
      \A i \in 1 .. Inputs(j) :
        (pc[j] = "link" \/ i < at[j]) /\ OutputAt(j, i) \in DOMAIN files =>
          files[OutputAt(j, i)].src = SourceAt(j, i)

\* The image has those of its inputs, the last one first.
ImageOwn(j) ==
    Compiler(j) /\ cmd[j].link /\ pc[j] \in {"clean", "ok"} /\ ~Collides(j) =>
      /\ Output(j) \in DOMAIN files
      /\ ImageOf(j).src = Reverse([i \in DOMAIN cmd[j].inputs |-> SourceAt(j, i)])

JobOwns(j) == StubOwn(j) /\ ObjectsOwn(j) /\ ImageOwn(j)

SourcesOwn == \A j \in Jobs : JobOwns(j)

\* The files a job may write or remove.
Touches(j, f) ==
    \/ f = Output(j)
    \/ \E i \in 1 .. Inputs(j) : f = TmpCpp(j, i)
    \/ Compiler(j) /\ cmd[j].link /\ \E i \in 1 .. Inputs(j) : f = OutputAt(j, i)

Framed(j) == \A f : ~Touches(j, f) => (f \in DOMAIN files' <=> f \in DOMAIN files)
                                       /\ (f \in DOMAIN files => files'[f] = files[f])

\* No other job touches the files of a job that does not collide.
LEMMA Untouched ==
    ASSUME Shape, NEW j \in Jobs, NEW k \in Jobs, k # j
    PROVE  /\ \A i : ~Touches(j, TmpCpp(k, i))
           /\ ~Touches(j, Output(k))
           /\ Compiler(k) /\ cmd[k].link /\ ~Collides(k) =>
                \A i \in 1 .. Inputs(k) : ~Touches(j, OutputAt(k, i))
<1>1. \A i : OutputAt(j, i) \in {Output(j), TmpCc(cmd[j].inputs[i]), TmpObj(j, i)}
  BY DEF OutputAt
<1>2. \A i : ~Touches(j, TmpCpp(k, i))
  BY <1>1, NamesApart DEF Touches
<1>3. ~Touches(j, Output(k))
  BY <1>1, NamesApart DEF Touches
<1>4. ASSUME Compiler(k), cmd[k].link, NEW i \in 1 .. Inputs(k), Touches(j, OutputAt(k, i))
      PROVE  Collides(k)
  <2>1. CASE cmd[k].tool = "cc"
    <3>1. OutputAt(k, i) = TmpCc(cmd[k].inputs[i])
      BY <1>4, <2>1 DEF OutputAt
    <3>2. PICK h \in 1 .. Inputs(j) : Compiler(j) /\ cmd[j].link /\ OutputAt(k, i) = OutputAt(j, h)
      BY <1>4, <3>1, NamesApart DEF Touches
    <3>3. cmd[j].tool = "cc" /\ OutputAt(j, h) = TmpCc(cmd[j].inputs[h])
      BY <3>1, <3>2, NamesApart DEF OutputAt, Compiler
    <3>4. cmd[k].inputs[i] = cmd[j].inputs[h]
      BY <3>1, <3>2, <3>3, NamesApart
    <3>5. cmd[k].inputs[i] \in InputsOf(k) /\ cmd[j].inputs[h] \in InputsOf(j)
      BY CmdFacts DEF InputsOf, Elements, Shape
    <3>. QED
      BY <2>1, <3>3, <3>4, <3>5 DEF Collides
  <2>2. CASE cmd[k].tool # "cc"
    <3>1. OutputAt(k, i) = TmpObj(k, i)
      BY <1>4, <2>2 DEF OutputAt
    <3>. QED
      BY <1>1, <1>4, <3>1, NamesApart DEF Touches
  <2>. QED
    BY <2>1, <2>2
<1>. QED
  BY <1>2, <1>3, <1>4

LEMMA OthersOwn ==
    ASSUME Shape, SourcesOwn, NEW j \in Jobs, Others(j), Framed(j), NEW k \in Jobs, k # j
    PROVE  JobOwns(k)'
<1>1. pc'[k] = pc[k] /\ at'[k] = at[k] /\ cmd' = cmd
  BY DEF Others
<1>2. /\ (Compiler(k)' <=> Compiler(k)) /\ Inputs(k)' = Inputs(k) /\ (Collides(k)' <=> Collides(k))
      /\ \A i : OutputAt(k, i)' = OutputAt(k, i) /\ SourceAt(k, i)' = SourceAt(k, i)
  BY <1>1 DEF Compiler, Inputs, Collides, OutputAt, SourceAt, InputsOf
<1>3. JobOwns(k)
  BY DEF SourcesOwn
<1>4. StubOwn(k)'
  <2>1. ~Touches(j, TmpCpp(k, at[k])) /\ TmpCpp(k, at[k])' = TmpCpp(k, at[k])
    BY <1>1, Untouched DEF TmpCpp
  <2>2. /\ TmpCpp(k, at[k]) \in DOMAIN files' <=> TmpCpp(k, at[k]) \in DOMAIN files
        /\ TmpCpp(k, at[k]) \in DOMAIN files => files'[TmpCpp(k, at[k])] = files[TmpCpp(k, at[k])]
    BY <2>1 DEF Framed
  <2>3. SourceAt(k, at[k])' = SourceAt(k, at[k])
    BY <1>1 DEF SourceAt
  <2>. QED
    BY <1>1, <1>3, <2>1, <2>2, <2>3 DEF JobOwns, StubOwn
<1>5. ObjectsOwn(k)'
  <2>. SUFFICES ASSUME Compiler(k), cmd[k].link, pc[k] \in {"generate", "codegen", "compile", "link"},
                       ~Collides(k), NEW i \in 1 .. Inputs(k), pc[k] = "link" \/ i < at[k],
                       OutputAt(k, i) \in DOMAIN files'
                PROVE  files'[OutputAt(k, i)].src = SourceAt(k, i)
    BY <1>1, <1>2 DEF ObjectsOwn
  <2>1. ~Touches(j, OutputAt(k, i))
    BY Untouched
  <2>2. OutputAt(k, i) \in DOMAIN files /\ files'[OutputAt(k, i)] = files[OutputAt(k, i)]
    BY <2>1 DEF Framed
  <2>. QED
    BY <1>3, <2>2 DEF JobOwns, ObjectsOwn
<1>6. ImageOwn(k)'
  <2>. SUFFICES ASSUME Compiler(k), cmd[k].link, pc[k] \in {"clean", "ok"}, ~Collides(k)
                PROVE  /\ Output(k) \in DOMAIN files'
                       /\ files'[Output(k)].src =
                            Reverse([i \in DOMAIN cmd[k].inputs |-> SourceAt(k, i)])'
    BY <1>1, <1>2 DEF ImageOwn, ImageOf, Output
  <2>1. /\ Output(k) \in DOMAIN files
        /\ files[Output(k)].src = Reverse([i \in DOMAIN cmd[k].inputs |-> SourceAt(k, i)])
    BY <1>3 DEF JobOwns, ImageOwn, ImageOf
  <2>2. Output(k) \in DOMAIN files' /\ files'[Output(k)] = files[Output(k)]
    BY <2>1, Untouched DEF Framed
  <2>3. Reverse([i \in DOMAIN cmd[k].inputs |-> SourceAt(k, i)])'
          = Reverse([i \in DOMAIN cmd[k].inputs |-> SourceAt(k, i)])
    BY <1>1 DEF SourceAt
  <2>. QED
    BY <2>1, <2>2, <2>3
<1>. QED
  BY <1>4, <1>5, <1>6 DEF JobOwns

LEMMA AllOwn ==
    ASSUME Shape, SourcesOwn, NEW j \in Jobs, Others(j), Framed(j), JobOwns(j)'
    PROVE  SourcesOwn'
BY OthersOwn DEF SourcesOwn

LEMMA AbigenOwn ==
    ASSUME IInv, SourcesOwn, NEW j \in Jobs, NEW reused, Abigen(j, reused) \/ AbigenError(j)
    PROVE  SourcesOwn'
<1>1. /\ pc[j] = "generate" /\ UNCHANGED <<cmd, at, outs, tmp_files, files>>
      /\ Goto(j, "failed") \/ Goto(j, "codegen")
  BY DEF Abigen, AbigenError, Fail
<1>2. pc'[j] \in {"failed", "codegen"}
  BY <1>1 DEF Goto, IInv, Shape
<1>3. Others(j) /\ Framed(j)
  BY <1>1, AbigenStep DEF Framed
<1>4. /\ (Compiler(j)' <=> Compiler(j)) /\ Inputs(j)' = Inputs(j) /\ (Collides(j)' <=> Collides(j))
      /\ \A i : OutputAt(j, i)' = OutputAt(j, i) /\ SourceAt(j, i)' = SourceAt(j, i)
  BY <1>1 DEF Compiler, Inputs, Collides, OutputAt, SourceAt, InputsOf
<1>5. JobOwns(j)
  BY DEF SourcesOwn
<1>6. ObjectsOwn(j)'
  BY <1>1, <1>2, <1>4, <1>5 DEF JobOwns, ObjectsOwn
<1>7. JobOwns(j)'
  BY <1>2, <1>6 DEF JobOwns, StubOwn, ImageOwn
<1>. QED
  BY <1>3, <1>7, AllOwn DEF IInv

LEMMA CodegenOwn ==
    ASSUME IInv, SourcesOwn, NEW j \in Jobs, NEW bad \in BOOLEAN, Codegen(j, bad)
    PROVE  SourcesOwn'
<1>1. PICK fs :
        /\ pc[j] = "codegen" /\ UNCHANGED <<cmd, at>>
        /\ (fs = files /\ tmp_files' = tmp_files) \/ Stubbed(j, fs, tmp_files')
        /\ \/ Goto(j, "failed") /\ outs' = outs /\ files' = fs
           \/ /\ Goto(j, "compile")
              /\ outs' = [outs EXCEPT ![j] = Append(@, OutputOf(j))]
              /\ files' = IF cmd[j].link THEN WithFile(fs, OutputOf(j), EmptyFile) ELSE fs
  BY CodegenEffect
<1>2. Shape /\ Others(j)
  BY CodegenStep DEF IInv
<1>3. cmd[j].tool = "cpp" /\ Compiler(j) /\ Inputs(j) \in Nat /\ at[j] \in 1 .. Inputs(j)
  BY <1>1, <1>2, PlaceFacts, CmdFacts DEF JobShape, Shape
<1>4. pc'[j] \in {"failed", "compile"}
  BY <1>1, <1>2 DEF Goto, Shape
<1>5. PICK x : /\ x.src = SourceAt(j, at[j])
               /\ fs = files \/ fs = WithFile(files, TmpCpp(j, at[j]), x)
  <2>1. CASE Stubbed(j, fs, tmp_files')
    BY <2>1 DEF Stubbed
  <2>2. CASE fs = files
    <3>1. Object(SourceAt(j, at[j]), {}, NoAbi).src = SourceAt(j, at[j])
      BY DEF Object
    <3>. QED
      BY <2>2, <3>1
  <2>. QED
    BY <1>1, <2>1, <2>2
<1>6. \/ files' = fs
      \/ cmd[j].link /\ files' = WithFile(fs, OutputAt(j, at[j]), EmptyFile)
  BY <1>1 DEF OutputOf
<1>7. Framed(j)
  <2>. SUFFICES ASSUME NEW f, ~Touches(j, f)
                PROVE  /\ f \in DOMAIN files' <=> f \in DOMAIN files
                       /\ f \in DOMAIN files => files'[f] = files[f]
    BY DEF Framed
  <2>1. f # TmpCpp(j, at[j]) /\ (cmd[j].link => f # OutputAt(j, at[j]))
    BY <1>3 DEF Touches
  <2>2. (f \in DOMAIN fs <=> f \in DOMAIN files) /\ (f \in DOMAIN files => fs[f] = files[f])
    BY <1>5, <2>1 DEF WithFile
  <2>. QED
    BY <1>6, <2>1, <2>2 DEF WithFile
<1>8. /\ (Compiler(j)' <=> Compiler(j)) /\ Inputs(j)' = Inputs(j) /\ (Collides(j)' <=> Collides(j))
      /\ \A i : OutputAt(j, i)' = OutputAt(j, i) /\ SourceAt(j, i)' = SourceAt(j, i)
      /\ cmd' = cmd /\ at'[j] = at[j]
  BY <1>1 DEF Compiler, Inputs, Collides, OutputAt, SourceAt, InputsOf
<1>9. \A i : cmd[j].link => OutputAt(j, i) = TmpObj(j, i)
  BY <1>3 DEF OutputAt
<1>10. StubOwn(j)'
  <2>. DEFINE f == TmpCpp(j, at[j])
  <2>1. f \notin DOMAIN files
    BY <1>1, StubIsOwned DEF StubOf
  <2>2. f \in DOMAIN fs => fs[f].src = SourceAt(j, at[j])
    BY <1>5, <2>1 DEF WithFile
  <2>3. cmd[j].link => f # OutputAt(j, at[j])
    BY <1>9, NamesApart
  <2>4. f \in DOMAIN files' => f \in DOMAIN fs /\ files'[f] = fs[f]
    BY <1>6, <2>3 DEF WithFile
  <2>5. f \in DOMAIN files' => files'[f].src = SourceAt(j, at[j])
    BY <2>2, <2>4
  <2>6. TmpCpp(j, at[j])' = f /\ SourceAt(j, at[j])' = SourceAt(j, at[j])
    BY <1>8 DEF TmpCpp, SourceAt
  <2>. HIDE DEF f
  <2>. QED
    BY <2>5, <2>6 DEF StubOwn
<1>11. ObjectsOwn(j)'
  <2>. SUFFICES ASSUME cmd[j].link, ~Collides(j), NEW i \in 1 .. Inputs(j), i < at[j],
                       OutputAt(j, i) \in DOMAIN files'
                PROVE  files'[OutputAt(j, i)].src = SourceAt(j, i)
    BY <1>4, <1>8 DEF ObjectsOwn
  <2>1. OutputAt(j, i) # OutputAt(j, at[j]) /\ OutputAt(j, i) # TmpCpp(j, at[j])
    BY <1>3, <1>9, NamesApart
  <2>2. OutputAt(j, i) \in DOMAIN files /\ files'[OutputAt(j, i)] = files[OutputAt(j, i)]
    BY <1>5, <1>6, <2>1 DEF WithFile
  <2>. QED
    BY <1>1, <1>3, <2>2 DEF SourcesOwn, JobOwns, ObjectsOwn
<1>12. JobOwns(j)'
  BY <1>4, <1>10, <1>11 DEF JobOwns, ImageOwn
<1>. QED
  BY <1>2, <1>7, <1>12, AllOwn

\* What clang wrote.
LEMMA CompiledOwn ==
    ASSUME IInv, SourcesOwn, NEW j \in Jobs, Compile(j)
    PROVE  CompiledObject(j).src = SourceAt(j, at[j])
<1>1. CASE Redirected(j)
  <2>1. StdinFile(j) = TmpCpp(j, at[j]) /\ Exists(StdinFile(j))
    BY <1>1, StdinIsCurrent DEF Compile
  <2>2. StubOwn(j) /\ cmd[j].tool = "cpp" /\ pc[j] = "compile"
    BY <1>1 DEF SourcesOwn, JobOwns, Redirected, Compile
  <2>. QED
    BY <1>1, <2>1, <2>2 DEF CompiledObject, StubOwn, Exists
<1>2. CASE ~Redirected(j)
  BY <1>2 DEF CompiledObject, Object, SourceAt, Input
<1>. QED
  BY <1>1, <1>2

LEMMA CompileOwn ==
    ASSUME IInv, SourcesOwn, NEW j \in Jobs, Compile(j)
    PROVE  SourcesOwn'
<1>1. /\ pc[j] = "compile" /\ Compiler(j) /\ cmd' = cmd
      /\ Inputs(j) \in Nat /\ at[j] \in 1 .. Inputs(j) /\ Others(j)
      /\ \/ /\ at[j] < Inputs(j) /\ at'[j] = at[j] + 1
            /\ pc'[j] = IF cmd[j].tool = "cpp" THEN "generate" ELSE "compile"
         \/ /\ at[j] = Inputs(j) /\ at'[j] = at[j]
            /\ pc'[j] = IF cmd[j].link THEN "link" ELSE "ok"
      /\ files' = Without(WithFile(files, OutputAt(j, at[j]), CompiledObject(j)), Spent(j))
  BY CompileEffect
<1>2. \A f \in Spent(j) : \E i \in 1 .. Inputs(j) : f = TmpCpp(j, i)
  BY DEF IInv, Shape, JobShape, Spent, Redirected, StdinFile
<1>3. Framed(j)
  <2>. SUFFICES ASSUME NEW f, ~Touches(j, f)
                PROVE  /\ f \in DOMAIN files' <=> f \in DOMAIN files
                       /\ f \in DOMAIN files => files'[f] = files[f]
    BY DEF Framed
  <2>1. f \notin Spent(j)
    BY <1>2 DEF Touches
  <2>2. f # OutputAt(j, at[j])
    <3>1. CASE cmd[j].link
      BY <1>1, <3>1 DEF Touches
    <3>2. CASE ~cmd[j].link
      BY <3>2 DEF Touches, OutputAt
    <3>. QED
      BY <3>1, <3>2
  <2>. QED
    BY <1>1, <2>1, <2>2 DEF Without, WithFile
<1>4. /\ (Compiler(j)' <=> Compiler(j)) /\ Inputs(j)' = Inputs(j) /\ (Collides(j)' <=> Collides(j))
      /\ \A i : OutputAt(j, i)' = OutputAt(j, i) /\ SourceAt(j, i)' = SourceAt(j, i)
  BY <1>1 DEF Compiler, Inputs, Collides, OutputAt, SourceAt, InputsOf
<1>5. StubOwn(j)'
  BY <1>1 DEF StubOwn
<1>6. ImageOwn(j)'
  BY <1>1 DEF ImageOwn
<1>7. ObjectsOwn(j)'
  <2>. SUFFICES ASSUME cmd[j].link, ~Collides(j), NEW i \in 1 .. Inputs(j),
                       pc'[j] = "link" \/ i < at'[j], OutputAt(j, i) \in DOMAIN files'
                PROVE  files'[OutputAt(j, i)].src = SourceAt(j, i)
    BY <1>1, <1>4 DEF ObjectsOwn
  <2>1. i <= at[j]
    BY <1>1
  <2>2. CASE OutputAt(j, i) = OutputAt(j, at[j])
    <3>1. files'[OutputAt(j, i)] = CompiledObject(j)
      BY <1>1, <2>2 DEF Without, WithFile
    <3>2. SourceAt(j, i) = SourceAt(j, at[j])
      BY <2>2, NamesApart DEF OutputAt, SourceAt
    <3>. QED
      BY <3>1, <3>2, CompiledOwn
  <2>3. CASE OutputAt(j, i) # OutputAt(j, at[j])
    <3>1. OutputAt(j, i) \in DOMAIN files /\ files'[OutputAt(j, i)] = files[OutputAt(j, i)]
      BY <1>1, <2>3 DEF Without, WithFile
    <3>2. i < at[j]
      BY <1>1, <2>1, <2>3
    <3>. QED
      BY <1>1, <3>1, <3>2 DEF SourcesOwn, JobOwns, ObjectsOwn
  <2>. QED
    BY <2>2, <2>3
<1>. QED
  BY <1>1, <1>3, <1>5, <1>6, <1>7, AllOwn DEF JobOwns, IInv

LEMMA CompileErrorOwn ==
    ASSUME IInv, SourcesOwn, NEW j \in Jobs, CompileError(j)
    PROVE  SourcesOwn'
<1>1. /\ Goto(j, "failed") /\ files' = Without(files, Spent(j)) /\ cmd' = cmd
  BY DEF CompileError, Fail
<1>2. pc'[j] = "failed" /\ Others(j)
  BY <1>1, CompileErrorStep DEF Goto, IInv, Shape
<1>3. \A f \in Spent(j) : \E i \in 1 .. Inputs(j) : f = TmpCpp(j, i)
  BY DEF IInv, Shape, JobShape, Spent, Redirected, StdinFile
<1>4. Framed(j)
  BY <1>1, <1>3 DEF Framed, Touches, Without
<1>5. JobOwns(j)'
  BY <1>2 DEF JobOwns, StubOwn, ObjectsOwn, ImageOwn
<1>. QED
  BY <1>2, <1>4, <1>5, AllOwn DEF IInv

\* The linker is given the objects of the job's own inputs.
LEMMA LinkedImage ==
    ASSUME IInv, SourcesOwn, NEW j \in Jobs, Compiler(j), Link(j), ~Collides(j)
    PROVE  Image(ObjectsOf(j)).src = Reverse([i \in DOMAIN cmd[j].inputs |-> SourceAt(j, i)])
<1>. DEFINE n == Inputs(j)
<1>1. pc[j] = "link" /\ cmd[j].link /\ cmd[j].tool # "ld" /\ Linkable(j)
  BY PlaceFacts DEF Link, IInv, Compiler
<1>2. n \in Nat /\ DOMAIN cmd[j].inputs = 1 .. n
  BY CmdFacts DEF IInv, Shape
<1>3. Made(j) = n
  BY <1>1 DEF Made
<1>4. outs[j] = [i \in 1 .. n |-> OutputAt(j, i)]
  BY <1>1, <1>3 DEF IInv, Shape, JobShape
<1>. HIDE DEF n
<1>5. Len(outs[j]) = n
  BY <1>2, <1>4
<1>6. LinkInputs(j) = [i \in 1 .. n |-> OutputAt(j, (n - i) + 1)]
  <2>1. LinkInputs(j) = [i \in 1 .. n |-> outs[j][(n - i) + 1]]
    BY <1>1, <1>5 DEF LinkInputs, Reverse
  <2>2. \A i \in 1 .. n : outs[j][(n - i) + 1] = OutputAt(j, (n - i) + 1)
    BY <1>2, <1>4
  <2>. QED
    BY <2>1, <2>2
<1>7. DOMAIN ObjectsOf(j) = 1 .. n
      /\ \A i \in 1 .. n : ObjectsOf(j)[i] = files[OutputAt(j, (n - i) + 1)]
  BY <1>6 DEF ObjectsOf
<1>8. ASSUME NEW i \in 1 .. n
      PROVE  ObjectsOf(j)[i].src = SourceAt(j, (n - i) + 1)
  <2>1. (n - i) + 1 \in 1 .. n
    BY <1>2
  <2>2. OutputAt(j, (n - i) + 1) \in DOMAIN files
    BY <1>1, <1>6 DEF Linkable, Exists
  <2>3. files[OutputAt(j, (n - i) + 1)].src = SourceAt(j, (n - i) + 1)
    BY <1>1, <2>1, <2>2 DEF SourcesOwn, JobOwns, ObjectsOwn, n
  <2>. QED
    BY <1>7, <2>3
<1>9. Image(ObjectsOf(j)).src = [i \in 1 .. n |-> ObjectsOf(j)[i].src]
  <2>1. Image(ObjectsOf(j)).src = [i \in DOMAIN ObjectsOf(j) |-> ObjectsOf(j)[i].src]
    BY DEF Image, Object
  <2>. QED
    BY <1>7, <2>1
<1>10. Reverse([i \in 1 .. n |-> SourceAt(j, i)]) = [i \in 1 .. n |-> SourceAt(j, (n - i) + 1)]
  <2>. DEFINE s == [i \in 1 .. n |-> SourceAt(j, i)]
  <2>1. Len(s) = n
    BY <1>2
  <2>2. \A i \in 1 .. n : s[(n - i) + 1] = SourceAt(j, (n - i) + 1)
    BY <1>2
  <2>. HIDE DEF s
  <2>3. Reverse(s) = [i \in 1 .. n |-> s[(n - i) + 1]]
    BY <2>1 DEF Reverse
  <2>4. Reverse(s) = [i \in 1 .. n |-> SourceAt(j, (n - i) + 1)]
    BY <2>2, <2>3
  <2>. QED
    BY <2>4 DEF s
<1>. QED
  BY <1>2, <1>8, <1>9, <1>10

LEMMA LinkOwn ==
    ASSUME IInv, SourcesOwn, NEW j \in Jobs, StartLd(j) \/ Link(j) \/ LinkError(j)
    PROVE  SourcesOwn'
<1>1. cmd' = cmd /\ (files' = files \/ \E x : files' = WithFile(files, Output(j), x))
  BY DEF StartLd, Link, LinkError
<1>2. Others(j)
  BY LinkSteps
<1>3. Framed(j)
  BY <1>1 DEF Framed, Touches, WithFile
<1>4. JobOwns(j)'
  <2>1. CASE ~Compiler(j)
    BY <1>1, <2>1 DEF JobOwns, StubOwn, ObjectsOwn, ImageOwn, Compiler
  <2>2. CASE Compiler(j) /\ Link(j)
    <3>1. pc'[j] = "clean" /\ files' = WithFile(files, Output(j), Image(ObjectsOf(j)))
      BY <2>2, LinkSteps DEF Link
    <3>2. Output(j) \in DOMAIN files' /\ files'[Output(j)] = Image(ObjectsOf(j))
      BY <3>1 DEF WithFile
    <3>3. (Collides(j)' <=> Collides(j)) /\ cmd'[j] = cmd[j]
      BY <1>1 DEF Collides, InputsOf
    <3>4. Reverse([i \in DOMAIN cmd[j].inputs |-> SourceAt(j, i)])'
            = Reverse([i \in DOMAIN cmd[j].inputs |-> SourceAt(j, i)])
      BY <1>1 DEF SourceAt
    <3>5. ~Collides(j)' => ImageOf(j)'.src = Reverse([i \in DOMAIN cmd[j].inputs |-> SourceAt(j, i)])'
      BY <2>2, <3>2, <3>3, <3>4, LinkedImage DEF ImageOf, Output
    <3>6. ImageOwn(j)'
      BY <3>2, <3>5 DEF ImageOwn, Output
    <3>. QED
      BY <3>1, <3>6 DEF JobOwns, StubOwn, ObjectsOwn
  <2>3. CASE Compiler(j) /\ StartLd(j)
    BY <2>3, PlaceFacts DEF StartLd, IInv, Compiler
  <2>4. CASE Compiler(j) /\ LinkError(j)
    <3>1. pc'[j] = "undo"
      BY <2>4 DEF LinkError, Goto, IInv, Shape, Compiler
    <3>. QED
      BY <3>1 DEF JobOwns, StubOwn, ObjectsOwn, ImageOwn
  <2>. QED
    BY <2>1, <2>2, <2>3, <2>4
<1>. QED
  BY <1>2, <1>3, <1>4, AllOwn DEF IInv

LEMMA CleanOwn ==
    ASSUME IInv, SourcesOwn, NEW j \in Jobs, Clean(j)
    PROVE  SourcesOwn'
<1>1. /\ Others(j) /\ cmd' = cmd
      /\ files' = Without(files, {OutputAt(j, i) : i \in 1 .. Inputs(j)})
      /\ pc'[j] = IF pc[j] = "clean" THEN "ok" ELSE "failed"
      /\ Compiler(j) /\ cmd[j].link
  BY CleanStep, PlaceFacts DEF Clean, IInv
<1>2. Framed(j)
  BY <1>1 DEF Framed, Touches, Without
<1>3. \A i : OutputAt(j, i) # Output(j)
  BY <1>1, NamesApart DEF OutputAt
<1>4. Output(j) \in DOMAIN files => Output(j) \in DOMAIN files' /\ files'[Output(j)] = files[Output(j)]
  BY <1>1, <1>3 DEF Without
<1>5. ImageOwn(j)'
  <2>1. (Collides(j)' <=> Collides(j)) /\ (Compiler(j)' <=> Compiler(j))
    BY <1>1 DEF Collides, InputsOf, Compiler
  <2>2. Reverse([i \in DOMAIN cmd[j].inputs |-> SourceAt(j, i)])'
          = Reverse([i \in DOMAIN cmd[j].inputs |-> SourceAt(j, i)])
    BY <1>1 DEF SourceAt
  <2>3. ImageOwn(j)
    BY DEF SourcesOwn, JobOwns
  <2>4. SUFFICES ASSUME pc'[j] = "ok", ~Collides(j)
                 PROVE  /\ Output(j) \in DOMAIN files'
                        /\ files'[Output(j)].src =
                             Reverse([i \in DOMAIN cmd[j].inputs |-> SourceAt(j, i)])
    BY <1>1, <2>1, <2>2 DEF ImageOwn, ImageOf, Output
  <2>5. pc[j] = "clean"
    BY <1>1, <2>4
  <2>. QED
    BY <1>1, <1>4, <2>3, <2>4, <2>5 DEF ImageOwn, ImageOf
<1>6. JobOwns(j)'
  BY <1>1, <1>5 DEF JobOwns, StubOwn, ObjectsOwn
<1>. QED
  BY <1>1, <1>2, <1>6, AllOwn DEF IInv

LEMMA SourcesKept ==
    ASSUME IInv, SourcesOwn, [Next]_vars
    PROVE  SourcesOwn'
<1>1. CASE UNCHANGED vars
  <2>1. /\ cmd' = cmd /\ pc' = pc /\ at' = at /\ files' = files
    BY <1>1 DEF vars
  <2>2. ASSUME NEW j \in Jobs
        PROVE  JobOwns(j)'
    <3>1. JobOwns(j)
      BY DEF SourcesOwn
    <3>2. (StubOwn(j)' <=> StubOwn(j)) /\ (ObjectsOwn(j)' <=> ObjectsOwn(j))
      BY <2>1 DEF StubOwn, ObjectsOwn, Compiler, Inputs, Collides, InputsOf, OutputAt, SourceAt
    <3>3. Reverse([i \in DOMAIN cmd[j].inputs |-> SourceAt(j, i)])'
            = Reverse([i \in DOMAIN cmd[j].inputs |-> SourceAt(j, i)])
      BY <2>1 DEF SourceAt
    <3>4. (Collides(j)' <=> Collides(j)) /\ (Compiler(j)' <=> Compiler(j)) /\ ImageOf(j)' = ImageOf(j)
      BY <2>1 DEF Collides, InputsOf, Compiler, ImageOf
    <3>5. ImageOwn(j)' <=> ImageOwn(j)
      BY <2>1, <3>3, <3>4 DEF ImageOwn
    <3>. QED
      BY <3>1, <3>2, <3>5 DEF JobOwns
  <2>. QED
    BY <2>2 DEF SourcesOwn
<1>2. ASSUME NEW j \in Jobs, Step(j)
      PROVE  SourcesOwn'
  BY <1>2, AbigenOwn, CodegenOwn, CompileOwn, CompileErrorOwn, LinkOwn, CleanOwn DEF Step
<1>. QED
  BY <1>1, <1>2 DEF Next, Rest

\* cdt-cpp and cdt-cc link the objects of their own sources, each once and
\* whatever other jobs do meanwhile, unless another cdt-cc compiles a file of
\* the same name.
THEOREM OwnSourcesLinked == Spec => []LinkedOwnSources
<1>1. Init => SourcesOwn
  <2>. SUFFICES ASSUME Init, NEW j \in Jobs
                PROVE  JobOwns(j)
    BY DEF SourcesOwn
  <2>1. files = << >> /\ at[j] = 1 /\ Inputs(j) \in Nat
    BY CmdFacts DEF Init
  <2>2. pc[j] \notin {"link", "clean"} /\ (Compiler(j) => pc[j] # "ok")
    BY DEF Init, Compiler
  <2>. QED
    BY <2>1, <2>2 DEF JobOwns, StubOwn, ObjectsOwn, ImageOwn
<1>2. IInv /\ SourcesOwn => LinkedOwnSources
  <2>. SUFFICES ASSUME IInv, SourcesOwn, NEW j \in Jobs, Linked(j), cmd[j].tool # "ld", ~Collides(j)
                PROVE  ImageOf(j).src =
                         Reverse([i \in DOMAIN cmd[j].inputs |-> Source(j, cmd[j].inputs[i])])
    BY DEF LinkedOwnSources, Collides
  <2>1. Compiler(j) /\ cmd[j].link /\ pc[j] = "ok"
    BY CmdFacts DEF IInv, Shape, Linked, Compiler
  <2>. QED
    BY <2>1 DEF SourcesOwn, JobOwns, ImageOwn, SourceAt
<1>. QED
  BY <1>1, <1>2, Owned, SourcesKept, PTL DEF Spec

-----------------------------------------------------------------------------
(* Walks through sequences.                                                *)

\* A set of naturals that is not empty has a least member.
LEMMA Smallest ==
    ASSUME NEW S \in SUBSET Nat, S # {}
    PROVE  \E n \in S : \A k \in S : n <= k
<1>1. PICK n \in S : \A k \in S : ~(<<k, n>> \in OpToRel(<, Nat))
  BY NatLessThanWellFounded, WFMin, Zenon
<1>2. \A k \in S : ~(k < n)
  BY <1>1 DEF OpToRel
<1>. QED
  BY <1>2

\* Induction along a sequence.
LEMMA UpToN ==
    ASSUME NEW n \in Nat, NEW Q, 0 \in Q, \A i \in 1 .. n : i - 1 \in Q => i \in Q
    PROVE  \A i \in 0 .. n : i \in Q
<1>. DEFINE Bad == {i \in 0 .. n : i \notin Q}
<1>1. SUFFICES ASSUME Bad # {}
               PROVE  FALSE
  OBVIOUS
<1>2. PICK e \in Bad : \A c \in Bad : e <= c
  <2>1. Bad \in SUBSET Nat
    OBVIOUS
  <2>. HIDE DEF Bad
  <2>. QED
    BY <1>1, <2>1, Smallest
<1>3. e \in 1 .. n
  BY <1>2
<1>4. e - 1 \notin Bad /\ e - 1 \in 0 .. n
  BY <1>2, <1>3
<1>. QED
  BY <1>2, <1>3, <1>4

\* The clauses come first.
WithClauses(g) == [g EXCEPT !.abi.sec["ricardian_clauses"] = @ \cup Clauses]

\* What abigen makes of a unit: it goes through the declarations.
AbiStep(unit, g, f, i) == IF i = 0 THEN WithClauses(g) ELSE VisitForAbi(unit[i], f[i - 1])

AbiUpTo(unit, g, n, f) == f = [i \in 0 .. n |-> AbiStep(unit, g, f, i)]

AbiWalks(unit, g, w) ==
    /\ w[0] = WithClauses(g)
    /\ \A i \in 1 .. Len(unit) : w[i] = VisitForAbi(unit[i], w[i - 1])
    /\ AbiOfUnit(unit, g) = w[Len(unit)]

LEMMA AbiWalk ==
    ASSUME NEW unit, Len(unit) \in Nat, NEW g
    PROVE  \E w : AbiWalks(unit, g, w)
<1>. DEFINE Q == {n \in 0 .. Len(unit) : \E f : AbiUpTo(unit, g, n, f)}
<1>1. 0 \in Q
  <2>. DEFINE e == [i \in 0 .. 0 |-> WithClauses(g)]
  <2>1. AbiUpTo(unit, g, 0, e)
    BY DEF AbiUpTo, AbiStep
  <2>. QED
    BY <2>1
<1>2. ASSUME NEW n \in 1 .. Len(unit), n - 1 \in Q
      PROVE  n \in Q
  <2>1. PICK e : AbiUpTo(unit, g, n - 1, e)
    BY <1>2
  <2>. DEFINE h == [i \in 0 .. n |-> AbiStep(unit, g, e, i)]
  <2>2. \A i \in 0 .. n - 1 : h[i] = e[i]
    BY <2>1 DEF AbiUpTo
  <2>3. \A i \in 0 .. n : i # 0 => i - 1 \in 0 .. n - 1
    OBVIOUS
  <2>4. ASSUME NEW i \in 0 .. n
        PROVE  AbiStep(unit, g, e, i) = AbiStep(unit, g, h, i)
    <3>1. CASE i = 0
      BY <3>1 DEF AbiStep
    <3>2. CASE i # 0
      <4>1. h[i - 1] = e[i - 1]
        BY <2>2, <2>3, <3>2
      <4>. HIDE DEF h
      <4>. QED
        BY <3>2, <4>1 DEF AbiStep
    <3>. QED
      BY <3>1, <3>2
  <2>5. h = [i \in 0 .. n |-> AbiStep(unit, g, h, i)]
    BY <2>4
  <2>. HIDE DEF h
  <2>6. AbiUpTo(unit, g, n, h)
    BY <2>5 DEF AbiUpTo
  <2>. QED
    BY <2>6
<1>. HIDE DEF Q
<1>3. Len(unit) \in Q
  <2>1. \A i \in 0 .. Len(unit) : i \in Q
    BY <1>1, <1>2, UpToN
  <2>. QED
    BY <2>1
<1>4. PICK e : AbiUpTo(unit, g, Len(unit), e)
  BY <1>3 DEF Q
<1>. DEFINE w == CHOOSE f : f = [i \in 0 .. Len(unit) |-> IF i = 0 THEN WithClauses(g) ELSE VisitForAbi(unit[i], f[i - 1])]
<1>5. w = [i \in 0 .. Len(unit) |-> IF i = 0 THEN WithClauses(g) ELSE VisitForAbi(unit[i], w[i - 1])]
  BY <1>4 DEF AbiUpTo, AbiStep
<1>6. AbiOfUnit(unit, g) = w[Len(unit)]
  BY DEF AbiOfUnit, Traversed, WithClauses
<1>. HIDE DEF w
<1>7. w[0] = WithClauses(g)
  BY <1>5
<1>8. \A i \in 1 .. Len(unit) : w[i] = VisitForAbi(unit[i], w[i - 1])
  <2>. TAKE i \in 1 .. Len(unit)
  <2>1. i \in 0 .. Len(unit) /\ i # 0
    OBVIOUS
  <2>. QED
    BY <1>5, <2>1
<1>. QED
  BY <1>6, <1>7, <1>8 DEF AbiWalks

\* ... and the code generator.
CodeStep(unit, g, f, i) == IF i = 0 THEN [cg |-> g, disp |-> {}, error |-> FALSE] ELSE VisitForCode(unit[i], f[i - 1])

CodeUpTo(unit, g, n, f) == f = [i \in 0 .. n |-> CodeStep(unit, g, f, i)]

CodeWalks(unit, g, w) ==
    /\ w[0] = [cg |-> g, disp |-> {}, error |-> FALSE]
    /\ \A i \in 1 .. Len(unit) : w[i] = VisitForCode(unit[i], w[i - 1])
    /\ CodeOfUnit(unit, g) = w[Len(unit)]

LEMMA CodeWalk ==
    ASSUME NEW unit, Len(unit) \in Nat, NEW g
    PROVE  \E w : CodeWalks(unit, g, w)
<1>. DEFINE Q == {n \in 0 .. Len(unit) : \E f : CodeUpTo(unit, g, n, f)}
<1>1. 0 \in Q
  <2>. DEFINE e == [i \in 0 .. 0 |-> [cg |-> g, disp |-> {}, error |-> FALSE]]
  <2>1. CodeUpTo(unit, g, 0, e)
    BY DEF CodeUpTo, CodeStep
  <2>. QED
    BY <2>1
<1>2. ASSUME NEW n \in 1 .. Len(unit), n - 1 \in Q
      PROVE  n \in Q
  <2>1. PICK e : CodeUpTo(unit, g, n - 1, e)
    BY <1>2
  <2>. DEFINE h == [i \in 0 .. n |-> CodeStep(unit, g, e, i)]
  <2>2. \A i \in 0 .. n - 1 : h[i] = e[i]
    BY <2>1 DEF CodeUpTo
  <2>3. \A i \in 0 .. n : i # 0 => i - 1 \in 0 .. n - 1
    OBVIOUS
  <2>4. ASSUME NEW i \in 0 .. n
        PROVE  CodeStep(unit, g, e, i) = CodeStep(unit, g, h, i)
    <3>1. CASE i = 0
      BY <3>1 DEF CodeStep
    <3>2. CASE i # 0
      <4>1. h[i - 1] = e[i - 1]
        BY <2>2, <2>3, <3>2
      <4>. HIDE DEF h
      <4>. QED
        BY <3>2, <4>1 DEF CodeStep
    <3>. QED
      BY <3>1, <3>2
  <2>5. h = [i \in 0 .. n |-> CodeStep(unit, g, h, i)]
    BY <2>4
  <2>. HIDE DEF h
  <2>6. CodeUpTo(unit, g, n, h)
    BY <2>5 DEF CodeUpTo
  <2>. QED
    BY <2>6
<1>. HIDE DEF Q
<1>3. Len(unit) \in Q
  <2>1. \A i \in 0 .. Len(unit) : i \in Q
    BY <1>1, <1>2, UpToN
  <2>. QED
    BY <2>1
<1>4. PICK e : CodeUpTo(unit, g, Len(unit), e)
  BY <1>3 DEF Q
<1>. DEFINE w == CHOOSE f : f = [i \in 0 .. Len(unit) |-> IF i = 0 THEN [cg |-> g, disp |-> {}, error |-> FALSE] ELSE VisitForCode(unit[i], f[i - 1])]
<1>5. w = [i \in 0 .. Len(unit) |-> IF i = 0 THEN [cg |-> g, disp |-> {}, error |-> FALSE] ELSE VisitForCode(unit[i], w[i - 1])]
  BY <1>4 DEF CodeUpTo, CodeStep
<1>6. CodeOfUnit(unit, g) = w[Len(unit)]
  BY DEF CodeOfUnit, Traversed
<1>. HIDE DEF w
<1>7. w[0] = [cg |-> g, disp |-> {}, error |-> FALSE]
  BY <1>5
<1>8. \A i \in 1 .. Len(unit) : w[i] = VisitForCode(unit[i], w[i - 1])
  <2>. TAKE i \in 1 .. Len(unit)
  <2>1. i \in 0 .. Len(unit) /\ i # 0
    OBVIOUS
  <2>. QED
    BY <1>5, <2>1
<1>. QED
  BY <1>6, <1>7, <1>8 DEF CodeWalks

\* ... and the linker, of the objects.
LinkStep(unit, f, i) == IF i = 0 THEN [ok |-> TRUE, abi |-> NoAbi] ELSE MergeInto(f[i - 1], unit[i])

LinkUpTo(unit, n, f) == f = [i \in 0 .. n |-> LinkStep(unit, f, i)]

LinkWalks(unit, w) ==
    /\ w[0] = [ok |-> TRUE, abi |-> NoAbi]
    /\ \A i \in 1 .. Len(unit) : w[i] = MergeInto(w[i - 1], unit[i])
    /\ LinkedAbi(unit) = w[Len(unit)]

LEMMA LinkWalk ==
    ASSUME NEW unit, Len(unit) \in Nat
    PROVE  \E w : LinkWalks(unit, w)
<1>. DEFINE Q == {n \in 0 .. Len(unit) : \E f : LinkUpTo(unit, n, f)}
<1>1. 0 \in Q
  <2>. DEFINE e == [i \in 0 .. 0 |-> [ok |-> TRUE, abi |-> NoAbi]]
  <2>1. LinkUpTo(unit, 0, e)
    BY DEF LinkUpTo, LinkStep
  <2>. QED
    BY <2>1
<1>2. ASSUME NEW n \in 1 .. Len(unit), n - 1 \in Q
      PROVE  n \in Q
  <2>1. PICK e : LinkUpTo(unit, n - 1, e)
    BY <1>2
  <2>. DEFINE h == [i \in 0 .. n |-> LinkStep(unit, e, i)]
  <2>2. \A i \in 0 .. n - 1 : h[i] = e[i]
    BY <2>1 DEF LinkUpTo
  <2>3. \A i \in 0 .. n : i # 0 => i - 1 \in 0 .. n - 1
    OBVIOUS
  <2>4. ASSUME NEW i \in 0 .. n
        PROVE  LinkStep(unit, e, i) = LinkStep(unit, h, i)
    <3>1. CASE i = 0
      BY <3>1 DEF LinkStep
    <3>2. CASE i # 0
      <4>1. h[i - 1] = e[i - 1]
        BY <2>2, <2>3, <3>2
      <4>. HIDE DEF h
      <4>. QED
        BY <3>2, <4>1 DEF LinkStep
    <3>. QED
      BY <3>1, <3>2
  <2>5. h = [i \in 0 .. n |-> LinkStep(unit, h, i)]
    BY <2>4
  <2>. HIDE DEF h
  <2>6. LinkUpTo(unit, n, h)
    BY <2>5 DEF LinkUpTo
  <2>. QED
    BY <2>6
<1>. HIDE DEF Q
<1>3. Len(unit) \in Q
  <2>1. \A i \in 0 .. Len(unit) : i \in Q
    BY <1>1, <1>2, UpToN
  <2>. QED
    BY <2>1
<1>4. PICK e : LinkUpTo(unit, Len(unit), e)
  BY <1>3 DEF Q
<1>. DEFINE w == CHOOSE f : f = [i \in 0 .. Len(unit) |-> IF i = 0 THEN [ok |-> TRUE, abi |-> NoAbi] ELSE MergeInto(f[i - 1], unit[i])]
<1>5. w = [i \in 0 .. Len(unit) |-> IF i = 0 THEN [ok |-> TRUE, abi |-> NoAbi] ELSE MergeInto(w[i - 1], unit[i])]
  BY <1>4 DEF LinkUpTo, LinkStep
<1>6. LinkedAbi(unit) = w[Len(unit)]
  BY DEF LinkedAbi
<1>. HIDE DEF w
<1>7. w[0] = [ok |-> TRUE, abi |-> NoAbi]
  BY <1>5
<1>8. \A i \in 1 .. Len(unit) : w[i] = MergeInto(w[i - 1], unit[i])
  <2>. TAKE i \in 1 .. Len(unit)
  <2>1. i \in 0 .. Len(unit) /\ i # 0
    OBVIOUS
  <2>. QED
    BY <1>5, <2>1
<1>. QED
  BY <1>6, <1>7, <1>8 DEF LinkWalks

-----------------------------------------------------------------------------
(* What abigen keeps.                                                      *)

TypeSections == {"types", "structs", "variants"}

AbiGenOk(g) ==
    /\ DOMAIN g = {"abi", "ctables", "evaluated"}
    /\ DOMAIN g.abi = {"version", "sec"}
    /\ DOMAIN g.abi.sec = Sections
    /\ g.abi.version \in Nat /\ g.abi.version >= ResultsVersion
    /\ \A s \in Sections : UniqueIds(g.abi.sec[s])
    /\ UniqueIds(g.ctables)

\* h has all g has, and more in the sections S only.
Extends(g, h, S) ==
    /\ AbiGenOk(h)
    /\ \A s \in Sections : /\ g.abi.sec[s] \subseteq h.abi.sec[s]
                           /\ s \notin S => h.abi.sec[s] = g.abi.sec[s]
    /\ h.ctables = g.ctables

LEMMA ExtendsItself ==
    ASSUME NEW g, AbiGenOk(g), NEW S
    PROVE  Extends(g, g, S)
  BY DEF Extends

LEMMA ExtendsOk ==
    ASSUME NEW g, NEW h, NEW S, Extends(g, h, S)
    PROVE  AbiGenOk(h)
  BY DEF Extends

LEMMA ExtendsMore ==
    ASSUME NEW g, NEW h, NEW k, NEW S, NEW T, NEW U, Extends(g, h, S), Extends(h, k, T),
           S \subseteq U, T \subseteq U
    PROVE  Extends(g, k, U)
  BY DEF Extends

LEMMA InsertExtends ==
    ASSUME NEW g, AbiGenOk(g), NEW s \in Sections, NEW x
    PROVE  /\ Extends(g, Insert(g, s, x), {s})
           /\ x.id \in Ids(Insert(g, s, x).abi.sec[s])
           /\ \A y \in Insert(g, s, x).abi.sec[s] : y \in g.abi.sec[s] \/ y = x
<1>1. CASE x.id \in Ids(g.abi.sec[s])
  BY <1>1 DEF Insert, Extends
<1>2. CASE x.id \notin Ids(g.abi.sec[s])
  <2>. DEFINE h == [g EXCEPT !.abi.sec[s] = @ \cup {x}]
  <2>1. Insert(g, s, x) = h
    BY <1>2 DEF Insert
  <2>2. /\ DOMAIN h = {"abi", "ctables", "evaluated"} /\ h.ctables = g.ctables
        /\ DOMAIN h.abi = {"version", "sec"} /\ h.abi.version = g.abi.version
        /\ DOMAIN h.abi.sec = Sections
        /\ h.abi.sec[s] = g.abi.sec[s] \cup {x}
        /\ \A t \in Sections : t # s => h.abi.sec[t] = g.abi.sec[t]
    BY DEF AbiGenOk
  <2>. HIDE DEF h
  <2>3. UniqueIds(h.abi.sec[s])
    BY <1>2, <2>2 DEF UniqueIds, Ids, AbiGenOk
  <2>4. AbiGenOk(h)
    BY <2>2, <2>3 DEF AbiGenOk
  <2>5. x.id \in Ids(h.abi.sec[s])
    BY <2>2 DEF Ids
  <2>. QED
    BY <2>1, <2>2, <2>4, <2>5 DEF Extends
<1>. QED
  BY <1>1, <1>2

LEMMA SetMinExtends ==
    ASSUME NEW g, AbiGenOk(g), NEW v \in Nat
    PROVE  Extends(g, SetMin(g, v), {})
<1>. DEFINE h == SetMin(g, v)
<1>1. /\ DOMAIN h = {"abi", "ctables", "evaluated"} /\ h.ctables = g.ctables
      /\ DOMAIN h.abi = {"version", "sec"} /\ h.abi.sec = g.abi.sec
      /\ h.abi.version = IF g.abi.version < v THEN v ELSE g.abi.version
  BY DEF AbiGenOk, SetMin
<1>. HIDE DEF h
<1>2. h.abi.version \in Nat /\ h.abi.version >= ResultsVersion
  BY <1>1 DEF AbiGenOk, ResultsVersion
<1>3. \A s \in Sections : h.abi.sec[s] = g.abi.sec[s]
  BY <1>1
<1>4. AbiGenOk(h)
  BY <1>1, <1>2, <1>3 DEF AbiGenOk
<1>5. Extends(g, h, {})
  BY <1>1, <1>3, <1>4 DEF Extends
<1>. QED
  BY <1>5 DEF h

\* What is new in a section has new ids, one entry each.
LEMMA FreshIds ==
    ASSUME NEW g, NEW r, NEW s, UniqueIds(g.abi.sec[s])
    PROVE  UniqueIds(g.abi.sec[s] \cup Fresh(g, r, s))
<1>. DEFINE new == {i \in 1 .. Len(r.ins) :
                      r.ins[i].to = s /\ r.ins[i].entry.id \notin Ids(g.abi.sec[s])}
            first == {n \in new : \A h \in new : r.ins[h].entry.id = r.ins[n].entry.id => n <= h}
<1>1. Fresh(g, r, s) = {r.ins[i].entry : i \in first}
  BY DEF Fresh
<1>2. \A i \in new : i \in Int /\ r.ins[i].entry.id \notin Ids(g.abi.sec[s])
  OBVIOUS
<1>3. first \subseteq new /\ \A n \in first : \A h \in new : r.ins[h].entry.id = r.ins[n].entry.id => n <= h
  OBVIOUS
<1>. HIDE DEF new, first
<1>4. \A x \in Fresh(g, r, s) : x.id \notin Ids(g.abi.sec[s])
  BY <1>1, <1>2, <1>3
<1>5. ASSUME NEW x \in Fresh(g, r, s), NEW y \in Fresh(g, r, s), x.id = y.id
      PROVE  x = y
  <2>1. PICK n \in first : x = r.ins[n].entry
    BY <1>1
  <2>2. PICK h \in first : y = r.ins[h].entry
    BY <1>1
  <2>3. n <= h /\ h <= n /\ n \in Int /\ h \in Int
    BY <1>2, <1>3, <1>5, <2>1, <2>2
  <2>4. n = h
    BY <2>3
  <2>. QED
    BY <2>1, <2>2, <2>4
<1>. QED
  BY <1>4, <1>5 DEF UniqueIds, Ids

LEMMA InsertedExtends ==
    ASSUME NEW g, AbiGenOk(g), NEW r
    PROVE  Extends(g, Inserted(g, r), TypeSections)
<1>1. PICK v \in Nat : v = IF \E i \in 1 .. Len(r.ins) : r.ins[i].to = "version" THEN BitsetVersion ELSE BaseVersion
  BY DEF BitsetVersion, BaseVersion
<1>2. PICK m : m = SetMin(g, v)
  OBVIOUS
<1>3. Extends(g, m, {})
  BY <1>2, SetMinExtends
<1>. DEFINE F(s) == Fresh(g, r, s)
            h == [m EXCEPT !.evaluated = r.seen,
                           !.abi.sec["types"]    = @ \cup F("types"),
                           !.abi.sec["structs"]  = @ \cup F("structs"),
                           !.abi.sec["variants"] = @ \cup F("variants")]
<1>4. Inserted(g, r) = h
  BY <1>1, <1>2 DEF Inserted
<1>. HIDE DEF F
<1>5. /\ DOMAIN m = {"abi", "ctables", "evaluated"} /\ DOMAIN m.abi = {"version", "sec"}
      /\ DOMAIN m.abi.sec = Sections /\ m.ctables = g.ctables
      /\ \A s \in Sections : m.abi.sec[s] = g.abi.sec[s]
  BY <1>3 DEF Extends, AbiGenOk
<1>6. /\ DOMAIN h = {"abi", "ctables", "evaluated"} /\ h.ctables = g.ctables
      /\ DOMAIN h.abi = {"version", "sec"} /\ h.abi.version = m.abi.version
      /\ DOMAIN h.abi.sec = Sections
  BY <1>5
<1>7. /\ h.abi.sec["types"] = g.abi.sec["types"] \cup F("types")
      /\ h.abi.sec["structs"] = g.abi.sec["structs"] \cup F("structs")
      /\ h.abi.sec["variants"] = g.abi.sec["variants"] \cup F("variants")
      /\ \A s \in Sections : s \notin TypeSections => h.abi.sec[s] = g.abi.sec[s]
  BY <1>5 DEF Sections, Always, TypeSections
<1>. HIDE DEF h
<1>8. \A s \in Sections : UniqueIds(h.abi.sec[s])
  <2>1. \A s \in Sections : UniqueIds(g.abi.sec[s])
    BY DEF AbiGenOk
  <2>2. \A s \in TypeSections : UniqueIds(g.abi.sec[s] \cup F(s))
    <3>1. TypeSections \subseteq Sections
      BY DEF TypeSections, Sections, Always
    <3>. QED
      BY <2>1, <3>1, FreshIds DEF F
  <2>. QED
    BY <1>7, <2>1, <2>2 DEF TypeSections
<1>9. AbiGenOk(h)
  BY <1>3, <1>6, <1>8 DEF AbiGenOk, Extends
<1>10. \A s \in Sections : g.abi.sec[s] \subseteq h.abi.sec[s]
  BY <1>7 DEF TypeSections
<1>. QED
  BY <1>4, <1>6, <1>7, <1>9, <1>10 DEF Extends

-----------------------------------------------------------------------------
(* What the visitor does with a declaration.                               *)

IsMethod(d) == d.is # {} /\ d.is \subseteq {"action", "call", "notify"}

Declares(d) == IsMethod(d) \/ d.is \in {{"table"}, {"index"}, {"index", "table"}}

LEMMA AddTypeExtends ==
    ASSUME NEW g, AbiGenOk(g), NEW t
    PROVE  /\ Extends(g, AddType(t, g), TypeSections)
           /\ Extends(g, AddTypes(t, g), TypeSections)
           /\ Extends(g, AddStruct(t, g), TypeSections)
  BY InsertedExtends, Zenon DEF AddType, AddTypes, AddStruct

LEMMA AddParamsExtends ==
    ASSUME NEW g, AbiGenOk(g), NEW d
    PROVE  Extends(g, AddParams(d, g), TypeSections)
<1>1. PICK h : h = AddTypes(d.params, g)
  OBVIOUS
<1>2. Extends(g, h, TypeSections)
  BY <1>1, AddTypeExtends
<1>3. Extends(h, Insert(h, "structs", Struct(d.method, NoBase, d.params)), {"structs"})
  <2>1. AbiGenOk(h) /\ "structs" \in Sections
    BY <1>2, ExtendsOk DEF Sections, Always
  <2>. QED
    BY <2>1, InsertExtends
<1>. QED
  BY <1>1, <1>2, <1>3, ExtendsMore DEF AddParams, TypeSections

ActionSections == TypeSections \cup {"actions", "action_results"}

LEMMA AddActionExtends ==
    ASSUME NEW g, AbiGenOk(g), NEW d
    PROVE  /\ Extends(g, AddAction(d, g), ActionSections)
           /\ d.name \in Ids(AddAction(d, g).abi.sec["actions"])
<1>1. PICK h : h = Insert(g, "actions", [id |-> d.name, def |-> d.method])
  OBVIOUS
<1>2. Extends(g, h, {"actions"}) /\ d.name \in Ids(h.abi.sec["actions"])
  BY <1>1, InsertExtends DEF Sections, Always
<1>3. CASE d.result = Void
  <2>1. AddAction(d, g) = h
    BY <1>1, <1>3 DEF AddAction
  <2>2. Extends(g, h, ActionSections)
    BY <1>2 DEF Extends, ActionSections
  <2>. QED
    BY <1>2, <2>1, <2>2
<1>4. CASE d.result # Void
  <2>1. PICK k : k = AddType(d.result, h)
    OBVIOUS
  <2>2. Extends(h, k, TypeSections)
    BY <1>2, <2>1, AddTypeExtends DEF Extends
  <2>3. PICK l : l = Insert(k, "action_results", [id |-> d.name, def |-> TranslateType(d.result)])
    OBVIOUS
  <2>4. Extends(k, l, {"action_results"})
    <3>1. AbiGenOk(k) /\ "action_results" \in Sections
      BY <2>2, ExtendsOk DEF Sections
    <3>. QED
      BY <2>3, <3>1, InsertExtends
  <2>5. AddAction(d, g) = l
    BY <1>1, <1>4, <2>1, <2>3 DEF AddAction
  <2>6. Extends(g, k, ActionSections)
    BY <1>2, <2>2, ExtendsMore DEF ActionSections
  <2>7. Extends(g, l, ActionSections)
    BY <2>4, <2>6, ExtendsMore DEF ActionSections
  <2>8. d.name \in Ids(l.abi.sec["actions"])
    BY <1>2, <2>2, <2>4 DEF Extends, Sections, Always, Ids
  <2>. QED
    BY <2>5, <2>7, <2>8
<1>. QED
  BY <1>3, <1>4

CallSections == TypeSections \cup {"calls"}

LEMMA AddCallExtends ==
    ASSUME NEW g, AbiGenOk(g), NEW d
    PROVE  /\ Extends(g, AddCall(d, g), CallSections)
           /\ d.name \in Ids(AddCall(d, g).abi.sec["calls"])
<1>1. PICK h : h = IF d.result = Void THEN g ELSE AddType(d.result, g)
  OBVIOUS
<1>2. Extends(g, h, TypeSections)
  BY <1>1, AddTypeExtends, ExtendsItself
<1>3. PICK x : x = [id |-> d.name, def |-> [type |-> d.method, result |-> ResultOf(d)]]
  OBVIOUS
<1>4. PICK k : k = Insert(h, "calls", x)
  OBVIOUS
<1>5. Extends(h, k, {"calls"}) /\ x.id \in Ids(k.abi.sec["calls"])
  <2>1. AbiGenOk(h) /\ "calls" \in Sections
    BY <1>2, ExtendsOk DEF Sections
  <2>. QED
    BY <1>4, <2>1, InsertExtends
<1>6. PICK l : l = SetMin(k, SyncCallsVersion)
  OBVIOUS
<1>7. Extends(k, l, {})
  BY <1>5, <1>6, SetMinExtends DEF Extends, SyncCallsVersion
<1>8. AddCall(d, g) = l
  BY <1>1, <1>3, <1>4, <1>6 DEF AddCall
<1>9. Extends(g, k, CallSections)
  BY <1>2, <1>5, ExtendsMore DEF CallSections
<1>10. Extends(g, l, CallSections)
  BY <1>7, <1>9, ExtendsMore
<1>11. d.name \in Ids(l.abi.sec["calls"])
  BY <1>3, <1>5, <1>7 DEF Extends, Sections
<1>. QED
  BY <1>8, <1>10, <1>11

\* h has all g has.
Later(g, h) ==
    /\ \A s \in Sections : g.abi.sec[s] \subseteq h.abi.sec[s]
    /\ g.ctables \subseteq h.ctables

\* What a declaration of the contract d adds.
Visited(d, g, h) ==
    /\ AbiGenOk(h) /\ Later(g, h)
    /\ h.abi.sec["ricardian_clauses"] = g.abi.sec["ricardian_clauses"]
    /\ "action" \in d.is => d.name \in Ids(h.abi.sec["actions"])
    /\ "call" \in d.is => d.name \in Ids(h.abi.sec["calls"])
    /\ "call" \notin d.is => h.abi.sec["calls"] = g.abi.sec["calls"]
    /\ d.is = {"table"} => d.name \in Ids(h.ctables)
    /\ "index" \in d.is => d.name \in Ids(h.abi.sec["tables"])
    /\ \A x \in h.ctables : x \in g.ctables \/ (d.is = {"table"} /\ x.id = d.name /\ x.def = NameOf(d.type))
    /\ \A x \in h.abi.sec["tables"] :
         x \in g.abi.sec["tables"] \/ ("index" \in d.is /\ x.id = d.name /\ x.def = NameOf(d.type))
    /\ d.is = {"notify"} => h = g

LEMMA VisitMethod ==
    ASSUME NEW g, AbiGenOk(g), NEW d, IsMethod(d), d.contract = Contract
    PROVE  Visited(d, g, VisitForAbi(d, g))
<1>1. PICK h : h = IF "action" \in d.is THEN AddAction(d, AddParams(d, g)) ELSE g
  OBVIOUS
<1>2. PICK k : k = IF "call" \in d.is THEN AddCall(d, AddParams(d, h)) ELSE h
  OBVIOUS
<1>3. VisitForAbi(d, g) = k
  BY <1>1, <1>2 DEF VisitForAbi, IsMethod
<1>4. Extends(g, h, ActionSections) /\ ("action" \in d.is => d.name \in Ids(h.abi.sec["actions"]))
  <2>1. CASE "action" \in d.is
    <3>1. PICK p : p = AddParams(d, g)
      OBVIOUS
    <3>2. Extends(g, p, TypeSections)
      BY <3>1, AddParamsExtends
    <3>3. Extends(p, h, ActionSections) /\ d.name \in Ids(h.abi.sec["actions"])
      BY <1>1, <2>1, <3>1, <3>2, AddActionExtends DEF Extends
    <3>. QED
      BY <3>2, <3>3, ExtendsMore DEF ActionSections
  <2>2. CASE "action" \notin d.is
    BY <1>1, <2>2, ExtendsItself
  <2>. QED
    BY <2>1, <2>2
<1>5. Extends(h, k, CallSections) /\ ("call" \in d.is => d.name \in Ids(k.abi.sec["calls"]))
  <2>1. CASE "call" \in d.is
    <3>1. PICK p : p = AddParams(d, h)
      OBVIOUS
    <3>2. Extends(h, p, TypeSections)
      BY <1>4, <3>1, AddParamsExtends DEF Extends
    <3>3. Extends(p, k, CallSections) /\ d.name \in Ids(k.abi.sec["calls"])
      BY <1>2, <2>1, <3>1, <3>2, AddCallExtends, ExtendsOk
    <3>. QED
      BY <3>2, <3>3, ExtendsMore DEF CallSections
  <2>2. CASE "call" \notin d.is
    BY <1>2, <1>4, <2>2, ExtendsItself DEF Extends
  <2>. QED
    BY <2>1, <2>2
<1>6. AbiGenOk(k) /\ Later(g, k) /\ k.ctables = g.ctables
  BY <1>4, <1>5 DEF Extends, Later
<1>7. /\ k.abi.sec["ricardian_clauses"] = g.abi.sec["ricardian_clauses"]
      /\ k.abi.sec["tables"] = g.abi.sec["tables"]
  BY <1>4, <1>5 DEF Extends, ActionSections, CallSections, TypeSections, Sections, Always
<1>8. "action" \in d.is => d.name \in Ids(k.abi.sec["actions"])
  BY <1>4, <1>5 DEF Extends, Sections, Always, Ids
<1>9. "call" \notin d.is => k.abi.sec["calls"] = g.abi.sec["calls"]
  BY <1>2, <1>4 DEF Extends, ActionSections, TypeSections, Sections
<1>10. d.is = {"notify"} => k = g
  BY <1>1, <1>2
<1>11. d.is # {"table"} /\ "index" \notin d.is
  BY DEF IsMethod
<1>. QED
  BY <1>3, <1>5, <1>6, <1>7, <1>8, <1>9, <1>10, <1>11 DEF Visited

LEMMA VisitTable ==
    ASSUME NEW g, AbiGenOk(g), NEW d, d.is = {"table"}, d.contract = Contract
    PROVE  Visited(d, g, VisitForAbi(d, g))
<1>1. PICK h : h = AddStruct(d.type, g)
  OBVIOUS
<1>2. Extends(g, h, TypeSections)
  BY <1>1, AddTypeExtends
<1>3. PICK x : x = [id |-> d.name, def |-> NameOf(d.type)]
  OBVIOUS
<1>4. PICK c : c = IF d.name \in Ids(h.ctables) THEN h.ctables ELSE h.ctables \cup {x}
  OBVIOUS
<1>5. PICK k : k = [h EXCEPT !.ctables = c]
  OBVIOUS
<1>6. VisitForAbi(d, g) = k
  BY <1>1, <1>3, <1>4, <1>5 DEF VisitForAbi
<1>7. AbiGenOk(h) /\ h.ctables = g.ctables
  BY <1>2 DEF Extends
<1>8. /\ DOMAIN k = {"abi", "ctables", "evaluated"} /\ k.abi = h.abi /\ k.ctables = c
  BY <1>5, <1>7 DEF AbiGenOk
<1>9. d.name \in Ids(c) /\ g.ctables \subseteq c /\ \A y \in c : y \in g.ctables \/ y = x
  BY <1>3, <1>4, <1>7 DEF Ids
<1>10. UniqueIds(c)
  <2>1. UniqueIds(h.ctables)
    BY <1>7 DEF AbiGenOk
  <2>. QED
    BY <1>3, <1>4, <2>1 DEF UniqueIds, Ids
<1>11. AbiGenOk(k)
  BY <1>7, <1>8, <1>10 DEF AbiGenOk
<1>12. \A s \in Sections : /\ g.abi.sec[s] \subseteq k.abi.sec[s]
                           /\ s \notin TypeSections => k.abi.sec[s] = g.abi.sec[s]
  BY <1>2, <1>8 DEF Extends
<1>13. Later(g, k)
  BY <1>8, <1>9, <1>12 DEF Later
<1>14. /\ k.abi.sec["ricardian_clauses"] = g.abi.sec["ricardian_clauses"]
       /\ k.abi.sec["calls"] = g.abi.sec["calls"]
       /\ k.abi.sec["tables"] = g.abi.sec["tables"]
  BY <1>12 DEF TypeSections, Sections, Always
<1>15. \A y \in k.ctables : y \in g.ctables \/ (y.id = d.name /\ y.def = NameOf(d.type))
  BY <1>3, <1>8, <1>9
<1>16. "action" \notin d.is /\ "call" \notin d.is /\ "index" \notin d.is /\ d.is # {"notify"}
  OBVIOUS
<1>. QED
  BY <1>6, <1>8, <1>9, <1>11, <1>13, <1>14, <1>15, <1>16 DEF Visited

LEMMA VisitIndex ==
    ASSUME NEW g, AbiGenOk(g), NEW d, d.is \in {{"index"}, {"index", "table"}}, d.contract = Contract
    PROVE  Visited(d, g, VisitForAbi(d, g))
<1>1. PICK x : x = [id |-> d.name, def |-> NameOf(d.type)]
  OBVIOUS
<1>2. PICK h : h = Insert(g, "tables", x)
  OBVIOUS
<1>3. /\ Extends(g, h, {"tables"}) /\ x.id \in Ids(h.abi.sec["tables"])
      /\ \A y \in h.abi.sec["tables"] : y \in g.abi.sec["tables"] \/ y = x
  BY <1>2, InsertExtends DEF Sections, Always
<1>4. PICK k : k = IF "table" \in d.is THEN AddStruct(d.type, h) ELSE h
  OBVIOUS
<1>5. Extends(h, k, TypeSections)
  BY <1>3, <1>4, AddTypeExtends, ExtendsItself DEF Extends
<1>6. VisitForAbi(d, g) = k
  <2>1. d.is # {"table"} /\ "index" \in d.is
    OBVIOUS
  <2>. QED
    BY <1>1, <1>2, <1>4, <2>1 DEF VisitForAbi
<1>7. AbiGenOk(k) /\ Later(g, k) /\ k.ctables = g.ctables
  BY <1>3, <1>5 DEF Extends, Later
<1>8. /\ k.abi.sec["ricardian_clauses"] = g.abi.sec["ricardian_clauses"]
      /\ k.abi.sec["calls"] = g.abi.sec["calls"]
      /\ k.abi.sec["tables"] = h.abi.sec["tables"]
  BY <1>3, <1>5 DEF Extends, TypeSections, Sections, Always
<1>9. "action" \notin d.is /\ "call" \notin d.is /\ "index" \in d.is /\ d.is # {"notify"} /\ d.is # {"table"}
  OBVIOUS
<1>10. /\ d.name \in Ids(k.abi.sec["tables"])
       /\ \A y \in k.abi.sec["tables"] : y \in g.abi.sec["tables"] \/ (y.id = d.name /\ y.def = NameOf(d.type))
  BY <1>1, <1>3, <1>8
<1>. QED
  BY <1>6, <1>7, <1>8, <1>9, <1>10 DEF Visited

LEMMA VisitAny ==
    ASSUME NEW g, AbiGenOk(g), NEW d, Declares(d)
    PROVE  /\ d.contract = Contract => Visited(d, g, VisitForAbi(d, g))
           /\ d.contract # Contract => VisitForAbi(d, g) = g
<1>1. d.contract # Contract => VisitForAbi(d, g) = g
  BY DEF VisitForAbi
<1>. QED
  BY <1>1, VisitMethod, VisitTable, VisitIndex DEF Declares

-----------------------------------------------------------------------------
(* What abigen has collected from the declarations D.                      *)

Ours(D) == {d \in D : d.contract = Contract}

\* Nothing but clauses.
Blank(g) ==
    /\ \A s \in Sections \ {"ricardian_clauses"} : g.abi.sec[s] = {}
    /\ g.ctables = {}

Recorded(d, g) ==
    /\ "action" \in d.is => d.name \in Ids(g.abi.sec["actions"])
    /\ "call" \in d.is => d.name \in Ids(g.abi.sec["calls"])
    /\ d.is = {"table"} => d.name \in Ids(g.ctables)
    /\ "index" \in d.is => d.name \in Ids(g.abi.sec["tables"])

FromTable(d, x) == d.is = {"table"} /\ x.id = d.name /\ x.def = NameOf(d.type)

FromIndex(d, x) == "index" \in d.is /\ x.id = d.name /\ x.def = NameOf(d.type)

Collected(D, g) ==
    /\ AbiGenOk(g)
    /\ g.abi.sec["ricardian_clauses"] \subseteq Clauses
    /\ \A d \in Ours(D) : Recorded(d, g)
    /\ g.abi.sec["calls"] # {} => \E d \in Ours(D) : "call" \in d.is
    /\ \A x \in g.ctables : \E d \in Ours(D) : FromTable(d, x)
    /\ \A x \in g.abi.sec["tables"] : \E d \in Ours(D) : FromIndex(d, x)
    /\ (\A d \in Ours(D) : d.is = {"notify"}) => Blank(g)

LEMMA LaterRecorded ==
    ASSUME NEW g, NEW h, Later(g, h), NEW d, Recorded(d, g)
    PROVE  Recorded(d, h)
<1>1. {"actions", "calls", "tables"} \subseteq Sections
  BY DEF Sections, Always
<1>. QED
  BY <1>1 DEF Later, Recorded, Ids

LEMMA LaterTrans ==
    ASSUME NEW g, NEW h, NEW k, Later(g, h), Later(h, k)
    PROVE  Later(g, k)
  BY DEF Later

LEMMA VisitCollects ==
    ASSUME NEW D, NEW g, Collected(D, g), NEW d, Declares(d)
    PROVE  /\ Collected(D \cup {d}, VisitForAbi(d, g))
           /\ Later(g, VisitForAbi(d, g))
           /\ VisitForAbi(d, g).abi.sec["ricardian_clauses"] = g.abi.sec["ricardian_clauses"]
<1>1. PICK h : h = VisitForAbi(d, g)
  OBVIOUS
<1>2. AbiGenOk(g)
  BY DEF Collected
<1>3. CASE d.contract # Contract
  <2>1. h = g
    BY <1>1, <1>2, <1>3, VisitAny
  <2>2. Ours(D \cup {d}) = Ours(D)
    BY <1>3 DEF Ours
  <2>. QED
    BY <1>1, <2>1, <2>2 DEF Collected, Later
<1>4. CASE d.contract = Contract
  <2>1. Visited(d, g, h)
    BY <1>1, <1>2, <1>4, VisitAny
  <2>2. Ours(D \cup {d}) = Ours(D) \cup {d}
    BY <1>4 DEF Ours
  <2>3. AbiGenOk(h) /\ Later(g, h) /\ h.abi.sec["ricardian_clauses"] = g.abi.sec["ricardian_clauses"]
    BY <2>1 DEF Visited
  <2>4. \A e \in Ours(D) \cup {d} : Recorded(e, h)
    <3>1. Recorded(d, h)
      BY <2>1 DEF Visited, Recorded
    <3>2. \A e \in Ours(D) : Recorded(e, h)
      BY <2>3, LaterRecorded DEF Collected
    <3>. QED
      BY <3>1, <3>2
  <2>5. h.abi.sec["calls"] # {} => \E e \in Ours(D) \cup {d} : "call" \in e.is
    BY <2>1 DEF Visited, Collected
  <2>6. \A x \in h.ctables : \E e \in Ours(D) \cup {d} : FromTable(e, x)
    <3>. TAKE x \in h.ctables
    <3>1. CASE x \in g.ctables
      BY <3>1 DEF Collected
    <3>2. CASE x \notin g.ctables
      BY <2>1, <3>2 DEF Visited, FromTable
    <3>. QED
      BY <3>1, <3>2
  <2>7. \A x \in h.abi.sec["tables"] : \E e \in Ours(D) \cup {d} : FromIndex(e, x)
    <3>. TAKE x \in h.abi.sec["tables"]
    <3>1. CASE x \in g.abi.sec["tables"]
      BY <3>1 DEF Collected
    <3>2. CASE x \notin g.abi.sec["tables"]
      BY <2>1, <3>2 DEF Visited, FromIndex
    <3>. QED
      BY <3>1, <3>2
  <2>8. (\A e \in Ours(D) \cup {d} : e.is = {"notify"}) => Blank(h)
    BY <2>1 DEF Visited, Collected
  <2>9. h.abi.sec["ricardian_clauses"] \subseteq Clauses
    BY <2>3 DEF Collected
  <2>. QED
    BY <1>1, <2>2, <2>3, <2>4, <2>5, <2>6, <2>7, <2>8, <2>9 DEF Collected
<1>. QED
  BY <1>3, <1>4

LEMMA ClausesCollect ==
    ASSUME NEW D, NEW g, Collected(D, g)
    PROVE  /\ Collected(D, WithClauses(g)) /\ Later(g, WithClauses(g))
           /\ Clauses \subseteq WithClauses(g).abi.sec["ricardian_clauses"]
<1>. DEFINE h == WithClauses(g)
<1>1. AbiGenOk(g) /\ "ricardian_clauses" \in Sections
  BY DEF Collected, Sections, Always
<1>2. /\ DOMAIN h = {"abi", "ctables", "evaluated"} /\ h.ctables = g.ctables
      /\ DOMAIN h.abi = {"version", "sec"} /\ h.abi.version = g.abi.version
      /\ DOMAIN h.abi.sec = Sections
      /\ h.abi.sec["ricardian_clauses"] = g.abi.sec["ricardian_clauses"] \cup Clauses
      /\ \A s \in Sections : s # "ricardian_clauses" => h.abi.sec[s] = g.abi.sec[s]
  BY <1>1 DEF AbiGenOk, WithClauses
<1>. HIDE DEF h
<1>3. h.abi.sec["ricardian_clauses"] = Clauses
  BY <1>2 DEF Collected
<1>4. UniqueIds(Clauses)
  BY ClausesAssumption DEF UniqueIds
<1>5. \A s \in Sections : UniqueIds(h.abi.sec[s])
  BY <1>1, <1>2, <1>3, <1>4 DEF AbiGenOk
<1>6. AbiGenOk(h)
  BY <1>1, <1>2, <1>5 DEF AbiGenOk
<1>7. Later(g, h)
  <2>1. \A s \in Sections : g.abi.sec[s] \subseteq h.abi.sec[s]
    BY <1>2
  <2>. QED
    BY <1>2, <2>1 DEF Later
<1>8. h.abi.sec["calls"] = g.abi.sec["calls"] /\ h.abi.sec["tables"] = g.abi.sec["tables"]
  BY <1>2 DEF Sections, Always
<1>9. Blank(g) => Blank(h)
  BY <1>2 DEF Blank
<1>10. \A d \in Ours(D) : Recorded(d, h)
  BY <1>7, LaterRecorded DEF Collected
<1>11. Collected(D, h)
  BY <1>2, <1>3, <1>6, <1>8, <1>9, <1>10 DEF Collected
<1>. QED
  BY <1>3, <1>7, <1>11 DEF h

\* A whole unit.
LEMMA UnitCollects ==
    ASSUME NEW D, NEW g, Collected(D, g), NEW unit, unit \in Seq(Elements(unit)),
           \A d \in Elements(unit) : Declares(d)
    PROVE  /\ Collected(D \cup Elements(unit), AbiOfUnit(unit, g))
           /\ Later(g, AbiOfUnit(unit, g))
           /\ Clauses \subseteq AbiOfUnit(unit, g).abi.sec["ricardian_clauses"]
<1>0. Len(unit) \in Nat /\ DOMAIN unit = 1 .. Len(unit)
  BY LenProperties
<1>1. PICK w : AbiWalks(unit, g, w)
  BY <1>0, AbiWalk
<1>. DEFINE E(i) == {unit[h] : h \in 1 .. i}
            P(i) == /\ Collected(D \cup E(i), w[i]) /\ Later(g, w[i])
                    /\ Clauses \subseteq w[i].abi.sec["ricardian_clauses"]
            Q == {i \in 0 .. Len(unit) : P(i)}
<1>2. P(0)
  <2>1. D \cup E(0) = D
    OBVIOUS
  <2>. HIDE DEF E
  <2>. QED
    BY <1>1, <2>1, ClausesCollect DEF AbiWalks
<1>3. ASSUME NEW i \in 1 .. Len(unit), P(i - 1)
      PROVE  P(i)
  <2>1. D \cup E(i) = (D \cup E(i - 1)) \cup {unit[i]}
    <3>1. 1 .. i = (1 .. i - 1) \cup {i}
      BY <1>0
    <3>. QED
      BY <3>1
  <2>2. Declares(unit[i])
    BY <1>0 DEF Elements
  <2>3. w[i] = VisitForAbi(unit[i], w[i - 1])
    BY <1>1 DEF AbiWalks
  <2>. HIDE DEF E
  <2>4. /\ Collected(D \cup E(i), w[i]) /\ Later(w[i - 1], w[i])
        /\ w[i].abi.sec["ricardian_clauses"] = w[i - 1].abi.sec["ricardian_clauses"]
    <3>1. PICK C : C = D \cup E(i - 1)
      OBVIOUS
    <3>2. PICK v : v = w[i - 1]
      OBVIOUS
    <3>3. PICK d : d = unit[i]
      OBVIOUS
    <3>4. Collected(C, v) /\ Declares(d)
      BY <1>3, <2>2, <3>1, <3>2, <3>3
    <3>5. /\ Collected(C \cup {d}, VisitForAbi(d, v)) /\ Later(v, VisitForAbi(d, v))
          /\ VisitForAbi(d, v).abi.sec["ricardian_clauses"] = v.abi.sec["ricardian_clauses"]
      BY <3>4, VisitCollects
    <3>. QED
      BY <2>1, <2>3, <3>1, <3>2, <3>3, <3>5
  <2>5. Later(g, w[i - 1]) /\ Clauses \subseteq w[i - 1].abi.sec["ricardian_clauses"]
    BY <1>3
  <2>6. Later(g, w[i]) /\ Clauses \subseteq w[i].abi.sec["ricardian_clauses"]
    BY <2>4, <2>5, LaterTrans
  <2>. QED
    BY <2>4, <2>6
<1>. HIDE DEF P
<1>4. \A i \in 0 .. Len(unit) : i \in Q
  <2>1. 0 \in Q
    BY <1>0, <1>2
  <2>2. \A i \in 1 .. Len(unit) : i - 1 \in Q => i \in Q
    BY <1>0, <1>3
  <2>. HIDE DEF Q
  <2>. QED
    BY <1>0, <2>1, <2>2, UpToN
<1>5. P(Len(unit))
  BY <1>0, <1>4
<1>6. E(Len(unit)) = Elements(unit)
  BY <1>0 DEF Elements
<1>. HIDE DEF E
<1>. QED
  BY <1>1, <1>5, <1>6 DEF P, AbiWalks

LEMMA NewUnitCollects ==
    ASSUME NEW D, NEW g, Collected(D, g), NEW reused
    PROVE  Collected(D, NewUnit(g, reused)) /\ Later(g, NewUnit(g, reused))
<1>1. /\ DOMAIN NewUnit(g, reused) = DOMAIN g /\ NewUnit(g, reused).abi = g.abi
      /\ NewUnit(g, reused).ctables = g.ctables
  BY DEF NewUnit, Collected, AbiGenOk
<1>. QED
  BY <1>1 DEF Collected, AbiGenOk, Later, Recorded, Blank

LEMMA NothingCollected == Collected({}, NewAbiGen)
<1>1. /\ DOMAIN NewAbiGen = {"abi", "ctables", "evaluated"} /\ NewAbiGen.ctables = {}
      /\ DOMAIN NewAbiGen.abi = {"version", "sec"} /\ NewAbiGen.abi.version = 12
      /\ DOMAIN NewAbiGen.abi.sec = Sections
      /\ \A s \in Sections : NewAbiGen.abi.sec[s] = {}
  BY DEF NewAbiGen, BaseVersion
<1>2. AbiGenOk(NewAbiGen)
  BY <1>1 DEF AbiGenOk, UniqueIds, ResultsVersion
<1>3. {"calls", "tables", "ricardian_clauses"} \subseteq Sections
  BY DEF Sections, Always
<1>. QED
  BY <1>1, <1>2, <1>3 DEF Collected, Ours, Blank

\* When an ABI is written.
LEMMA WhenEmpty ==
    ASSUME NEW D, NEW g, Collected(D, g), \A d \in D : Declares(d)
    PROVE  /\ ~IsEmpty(g) => Clauses # {} \/ \E d \in Ours(D) : d.is # {"notify"}
           /\ (\E d \in Ours(D) : d.is # {"notify"}) => ~IsEmpty(g)
           /\ Clauses # {} /\ Clauses \subseteq g.abi.sec["ricardian_clauses"] => ~IsEmpty(g)
<1>1. /\ "ricardian_clauses" \in (Always \cup {"calls"}) \ {"tables"}
      /\ (Always \cup {"calls"}) \ {"tables"} \subseteq Sections /\ "tables" \in Sections
      /\ {"actions", "calls"} \subseteq (Always \cup {"calls"}) \ {"tables"}
  BY DEF Sections, Always
<1>2. ASSUME Clauses = {}, \A d \in Ours(D) : d.is = {"notify"}
      PROVE  IsEmpty(g)
  <2>1. Blank(g) /\ g.abi.sec["ricardian_clauses"] = {}
    BY <1>2 DEF Collected
  <2>2. TablesOf(g) = {}
    BY <1>1, <2>1 DEF Blank, TablesOf
  <2>. QED
    BY <1>1, <2>1, <2>2 DEF Blank, IsEmpty
<1>3. ASSUME NEW d \in Ours(D), d.is # {"notify"}, IsEmpty(g)
      PROVE  FALSE
  <2>1. Recorded(d, g) /\ Declares(d)
    BY <1>3 DEF Collected, Ours
  <2>2. g.abi.sec["actions"] = {} /\ g.abi.sec["calls"] = {} /\ TablesOf(g) = {}
    BY <1>1, <1>3 DEF IsEmpty
  <2>3. g.abi.sec["tables"] = {}
    BY <2>2 DEF TablesOf
  <2>4. g.ctables = {}
    BY <2>2, <2>3 DEF TablesOf
  <2>5. "action" \notin d.is /\ "call" \notin d.is /\ d.is # {"table"} /\ "index" \notin d.is
    BY <2>1, <2>2, <2>3, <2>4 DEF Recorded, Ids
  <2>. QED
    BY <1>3, <2>1, <2>5 DEF Declares, IsMethod
<1>4. Clauses # {} /\ Clauses \subseteq g.abi.sec["ricardian_clauses"] => ~IsEmpty(g)
  BY <1>1 DEF IsEmpty
<1>. QED
  BY <1>2, <1>3, <1>4

-----------------------------------------------------------------------------
(* The ABI of a unit.                                                      *)

AbiShape(a) ==
    /\ a.version \in Nat /\ a.version >= ResultsVersion
    /\ Always \cup {"action_results"} \subseteq DOMAIN a.sec
    /\ DOMAIN a.sec \subseteq Sections

\* The entries of a are among those in g.
Within(a, g) ==
    \A s \in DOMAIN a.sec : \A x \in a.sec[s] :
      x \in g.abi.sec[s] \/ (s = "tables" /\ x \in g.ctables)

LEMMA LaterWithin ==
    ASSUME NEW g, NEW h, Later(g, h), NEW a, AbiShape(a), Within(a, g)
    PROVE  Within(a, h)
  BY DEF Later, AbiShape, Within

LEMMA JsonFacts ==
    ASSUME NEW g, AbiGenOk(g)
    PROVE  /\ AbiShape(ToJson(g)) /\ Within(ToJson(g), g)
           /\ "calls" \in DOMAIN ToJson(g).sec <=> g.abi.sec["calls"] # {}
           /\ ToJson(g).sec["actions"] = g.abi.sec["actions"]
           /\ g.abi.sec["calls"] # {} => ToJson(g).sec["calls"] = g.abi.sec["calls"]
<1>. DEFINE a == ToJson(g)
            T == {q \in Sections : q = "calls" => g.abi.sec["calls"] # {}}
<1>1. /\ a.version = g.abi.version
      /\ a.sec = [s \in T |->
                    CASE s = "structs" -> {st \in g.abi.sec[s] : ValidateStruct(st, g)}
                      [] s = "types"   -> {td \in g.abi.sec[s] : ValidateType(td, g)}
                      [] s = "tables"  -> TablesOf(g)
                      [] OTHER         -> g.abi.sec[s]]
  BY DEF ToJson
<1>2. /\ DOMAIN a.sec = T
      /\ a.sec["actions"] = g.abi.sec["actions"]
      /\ g.abi.sec["calls"] # {} => a.sec["calls"] = g.abi.sec["calls"]
  BY <1>1 DEF Sections, Always
<1>3. ASSUME NEW s \in T, NEW x \in a.sec[s]
      PROVE  x \in g.abi.sec[s] \/ (s = "tables" /\ x \in g.ctables)
  <2>1. CASE s = "tables"
    <3>1. x \in TablesOf(g)
      BY <1>1, <1>3, <2>1
    <3>. QED
      BY <2>1, <3>1 DEF TablesOf
  <2>2. CASE s # "tables"
    BY <1>1, <1>3, <2>2
  <2>. QED
    BY <2>1, <2>2
<1>. HIDE DEF a
<1>4. Within(a, g)
  BY <1>2, <1>3 DEF Within
<1>5. AbiShape(a)
  BY <1>1, <1>2 DEF AbiShape, AbiGenOk, Sections, Always
<1>6. "calls" \in DOMAIN a.sec <=> g.abi.sec["calls"] # {}
  BY <1>2 DEF Sections
<1>. QED
  BY <1>2, <1>4, <1>5, <1>6 DEF a

-----------------------------------------------------------------------------
(* The code generator after the declarations D.                            *)

Kinds == {"action", "notify", "call"}

Entry(d, k) == [kind |-> k, name |-> d.name, sym |-> Symbol(d)]

CodeGenOk(c) == DOMAIN c = {"keys", "ids", "abi", "parsed"} /\ DOMAIN c.keys = Kinds

RunOk(r) == DOMAIN r = {"cg", "disp", "error"} /\ CodeGenOk(r.cg)

\* What happens to the declaration d on the way from r to h.
Goes(d, r, h) ==
    /\ RunOk(h) /\ h.cg.abi = r.cg.abi /\ r.disp \subseteq h.disp
    /\ \A k \in Kinds : /\ r.cg.keys[k] \subseteq h.cg.keys[k]
                        /\ \A n \in h.cg.keys[k] :
                             \/ n \in r.cg.keys[k]
                             \/ /\ k \in d.is /\ n = FullName(d)
                                /\ d.contract = Contract => Entry(d, k) \in h.disp
    /\ \A x \in h.disp : x \in r.disp \/ (d.contract = Contract /\ \E k \in d.is \cap Kinds : x = Entry(d, k))
    /\ \A n \in h.cg.ids : n \in r.cg.ids \/ ("call" \in d.is /\ n = d.name)
    /\ h.error => \/ r.error
                  \/ "call" \in d.is /\ \E n \in r.cg.ids : n # d.name /\ HashId[n] = HashId[d.name]

LEMMA GoesOn ==
    ASSUME NEW d, NEW r, NEW h, NEW l, Goes(d, r, h), Goes(d, h, l)
    PROVE  Goes(d, r, l)
<1>1. RunOk(l) /\ l.cg.abi = r.cg.abi /\ r.disp \subseteq l.disp /\ h.disp \subseteq l.disp
  BY DEF Goes
<1>2. ASSUME NEW k \in Kinds
      PROVE  /\ r.cg.keys[k] \subseteq l.cg.keys[k]
             /\ \A n \in l.cg.keys[k] :
                  \/ n \in r.cg.keys[k]
                  \/ /\ k \in d.is /\ n = FullName(d)
                     /\ d.contract = Contract => Entry(d, k) \in l.disp
  BY <1>1 DEF Goes
<1>3. \A x \in l.disp : x \in r.disp \/ (d.contract = Contract /\ \E k \in d.is \cap Kinds : x = Entry(d, k))
  BY DEF Goes
<1>4. \A n \in l.cg.ids : n \in r.cg.ids \/ ("call" \in d.is /\ n = d.name)
  BY DEF Goes
<1>5. l.error => \/ r.error
                 \/ "call" \in d.is /\ \E n \in r.cg.ids : n # d.name /\ HashId[n] = HashId[d.name]
  BY DEF Goes
<1>. QED
  BY <1>1, <1>2, <1>3, <1>4, <1>5 DEF Goes

LEMMA GoesNowhere ==
    ASSUME NEW d, NEW r, RunOk(r)
    PROVE  Goes(d, r, r)
  BY DEF Goes

LEMMA DispatchGoes ==
    ASSUME NEW d, NEW k \in Kinds, NEW r, RunOk(r)
    PROVE  Goes(d, r, Dispatch(d, k, r)) /\ (k \in d.is => FullName(d) \in Dispatch(d, k, r).cg.keys[k])
<1>1. CASE k \notin d.is \/ FullName(d) \in r.cg.keys[k]
  BY <1>1, GoesNowhere DEF Dispatch
<1>2. CASE k \in d.is /\ FullName(d) \notin r.cg.keys[k]
  <2>1. PICK new : new = CreateDispatch(d, k)
    OBVIOUS
  <2>. DEFINE h == [r EXCEPT !.disp = @ \cup new,
                             !.cg.keys[k] = @ \cup {FullName(d)},
                             !.cg.parsed = d.contract]
  <2>2. Dispatch(d, k, r) = h
    BY <1>2, <2>1 DEF Dispatch
  <2>3. /\ DOMAIN h = {"cg", "disp", "error"} /\ DOMAIN h.cg = {"keys", "ids", "abi", "parsed"}
        /\ DOMAIN h.cg.keys = Kinds
        /\ h.cg.keys[k] = r.cg.keys[k] \cup {FullName(d)}
        /\ \A q \in Kinds : q # k => h.cg.keys[q] = r.cg.keys[q]
        /\ h.disp = r.disp \cup new /\ h.error = r.error
        /\ h.cg.ids = r.cg.ids /\ h.cg.abi = r.cg.abi
    BY DEF RunOk, CodeGenOk
  <2>. HIDE DEF h
  <2>4. new = IF d.contract = Contract THEN {Entry(d, k)} ELSE {}
    BY <2>1 DEF CreateDispatch, Entry
  <2>5. RunOk(h)
    BY <2>3 DEF RunOk, CodeGenOk
  <2>6. \A x \in h.disp : x \in r.disp \/ (d.contract = Contract /\ \E q \in d.is \cap Kinds : x = Entry(d, q))
    BY <1>2, <2>3, <2>4
  <2>7. ASSUME NEW q \in Kinds
        PROVE  /\ r.cg.keys[q] \subseteq h.cg.keys[q]
               /\ \A n \in h.cg.keys[q] :
                    \/ n \in r.cg.keys[q]
                    \/ /\ q \in d.is /\ n = FullName(d)
                       /\ d.contract = Contract => Entry(d, q) \in h.disp
    BY <1>2, <2>3, <2>4
  <2>8. Goes(d, r, h)
    BY <2>3, <2>5, <2>6, <2>7 DEF Goes
  <2>9. FullName(d) \in h.cg.keys[k]
    BY <2>3
  <2>. QED
    BY <2>2, <2>8, <2>9
<1>. QED
  BY <1>1, <1>2

LEMMA CheckGoes ==
    ASSUME NEW d, NEW r, RunOk(r)
    PROVE  Goes(d, r, CheckCallId(d, r))
<1>1. CASE "call" \notin d.is
  BY <1>1, GoesNowhere DEF CheckCallId
<1>2. CASE "call" \in d.is /\ \E n \in r.cg.ids : HashId[n] = HashId[d.name] /\ n # d.name
  <2>. DEFINE h == [r EXCEPT !.error = TRUE]
  <2>1. CheckCallId(d, r) = h
    BY <1>2 DEF CheckCallId
  <2>2. DOMAIN h = {"cg", "disp", "error"} /\ h.cg = r.cg /\ h.disp = r.disp
    BY DEF RunOk
  <2>. HIDE DEF h
  <2>3. RunOk(h)
    BY <2>2 DEF RunOk
  <2>. QED
    BY <1>2, <2>1, <2>2, <2>3 DEF Goes
<1>3. CASE "call" \in d.is /\ ~\E n \in r.cg.ids : HashId[n] = HashId[d.name] /\ n # d.name
  <2>. DEFINE h == [r EXCEPT !.cg.ids = @ \cup {d.name}]
  <2>1. CheckCallId(d, r) = h
    BY <1>3 DEF CheckCallId
  <2>2. /\ DOMAIN h = {"cg", "disp", "error"} /\ DOMAIN h.cg = {"keys", "ids", "abi", "parsed"}
        /\ h.cg.keys = r.cg.keys /\ h.cg.abi = r.cg.abi
        /\ h.disp = r.disp /\ h.error = r.error /\ h.cg.ids = r.cg.ids \cup {d.name}
    BY DEF RunOk, CodeGenOk
  <2>. HIDE DEF h
  <2>3. RunOk(h)
    BY <2>2 DEF RunOk, CodeGenOk
  <2>. QED
    BY <1>3, <2>1, <2>2, <2>3 DEF Goes
<1>. QED
  BY <1>1, <1>2, <1>3

\* The kinds of dispatcher a declaration is to have: an action is not taken
\* for a notification handler.
Wanted(d, k) == k \in d.is /\ (k = "notify" => "action" \notin d.is)

LEMMA VisitGoes ==
    ASSUME NEW d, NEW r, RunOk(r)
    PROVE  /\ Goes(d, r, VisitForCode(d, r))
           /\ \A k \in Kinds : Wanted(d, k) => FullName(d) \in VisitForCode(d, r).cg.keys[k]
<1>1. PICK h : h = IF "action" \in d.is THEN Dispatch(d, "action", r) ELSE Dispatch(d, "notify", r)
  OBVIOUS
<1>2. /\ Goes(d, r, h)
      /\ "action" \in d.is => FullName(d) \in h.cg.keys["action"]
      /\ Wanted(d, "notify") => FullName(d) \in h.cg.keys["notify"]
  <2>1. "action" \in Kinds /\ "notify" \in Kinds
    BY DEF Kinds
  <2>. QED
    BY <1>1, <2>1, DispatchGoes DEF Wanted
<1>3. RunOk(h)
  BY <1>2 DEF Goes
<1>4. PICK m : m = CheckCallId(d, h)
  OBVIOUS
<1>5. Goes(d, h, m)
  BY <1>3, <1>4, CheckGoes
<1>6. RunOk(m)
  BY <1>5 DEF Goes
<1>7. PICK l : l = Dispatch(d, "call", m)
  OBVIOUS
<1>8. Goes(d, m, l) /\ ("call" \in d.is => FullName(d) \in l.cg.keys["call"])
  BY <1>6, <1>7, DispatchGoes DEF Kinds
<1>9. VisitForCode(d, r) = l
  BY <1>1, <1>4, <1>7 DEF VisitForCode
<1>10. Goes(d, r, l)
  <2>1. Goes(d, r, m)
    BY <1>2, <1>5, GoesOn
  <2>. QED
    BY <1>8, <2>1, GoesOn
<1>11. \A k \in Kinds : h.cg.keys[k] \subseteq l.cg.keys[k]
  BY <1>5, <1>8 DEF Goes
<1>12. \A k \in Kinds : Wanted(d, k) => FullName(d) \in l.cg.keys[k]
  BY <1>2, <1>8, <1>11 DEF Kinds, Wanted
<1>. QED
  BY <1>9, <1>10, <1>12

Coded(D, c) ==
    /\ CodeGenOk(c)
    /\ \A d \in D : \A k \in Kinds : Wanted(d, k) => FullName(d) \in c.keys[k]
    /\ \A n \in c.ids : \E d \in D : "call" \in d.is /\ n = d.name

\* What has a key has a dispatcher in P, or another of its name has.
Served(D, P, c) ==
    \A k \in Kinds : \A n \in c.keys[k] :
      \E e \in D : k \in e.is /\ FullName(e) = n /\ (e.contract = Contract => Entry(e, k) \in P)

SameCallId(D) ==
    \E d, e \in D : "call" \in d.is \cap e.is /\ d.name # e.name /\ HashId[d.name] = HashId[e.name]

\* A unit U after the declarations D, with the dispatchers P.
UnitCoded(D, U, P, c, r) ==
    /\ RunOk(r) /\ r.cg.abi = c.abi
    /\ Coded(D \cup U, r.cg)
    /\ \A x \in r.disp : \E d \in Ours(U) : \E k \in d.is \cap Kinds : x = Entry(d, k)
    /\ r.error => SameCallId(D \cup U)
    /\ r.cg.parsed # c.parsed => U # {}
    /\ Served(D, P, c) => Served(D \cup U, P \cup r.disp, r.cg)

LEMMA VisitCodes ==
    ASSUME NEW D, NEW U, NEW P, NEW c, NEW r, UnitCoded(D, U, P, c, r), NEW d
    PROVE  UnitCoded(D, U \cup {d}, P, c, VisitForCode(d, r))
<1>1. PICK h : h = VisitForCode(d, r)
  OBVIOUS
<1>2. Goes(d, r, h) /\ \A k \in Kinds : Wanted(d, k) => FullName(d) \in h.cg.keys[k]
  BY <1>1, VisitGoes DEF UnitCoded
<1>3. PICK E : E = D \cup U
  OBVIOUS
<1>4. PICK F : F = D \cup (U \cup {d})
  OBVIOUS
<1>5. F = E \cup {d} /\ Coded(E, r.cg)
  BY <1>3, <1>4 DEF UnitCoded
<1>6. RunOk(h) /\ h.cg.abi = c.abi
  BY <1>2 DEF Goes, UnitCoded
<1>7. Coded(F, h.cg)
  <2>1. CodeGenOk(h.cg)
    BY <1>5, <1>6 DEF RunOk
  <2>2. \A e \in F : \A k \in Kinds : Wanted(e, k) => FullName(e) \in h.cg.keys[k]
    BY <1>2, <1>5 DEF Coded, Goes
  <2>3. \A n \in h.cg.ids : \E e \in F : "call" \in e.is /\ n = e.name
    BY <1>2, <1>5 DEF Coded, Goes
  <2>. QED
    BY <2>1, <2>2, <2>3 DEF Coded
<1>8. \A x \in h.disp : \E e \in Ours(U \cup {d}) : \E k \in e.is \cap Kinds : x = Entry(e, k)
  <2>. TAKE x \in h.disp
  <2>1. CASE x \in r.disp
    <3>1. Ours(U) \subseteq Ours(U \cup {d})
      BY DEF Ours
    <3>2. \E e \in Ours(U) : \E k \in e.is \cap Kinds : x = Entry(e, k)
      BY <2>1 DEF UnitCoded
    <3>. QED
      BY <3>1, <3>2
  <2>2. CASE x \notin r.disp
    <3>1. d.contract = Contract /\ \E k \in d.is \cap Kinds : x = Entry(d, k)
      BY <1>2, <2>2 DEF Goes
    <3>2. d \in Ours(U \cup {d})
      BY <3>1 DEF Ours
    <3>. QED
      BY <3>1, <3>2
  <2>. QED
    BY <2>1, <2>2
<1>9. h.error => SameCallId(F)
  <2>1. CASE r.error
    <3>1. SameCallId(E)
      BY <1>3, <2>1 DEF UnitCoded
    <3>. QED
      BY <1>5, <3>1 DEF SameCallId
  <2>2. ASSUME h.error, ~r.error
        PROVE  SameCallId(F)
    <3>1. "call" \in d.is
      BY <1>2, <2>2 DEF Goes
    <3>2. PICK n \in r.cg.ids : n # d.name /\ HashId[n] = HashId[d.name]
      BY <1>2, <2>2 DEF Goes
    <3>3. PICK e \in E : "call" \in e.is /\ n = e.name
      BY <1>5 DEF Coded
    <3>. QED
      BY <1>5, <3>1, <3>2, <3>3 DEF SameCallId
  <2>. QED
    BY <2>1, <2>2
<1>10. ASSUME Served(D, P, c)
       PROVE  Served(F, P \cup h.disp, h.cg)
  <2>1. Served(E, P \cup r.disp, r.cg)
    BY <1>3, <1>10 DEF UnitCoded
  <2>2. r.disp \subseteq h.disp
    BY <1>2 DEF Goes
  <2>. SUFFICES ASSUME NEW k \in Kinds, NEW n \in h.cg.keys[k]
                PROVE  \E e \in F : /\ k \in e.is /\ FullName(e) = n
                                    /\ e.contract = Contract => Entry(e, k) \in P \cup h.disp
    BY DEF Served
  <2>3. CASE n \in r.cg.keys[k]
    <3>1. PICK e \in E : /\ k \in e.is /\ FullName(e) = n
                         /\ e.contract = Contract => Entry(e, k) \in P \cup r.disp
      BY <2>1, <2>3 DEF Served
    <3>. QED
      BY <1>5, <2>2, <3>1
  <2>4. CASE n \notin r.cg.keys[k]
    <3>1. k \in d.is /\ n = FullName(d) /\ (d.contract = Contract => Entry(d, k) \in h.disp)
      BY <1>2, <2>4 DEF Goes
    <3>2. d \in F
      BY <1>5
    <3>. QED
      BY <3>1, <3>2
  <2>. QED
    BY <2>3, <2>4
<1>. QED
  BY <1>1, <1>4, <1>6, <1>7, <1>8, <1>9, <1>10 DEF UnitCoded

LEMMA UnitCodes ==
    ASSUME NEW D, NEW c, Coded(D, c), NEW P, NEW unit, unit \in Seq(Elements(unit))
    PROVE  UnitCoded(D, Elements(unit), P, c, CodeOfUnit(unit, c))
<1>0. Len(unit) \in Nat /\ DOMAIN unit = 1 .. Len(unit)
  BY LenProperties
<1>1. PICK w : CodeWalks(unit, c, w)
  BY <1>0, CodeWalk
<1>. DEFINE E(i) == {unit[h] : h \in 1 .. i}
            Q == {i \in 0 .. Len(unit) : UnitCoded(D, E(i), P, c, w[i])}
<1>2. UnitCoded(D, E(0), P, c, w[0])
  <2>1. E(0) = {}
    OBVIOUS
  <2>2. w[0] = [cg |-> c, disp |-> {}, error |-> FALSE]
    BY <1>1 DEF CodeWalks
  <2>3. RunOk(w[0]) /\ w[0].cg = c /\ w[0].disp = {} /\ ~w[0].error
    BY <2>2 DEF RunOk, Coded
  <2>4. PICK r : r = w[0]
    OBVIOUS
  <2>5. D \cup {} = D /\ P \cup r.disp = P
    BY <2>3, <2>4
  <2>6. UnitCoded(D, {}, P, c, r)
    BY <2>3, <2>4, <2>5 DEF UnitCoded
  <2>. HIDE DEF E
  <2>. QED
    BY <2>1, <2>4, <2>6
<1>3. ASSUME NEW i \in 1 .. Len(unit), UnitCoded(D, E(i - 1), P, c, w[i - 1])
      PROVE  UnitCoded(D, E(i), P, c, w[i])
  <2>1. E(i) = E(i - 1) \cup {unit[i]}
    <3>1. 1 .. i = (1 .. i - 1) \cup {i}
      BY <1>0
    <3>. QED
      BY <3>1
  <2>2. w[i] = VisitForCode(unit[i], w[i - 1])
    BY <1>1 DEF CodeWalks
  <2>. HIDE DEF E
  <2>3. PICK U : U = E(i - 1)
    OBVIOUS
  <2>4. PICK v : v = w[i - 1]
    OBVIOUS
  <2>5. PICK d : d = unit[i]
    OBVIOUS
  <2>6. UnitCoded(D, U, P, c, v)
    BY <1>3, <2>3, <2>4
  <2>7. UnitCoded(D, U \cup {d}, P, c, VisitForCode(d, v))
    BY <2>6, VisitCodes
  <2>. QED
    BY <2>1, <2>2, <2>3, <2>4, <2>5, <2>7
<1>4. \A i \in 0 .. Len(unit) : i \in Q
  <2>. HIDE DEF E
  <2>1. 0 \in Q
    BY <1>0, <1>2
  <2>2. \A i \in 1 .. Len(unit) : i - 1 \in Q => i \in Q
    BY <1>0, <1>3
  <2>. HIDE DEF Q
  <2>. QED
    BY <1>0, <2>1, <2>2, UpToN
<1>5. E(Len(unit)) = Elements(unit)
  BY <1>0 DEF Elements
<1>. HIDE DEF E
<1>6. UnitCoded(D, E(Len(unit)), P, c, w[Len(unit)])
  BY <1>0, <1>4
<1>. QED
  BY <1>1, <1>5, <1>6 DEF CodeWalks

\* What abigen leaves of the code generator.
LEMMA ParsedCodes ==
    ASSUME NEW D, NEW c, Coded(D, c), NEW unit
    PROVE  LET p == ParsedByAbiGen(unit, c)
           IN  /\ p.keys = c.keys /\ p.ids = c.ids /\ p.abi = c.abi /\ CodeGenOk(p)
               /\ p.parsed # c.parsed => Elements(unit) # {}
<1>. DEFINE asked == {i \in DOMAIN unit : unit[i].is \cap {"action", "call", "table"} # {}}
            p == ParsedByAbiGen(unit, c)
<1>1. p = IF asked = {} THEN c ELSE [c EXCEPT !.parsed = unit[Max(asked)].contract]
  BY DEF ParsedByAbiGen
<1>2. Elements(unit) = {} => asked = {}
  BY DEF Elements
<1>. HIDE DEF asked
<1>3. p.keys = c.keys /\ p.ids = c.ids /\ p.abi = c.abi /\ CodeGenOk(p)
  BY <1>1 DEF Coded, CodeGenOk
<1>4. p.parsed # c.parsed => Elements(unit) # {}
  BY <1>1, <1>2
<1>. HIDE DEF p
<1>. QED
  BY <1>3, <1>4 DEF p

LEMMA NothingCoded == Coded({}, NewCodeGen) /\ Served({}, {}, NewCodeGen)
  BY DEF Coded, Served, NewCodeGen, CodeGenOk, Kinds

-----------------------------------------------------------------------------
(* The ABI the linker makes of those of the objects.                       *)

\* An object has at most one ABI.
Carries(o) == o.abi = {} \/ \E a \in o.abi : o.abi = {a} /\ AbiShape(a)

\* a and b cannot be in one image.
Disagree(a, b) ==
    \/ "calls" \in DOMAIN a.sec /\ "calls" \notin DOMAIN b.sec
    \/ \E s \in DOMAIN a.sec \cap DOMAIN b.sec : Clash(s, a.sec[s], b.sec[s])

\* m has what the ABI b has.
Holds(m, b) ==
    /\ Ids(b.sec["actions"]) \subseteq Ids(m.sec["actions"])
    /\ "calls" \in DOMAIN m.sec => /\ "calls" \in DOMAIN b.sec
                                   /\ Ids(b.sec["calls"]) \subseteq Ids(m.sec["calls"])

\* The entries of m come from the first n objects, and the first of those
\* with an ABI decides on the calls.
ComesFrom(m, objs, n) ==
    /\ \A s \in DOMAIN m.sec : \A x \in m.sec[s] :
         \E i \in 1 .. n : \E b \in objs[i].abi : s \in DOMAIN b.sec /\ x \in b.sec[s]
    /\ \E i \in 1 .. n : /\ \A h \in 1 .. i - 1 : objs[h].abi = {}
                         /\ \E b \in objs[i].abi : "calls" \in DOMAIN m.sec <=> "calls" \in DOMAIN b.sec

Combined(objs, n, r) ==
    /\ DOMAIN r = {"ok", "abi"} /\ r.ok \in BOOLEAN
    /\ r.abi = {} => r.ok /\ \A i \in 1 .. n : objs[i].abi = {}
    /\ r.abi # {} => \E m : r.abi = {m} /\ AbiShape(m) /\ ComesFrom(m, objs, n)
    /\ r.ok => \A m \in r.abi : \A i \in 1 .. n : \A b \in objs[i].abi : Holds(m, b)
    /\ ~r.ok => \E h, i \in 1 .. n : \E a \in objs[h].abi, b \in objs[i].abi : Disagree(a, b)

LEMMA ShapeMerges ==
    ASSUME NEW a, AbiShape(a)
    PROVE  Merges(a) = DOMAIN a.sec
  BY DEF AbiShape, Merges, Sections, Always, ResultsVersion

\* Merging throws only when the two disagree.
LEMMA ThrowsDisagree ==
    ASSUME NEW a, NEW b, AbiShape(a), AbiShape(b)
    PROVE  Throws(a, b) <=> Disagree(a, b)
<1>1. Merges(a) = DOMAIN a.sec
  BY ShapeMerges
<1>2. \A s \in DOMAIN a.sec : s \in DOMAIN b.sec \/ s = "calls"
  BY DEF AbiShape, Sections
<1>. QED
  BY <1>1, <1>2 DEF Throws, Disagree

LEMMA MergedFacts ==
    ASSUME NEW a, NEW b, AbiShape(a), AbiShape(b), ~Throws(a, b)
    PROVE  /\ AbiShape(Merge(a, b)) /\ DOMAIN Merge(a, b).sec = DOMAIN a.sec
           /\ Holds(Merge(a, b), b) /\ Holds(Merge(a, b), a)
           /\ DOMAIN a.sec \subseteq DOMAIN b.sec
           /\ \A s \in DOMAIN a.sec : \A x \in Merge(a, b).sec[s] : x \in a.sec[s] \/ x \in b.sec[s]
<1>1. PICK m : m = Merge(a, b)
  OBVIOUS
<1>2. Merges(a) = DOMAIN a.sec
  BY ShapeMerges
<1>3. /\ m.version = IF a.version < b.version THEN b.version ELSE a.version
      /\ DOMAIN m.sec = DOMAIN a.sec
      /\ \A s \in DOMAIN a.sec : m.sec[s] = AddObjectToArray(a.sec[s], b.sec[s])
  BY <1>1, <1>2 DEF Merge
<1>4. DOMAIN a.sec \subseteq DOMAIN b.sec
  BY <1>2 DEF Throws
<1>5. AbiShape(m)
  BY <1>3 DEF AbiShape, ResultsVersion
<1>6. \A s \in DOMAIN a.sec : Ids(m.sec[s]) = Ids(a.sec[s]) \cup Ids(b.sec[s])
  BY <1>3, AddIds
<1>7. "actions" \in DOMAIN a.sec
  BY DEF AbiShape, Always
<1>8. Holds(m, b) /\ Holds(m, a)
  BY <1>3, <1>4, <1>6, <1>7 DEF Holds
<1>9. \A s \in DOMAIN a.sec : \A x \in m.sec[s] : x \in a.sec[s] \/ x \in b.sec[s]
  BY <1>3 DEF AddObjectToArray
<1>. QED
  BY <1>1, <1>3, <1>4, <1>5, <1>8, <1>9

LEMMA HoldsMore ==
    ASSUME NEW a, NEW b, NEW c, Holds(a, b), Holds(b, c),
           "calls" \in DOMAIN a.sec => "calls" \in DOMAIN b.sec
    PROVE  Holds(a, c)
  BY DEF Holds

LEMMA TheOnly ==
    ASSUME NEW a
    PROVE  The({a}) = a
  BY DEF The

\* The next object.
LEMMA CombineNext ==
    ASSUME NEW objs, NEW n \in Nat, n # 0, NEW r, Combined(objs, n - 1, r), Carries(objs[n])
    PROVE  Combined(objs, n, MergeInto(r, objs[n]))
<1>0. 1 .. n = (1 .. n - 1) \cup {n} /\ n - 1 \in Nat
  OBVIOUS
<1>1. PICK o : o = objs[n]
  OBVIOUS
<1>2. PICK q : q = MergeInto(r, o)
  OBVIOUS
<1>3. ASSUME NEW m, ComesFrom(m, objs, n - 1)
      PROVE  ComesFrom(m, objs, n)
  BY <1>0, <1>3 DEF ComesFrom
<1>4. CASE ~r.ok
  <2>1. q = r /\ r.abi # {}
    BY <1>2, <1>4 DEF MergeInto, Combined
  <2>2. \E m : r.abi = {m} /\ AbiShape(m) /\ ComesFrom(m, objs, n)
    BY <1>3, <2>1 DEF Combined
  <2>3. \E h, i \in 1 .. n : \E a \in objs[h].abi, b \in objs[i].abi : Disagree(a, b)
    BY <1>0, <1>4 DEF Combined
  <2>4. DOMAIN r = {"ok", "abi"} /\ r.ok \in BOOLEAN
    BY DEF Combined
  <2>. QED
    BY <1>1, <1>2, <1>4, <2>1, <2>2, <2>3, <2>4 DEF Combined
<1>5. CASE r.ok /\ o.abi = {}
  <2>1. q = r
    BY <1>2, <1>5 DEF MergeInto, NoAbi
  <2>2. r.abi # {} => \E m : r.abi = {m} /\ AbiShape(m) /\ ComesFrom(m, objs, n)
    BY <1>3 DEF Combined
  <2>3. \A m \in r.abi : \A i \in 1 .. n : \A b \in objs[i].abi : Holds(m, b)
    BY <1>0, <1>1, <1>5 DEF Combined
  <2>4. r.abi = {} => \A i \in 1 .. n : objs[i].abi = {}
    BY <1>0, <1>1, <1>5 DEF Combined
  <2>5. DOMAIN r = {"ok", "abi"} /\ r.ok \in BOOLEAN
    BY DEF Combined
  <2>. QED
    BY <1>1, <1>2, <1>5, <2>1, <2>2, <2>3, <2>4, <2>5 DEF Combined
<1>6. CASE r.ok /\ o.abi # {} /\ r.abi = {}
  <2>1. q = [r EXCEPT !.abi = o.abi]
    BY <1>2, <1>6 DEF MergeInto, NoAbi
  <2>2. DOMAIN q = {"ok", "abi"} /\ q.ok = r.ok /\ q.abi = o.abi
    BY <2>1 DEF Combined
  <2>3. PICK b : o.abi = {b} /\ AbiShape(b)
    BY <1>1, <1>6 DEF Carries
  <2>4. \A i \in 1 .. n - 1 : objs[i].abi = {}
    BY <1>6 DEF Combined
  <2>5. ComesFrom(b, objs, n)
    <3>1. n \in 1 .. n /\ b \in objs[n].abi
      BY <1>0, <1>1, <2>3
    <3>2. \A s \in DOMAIN b.sec : \A x \in b.sec[s] :
            \E i \in 1 .. n : \E c \in objs[i].abi : s \in DOMAIN c.sec /\ x \in c.sec[s]
      BY <3>1
    <3>. QED
      BY <2>4, <3>1, <3>2 DEF ComesFrom
  <2>6. \A i \in 1 .. n : \A c \in objs[i].abi : Holds(b, c)
    <3>1. Holds(b, b)
      BY DEF Holds
    <3>. QED
      BY <1>0, <1>1, <2>3, <2>4, <3>1
  <2>. QED
    BY <1>1, <1>2, <1>6, <2>2, <2>3, <2>5, <2>6 DEF Combined
<1>7. ASSUME r.ok, NEW m, r.abi = {m}, AbiShape(m), ComesFrom(m, objs, n - 1),
             NEW b, o.abi = {b}, AbiShape(b)
      PROVE  Combined(objs, n, q)
  <2>1. q = IF Throws(m, b) THEN [r EXCEPT !.ok = FALSE] ELSE [r EXCEPT !.abi = {Merge(m, b)}]
    <3>1. r.abi # {} /\ o.abi # {} /\ The(r.abi) = m /\ The(o.abi) = b
      BY <1>7, TheOnly
    <3>. QED
      BY <1>2, <1>7, <3>1 DEF MergeInto, NoAbi
  <2>2. CASE Throws(m, b)
    <3>1. DOMAIN q = {"ok", "abi"} /\ q.ok = FALSE /\ q.abi = {m}
      BY <1>7, <2>1, <2>2 DEF Combined
    <3>2. \E h, i \in 1 .. n : \E a \in objs[h].abi, c \in objs[i].abi : Disagree(a, c)
      <4>1. Disagree(m, b)
        BY <1>7, <2>2, ThrowsDisagree
      <4>2. n \in 1 .. n /\ b \in objs[n].abi
        BY <1>0, <1>1, <1>7
      <4>3. CASE "calls" \in DOMAIN m.sec /\ "calls" \notin DOMAIN b.sec
        <5>1. PICK i \in 1 .. n - 1 : \E c \in objs[i].abi : "calls" \in DOMAIN m.sec <=> "calls" \in DOMAIN c.sec
          BY <1>7 DEF ComesFrom
        <5>. QED
          BY <1>0, <4>2, <4>3, <5>1 DEF Disagree
      <4>4. ASSUME NEW s \in DOMAIN m.sec \cap DOMAIN b.sec, Clash(s, m.sec[s], b.sec[s])
            PROVE  \E h, i \in 1 .. n : \E a \in objs[h].abi, c \in objs[i].abi : Disagree(a, c)
        <5>1. PICK x \in m.sec[s], y \in b.sec[s] : x.id = y.id /\ ~IsSame(s, x, y)
          BY <4>4 DEF Clash
        <5>2. PICK i \in 1 .. n - 1 : \E c \in objs[i].abi : s \in DOMAIN c.sec /\ x \in c.sec[s]
          BY <1>7, <4>4 DEF ComesFrom
        <5>3. PICK c \in objs[i].abi : s \in DOMAIN c.sec /\ x \in c.sec[s]
          BY <5>2
        <5>4. Clash(s, c.sec[s], b.sec[s])
          BY <5>1, <5>3 DEF Clash
        <5>5. Disagree(c, b)
          BY <4>4, <5>3, <5>4 DEF Disagree
        <5>. QED
          BY <1>0, <4>2, <5>2, <5>3, <5>5
      <4>. QED
        BY <4>1, <4>3, <4>4 DEF Disagree
    <3>3. AbiShape(m) /\ ComesFrom(m, objs, n)
      BY <1>3, <1>7
    <3>. QED
      BY <3>1, <3>2, <3>3 DEF Combined
  <2>3. CASE ~Throws(m, b)
    <3>1. PICK l : l = Merge(m, b)
      OBVIOUS
    <3>2. DOMAIN q = {"ok", "abi"} /\ q.ok = TRUE /\ q.abi = {l}
      BY <1>7, <2>1, <2>3, <3>1 DEF Combined
    <3>3. /\ AbiShape(l) /\ DOMAIN l.sec = DOMAIN m.sec /\ Holds(l, b) /\ Holds(l, m)
          /\ DOMAIN m.sec \subseteq DOMAIN b.sec
          /\ \A s \in DOMAIN m.sec : \A x \in l.sec[s] : x \in m.sec[s] \/ x \in b.sec[s]
      BY <1>7, <2>3, <3>1, MergedFacts
    <3>4. ComesFrom(l, objs, n)
      <4>1. n \in 1 .. n /\ b \in objs[n].abi
        BY <1>0, <1>1, <1>7
      <4>2. ComesFrom(m, objs, n)
        BY <1>3, <1>7
      <4>3. ASSUME NEW s \in DOMAIN l.sec, NEW x \in l.sec[s]
            PROVE  \E i \in 1 .. n : \E c \in objs[i].abi : s \in DOMAIN c.sec /\ x \in c.sec[s]
        <5>1. CASE x \in m.sec[s]
          BY <3>3, <4>2, <4>3, <5>1 DEF ComesFrom
        <5>2. CASE x \in b.sec[s]
          BY <3>3, <4>1, <4>3, <5>2
        <5>. QED
          BY <3>3, <4>3, <5>1, <5>2
      <4>4. \E i \in 1 .. n : /\ \A h \in 1 .. i - 1 : objs[h].abi = {}
                              /\ \E c \in objs[i].abi : "calls" \in DOMAIN l.sec <=> "calls" \in DOMAIN c.sec
        BY <3>3, <4>2 DEF ComesFrom
      <4>. QED
        BY <4>3, <4>4 DEF ComesFrom
    <3>5. \A i \in 1 .. n : \A c \in objs[i].abi : Holds(l, c)
      <4>1. \A i \in 1 .. n - 1 : \A c \in objs[i].abi : Holds(m, c)
        BY <1>7 DEF Combined
      <4>2. \A i \in 1 .. n - 1 : \A c \in objs[i].abi : Holds(l, c)
        BY <3>3, <4>1, HoldsMore
      <4>. QED
        BY <1>0, <1>1, <1>7, <3>3, <4>2
    <3>. QED
      BY <3>2, <3>3, <3>4, <3>5 DEF Combined
  <2>. QED
    BY <2>2, <2>3
<1>8. CASE r.ok /\ o.abi # {} /\ r.abi # {}
  <2>1. PICK m : r.abi = {m} /\ AbiShape(m) /\ ComesFrom(m, objs, n - 1)
    BY <1>8 DEF Combined
  <2>2. PICK b : o.abi = {b} /\ AbiShape(b)
    BY <1>1, <1>8 DEF Carries
  <2>. QED
    BY <1>1, <1>2, <1>7, <1>8, <2>1, <2>2
<1>. QED
  BY <1>1, <1>2, <1>4, <1>5, <1>6, <1>8

LEMMA AllCombined ==
    ASSUME NEW objs, Len(objs) \in Nat, \A i \in 1 .. Len(objs) : Carries(objs[i])
    PROVE  Combined(objs, Len(objs), LinkedAbi(objs))
<1>1. PICK w : LinkWalks(objs, w)
  BY LinkWalk
<1>. DEFINE Q == {i \in 0 .. Len(objs) : Combined(objs, i, w[i])}
<1>2. Combined(objs, 0, w[0])
  <2>1. PICK r : r = w[0]
    OBVIOUS
  <2>2. DOMAIN r = {"ok", "abi"} /\ r.ok = TRUE /\ r.abi = {}
    BY <1>1, <2>1 DEF LinkWalks, NoAbi
  <2>3. \A i \in 1 .. 0 : objs[i].abi = {}
    OBVIOUS
  <2>4. \A m \in r.abi : \A i \in 1 .. 0 : \A b \in objs[i].abi : Holds(m, b)
    BY <2>2
  <2>5. Combined(objs, 0, r)
    BY <2>2, <2>3, <2>4, Zenon DEF Combined
  <2>. QED
    BY <2>1, <2>5
<1>3. ASSUME NEW i \in 1 .. Len(objs), Combined(objs, i - 1, w[i - 1])
      PROVE  Combined(objs, i, w[i])
  <2>1. PICK r : r = w[i - 1]
    OBVIOUS
  <2>2. Combined(objs, i, MergeInto(r, objs[i]))
    BY <1>3, <2>1, CombineNext
  <2>. QED
    BY <1>1, <2>1, <2>2 DEF LinkWalks
<1>4. \A i \in 0 .. Len(objs) : i \in Q
  <2>1. 0 \in Q
    BY <1>2
  <2>2. \A i \in 1 .. Len(objs) : i - 1 \in Q => i \in Q
    BY <1>3
  <2>. HIDE DEF Q
  <2>. QED
    BY <2>1, <2>2, UpToN
<1>. QED
  BY <1>1, <1>4 DEF LinkWalks

-----------------------------------------------------------------------------
(* What the objects of cdt-cpp have.                                       *)

\* The declarations in the first m inputs.
Decls(ins, m) == UNION {Elements(Unit[ins[h]]) : h \in 1 .. m}

\* The ABI a names the actions and calls of O.
Names(O, a) ==
    /\ \A d \in O : "action" \in d.is => d.name \in Ids(a.sec["actions"])
    /\ \A d \in O : "call" \in d.is => "calls" \in DOMAIN a.sec /\ d.name \in Ids(a.sec["calls"])

\* What holds of an ABI made from the declarations O, when g is what abigen
\* has collected since.
AbiFacts(O, g, a) ==
    /\ AbiShape(a) /\ Within(a, g) /\ Names(O, a)
    /\ "calls" \in DOMAIN a.sec => \E d \in O : "call" \in d.is
    /\ Clauses # {} \/ \E d \in O : d.is # {"notify"}

NoMethods(O) == \A d \in O : d.is \cap {"action", "call"} = {}

AbiOf(O, g, S) == IF S = {} THEN NoMethods(O) ELSE \E a \in S : S = {a} /\ AbiFacts(O, g, a)

\* The dispatchers P are those of methods of O.
FromDecls(O, P) == \A x \in P : \E d \in O : \E k \in d.is \cap Kinds : x = Entry(d, k)

ObjOf(O, g, o) == FromDecls(O, o.disp) /\ AbiOf(O, g, o.abi)

\* What holds of every object and image: the ABI names what is dispatched.
Good(o) ==
    /\ Carries(o)
    /\ o.abi = {} => NamesIn(o.disp, "action") = {} /\ NamesIn(o.disp, "call") = {}
    /\ \A a \in o.abi :
         /\ NamesIn(o.disp, "action") \subseteq Ids(a.sec["actions"])
         /\ "calls" \in DOMAIN a.sec => NamesIn(o.disp, "call") \subseteq Ids(a.sec["calls"])

\* ... and of the image of cdt-cpp, for the declarations O.
ImageFor(O, o) ==
    /\ FromDecls(O, o.disp)
    /\ o.abi = {} => NoMethods(O)
    /\ \A a \in o.abi : Names(O, a)

LEMMA DeclsZero ==
    ASSUME NEW ins
    PROVE  Decls(ins, 0) = {}
  BY DEF Decls

LEMMA DeclsNext ==
    ASSUME NEW ins, NEW m \in Nat
    PROVE  Decls(ins, m + 1) = Decls(ins, m) \cup Elements(Unit[ins[m + 1]])
<1>1. 1 .. m + 1 = (1 .. m) \cup {m + 1}
  OBVIOUS
<1>. QED
  BY <1>1 DEF Decls

LEMMA DeclsMore ==
    ASSUME NEW ins, NEW m \in Nat, NEW n \in Nat, m <= n
    PROVE  Decls(ins, m) \subseteq Decls(ins, n) /\ Ours(Decls(ins, m)) \subseteq Ours(Decls(ins, n))
<1>1. 1 .. m \subseteq 1 .. n
  OBVIOUS
<1>2. Decls(ins, m) \subseteq Decls(ins, n)
  BY <1>1 DEF Decls
<1>. QED
  BY <1>2 DEF Ours

LEMMA UnitDeclares ==
    ASSUME NEW u \in DOMAIN Unit
    PROVE  Unit[u] \in Seq(Elements(Unit[u])) /\ \A d \in Elements(Unit[u]) : Declares(d)
  BY UnitAssumption DEF Declares, IsMethod

LEMMA AbiLater ==
    ASSUME NEW O, NEW g, NEW h, Later(g, h), NEW S, AbiOf(O, g, S)
    PROVE  AbiOf(O, h, S)
<1>1. CASE S = {}
  BY <1>1 DEF AbiOf
<1>2. CASE S # {}
  <2>1. PICK a \in S : S = {a} /\ AbiFacts(O, g, a)
    BY <1>2 DEF AbiOf
  <2>2. AbiFacts(O, h, a)
    BY <2>1, LaterWithin DEF AbiFacts
  <2>. QED
    BY <1>2, <2>1, <2>2 DEF AbiOf
<1>. QED
  BY <1>1, <1>2

LEMMA ObjLater ==
    ASSUME NEW O, NEW g, NEW h, Later(g, h), NEW o, ObjOf(O, g, o)
    PROVE  ObjOf(O, h, o)
  BY AbiLater DEF ObjOf

\* The names of the dispatchers are those of the methods.
LEMMA NamesOfDecls ==
    ASSUME NEW O, NEW P, FromDecls(O, P), NEW k \in Kinds, NEW n \in NamesIn(P, k)
    PROVE  \E d \in O : k \in d.is /\ n = d.name
<1>1. PICK x \in P : x.kind = k /\ n = x.name
  BY DEF NamesIn
<1>2. PICK d \in O : \E q \in d.is \cap Kinds : x = Entry(d, q)
  BY DEF FromDecls
<1>3. PICK q \in d.is \cap Kinds : x = Entry(d, q)
  BY <1>2
<1>4. q = k /\ n = d.name
  BY <1>1, <1>3 DEF Entry
<1>. QED
  BY <1>3, <1>4

\* An ABI with the names of O has those of the dispatchers for O.
LEMMA NamedIsGood ==
    ASSUME NEW O, NEW P, FromDecls(O, P), NEW a, Names(O, a)
    PROVE  /\ NamesIn(P, "action") \subseteq Ids(a.sec["actions"])
           /\ NamesIn(P, "call") # {} => "calls" \in DOMAIN a.sec
           /\ NamesIn(P, "call") \subseteq Ids(a.sec["calls"])
<1>1. "action" \in Kinds /\ "call" \in Kinds
  BY DEF Kinds
<1>2. ASSUME NEW n \in NamesIn(P, "action")
      PROVE  n \in Ids(a.sec["actions"])
  <2>1. \E d \in O : "action" \in d.is /\ n = d.name
    BY <1>1, <1>2, NamesOfDecls
  <2>. QED
    BY <2>1 DEF Names
<1>3. ASSUME NEW n \in NamesIn(P, "call")
      PROVE  "calls" \in DOMAIN a.sec /\ n \in Ids(a.sec["calls"])
  <2>1. \E d \in O : "call" \in d.is /\ n = d.name
    BY <1>1, <1>3, NamesOfDecls
  <2>. QED
    BY <2>1 DEF Names
<1>. QED
  BY <1>2, <1>3

LEMMA NoneDispatched ==
    ASSUME NEW O, NEW P, FromDecls(O, P), NoMethods(O)
    PROVE  NamesIn(P, "action") = {} /\ NamesIn(P, "call") = {}
<1>1. "action" \in Kinds /\ "call" \in Kinds
  BY DEF Kinds
<1>2. \A n \in NamesIn(P, "action") : FALSE
  BY <1>1, NamesOfDecls DEF NoMethods
<1>3. \A n \in NamesIn(P, "call") : FALSE
  BY <1>1, NamesOfDecls DEF NoMethods
<1>. QED
  BY <1>2, <1>3

LEMMA ObjGood ==
    ASSUME NEW O, NEW g, NEW o, ObjOf(O, g, o)
    PROVE  Good(o)
<1>1. FromDecls(O, o.disp) /\ AbiOf(O, g, o.abi)
  BY DEF ObjOf
<1>2. CASE o.abi = {}
  <2>1. NoMethods(O)
    BY <1>1, <1>2 DEF AbiOf
  <2>2. NamesIn(o.disp, "action") = {} /\ NamesIn(o.disp, "call") = {}
    BY <1>1, <2>1, NoneDispatched
  <2>. QED
    BY <1>2, <2>2 DEF Good, Carries
<1>3. CASE o.abi # {}
  <2>1. PICK a \in o.abi : o.abi = {a} /\ AbiFacts(O, g, a)
    BY <1>1, <1>3 DEF AbiOf
  <2>2. AbiShape(a) /\ Names(O, a)
    BY <2>1 DEF AbiFacts
  <2>3. /\ NamesIn(o.disp, "action") \subseteq Ids(a.sec["actions"])
        /\ NamesIn(o.disp, "call") \subseteq Ids(a.sec["calls"])
    BY <1>1, <2>2, NamedIsGood
  <2>. QED
    BY <1>3, <2>1, <2>2, <2>3 DEF Good, Carries
<1>. QED
  BY <1>2, <1>3

LEMMA ImageParts ==
    ASSUME NEW objs
    PROVE  /\ Image(objs).disp = UNION {objs[i].disp : i \in DOMAIN objs}
           /\ Image(objs).abi = LinkedAbi(objs).abi
  BY DEF Image, Object

\* Linking good objects gives a good image, and loses calls only where the
\* ABI of an object has none.
LEMMA ImageGood ==
    ASSUME NEW objs, Len(objs) \in Nat, DOMAIN objs = 1 .. Len(objs), LinkedAbi(objs).ok,
           \A i \in DOMAIN objs : Good(objs[i])
    PROVE  /\ Good(Image(objs))
           /\ \A m \in Image(objs).abi :
                \/ "calls" \in DOMAIN m.sec
                \/ \E i \in DOMAIN objs : \E b \in objs[i].abi : "calls" \notin DOMAIN b.sec
<1>1. PICK r : r = LinkedAbi(objs)
  OBVIOUS
<1>2. PICK o : o = Image(objs)
  OBVIOUS
<1>3. PICK n : n = Len(objs)
  OBVIOUS
<1>4. Combined(objs, n, r) /\ n \in Nat /\ DOMAIN objs = 1 .. n /\ r.ok
  BY <1>1, <1>3, AllCombined DEF Good
<1>5. o.disp = UNION {objs[i].disp : i \in 1 .. n} /\ o.abi = r.abi
  BY <1>1, <1>2, <1>4, ImageParts
<1>6. ASSUME NEW k, NEW e \in NamesIn(o.disp, k)
      PROVE  \E i \in 1 .. n : e \in NamesIn(objs[i].disp, k)
  BY <1>5, <1>6 DEF NamesIn
<1>7. CASE r.abi = {}
  <2>1. \A i \in 1 .. n : objs[i].abi = {}
    BY <1>4, <1>7 DEF Combined
  <2>2. \A i \in 1 .. n : NamesIn(objs[i].disp, "action") = {} /\ NamesIn(objs[i].disp, "call") = {}
    BY <1>4, <2>1 DEF Good
  <2>3. NamesIn(o.disp, "action") = {} /\ NamesIn(o.disp, "call") = {}
    BY <1>6, <2>2
  <2>. QED
    BY <1>2, <1>5, <1>7, <2>3 DEF Good, Carries
<1>8. CASE r.abi # {}
  <2>1. PICK m : r.abi = {m} /\ AbiShape(m) /\ ComesFrom(m, objs, n)
    BY <1>4, <1>8 DEF Combined
  <2>2. \A i \in 1 .. n : \A b \in objs[i].abi : Holds(m, b)
    BY <1>4, <2>1 DEF Combined
  <2>3. ASSUME NEW e \in NamesIn(o.disp, "action")
        PROVE  e \in Ids(m.sec["actions"])
    <3>1. PICK i \in 1 .. n : e \in NamesIn(objs[i].disp, "action")
      BY <1>6, <2>3
    <3>2. PICK b \in objs[i].abi : e \in Ids(b.sec["actions"])
      BY <1>4, <3>1 DEF Good
    <3>. QED
      BY <2>2, <3>2 DEF Holds
  <2>4. ASSUME "calls" \in DOMAIN m.sec, NEW e \in NamesIn(o.disp, "call")
        PROVE  e \in Ids(m.sec["calls"])
    <3>1. PICK i \in 1 .. n : e \in NamesIn(objs[i].disp, "call")
      BY <1>6, <2>4
    <3>2. PICK b \in objs[i].abi : TRUE
      BY <1>4, <3>1 DEF Good
    <3>3. "calls" \in DOMAIN b.sec /\ Ids(b.sec["calls"]) \subseteq Ids(m.sec["calls"])
      BY <2>2, <2>4, <3>2 DEF Holds
    <3>4. e \in Ids(b.sec["calls"])
      BY <1>4, <3>1, <3>2, <3>3 DEF Good
    <3>. QED
      BY <3>3, <3>4
  <2>5. Good(o)
    BY <1>5, <2>1, <2>3, <2>4 DEF Good, Carries
  <2>6. \/ "calls" \in DOMAIN m.sec
        \/ \E i \in DOMAIN objs : \E b \in objs[i].abi : "calls" \notin DOMAIN b.sec
    BY <1>4, <2>1 DEF ComesFrom
  <2>. QED
    BY <1>2, <1>5, <2>1, <2>5, <2>6
<1>. QED
  BY <1>7, <1>8

\* The first object cdt-cpp links is that of the last input, and its ABI has
\* all there is.
LEMMA ImageIsFor ==
    ASSUME NEW objs, Len(objs) \in Nat, DOMAIN objs = 1 .. Len(objs), Len(objs) # 0,
           LinkedAbi(objs).ok, NEW O, NEW g, AbiOf(O, g, objs[1].abi),
           \A i \in DOMAIN objs : Good(objs[i]) /\ FromDecls(O, objs[i].disp)
    PROVE  ImageFor(O, Image(objs))
<1>1. PICK r : r = LinkedAbi(objs)
  OBVIOUS
<1>2. PICK o : o = Image(objs)
  OBVIOUS
<1>3. PICK n : n = Len(objs)
  OBVIOUS
<1>4. Combined(objs, n, r) /\ n \in Nat /\ n # 0 /\ DOMAIN objs = 1 .. n /\ r.ok
  BY <1>1, <1>3, AllCombined DEF Good
<1>5. o.disp = UNION {objs[i].disp : i \in 1 .. n} /\ o.abi = r.abi
  BY <1>1, <1>2, <1>4, ImageParts
<1>6. FromDecls(O, o.disp)
  BY <1>4, <1>5 DEF FromDecls
<1>7. r.abi = {} => NoMethods(O)
  <2>1. 1 \in 1 .. n
    BY <1>4
  <2>. QED
    BY <1>4, <2>1 DEF Combined, AbiOf
<1>8. ASSUME NEW m \in r.abi
      PROVE  Names(O, m)
  <2>1. r.abi = {m} /\ ComesFrom(m, objs, n)
    BY <1>4, <1>8 DEF Combined
  <2>2. CASE objs[1].abi = {}
    <3>1. NoMethods(O)
      BY <2>2 DEF AbiOf
    <3>. QED
      BY <3>1 DEF NoMethods, Names
  <2>3. CASE objs[1].abi # {}
    <3>1. PICK b \in objs[1].abi : objs[1].abi = {b} /\ AbiFacts(O, g, b)
      BY <2>3 DEF AbiOf
    <3>2. Names(O, b)
      BY <3>1 DEF AbiFacts
    <3>3. 1 \in 1 .. n
      BY <1>4
    <3>4. Holds(m, b)
      BY <1>4, <2>1, <3>1, <3>3 DEF Combined
    <3>5. "calls" \in DOMAIN m.sec <=> "calls" \in DOMAIN b.sec
      <4>1. PICK i \in 1 .. n : /\ \A h \in 1 .. i - 1 : objs[h].abi = {}
                                /\ \E c \in objs[i].abi : "calls" \in DOMAIN m.sec <=> "calls" \in DOMAIN c.sec
        BY <2>1 DEF ComesFrom
      <4>2. i = 1
        <5>1. i > 1 => 1 \in 1 .. i - 1
          BY <1>4
        <5>2. ~(i > 1)
          BY <2>3, <4>1, <5>1
        <5>. QED
          BY <1>4, <5>2
      <4>. QED
        BY <3>1, <4>1, <4>2
    <3>. QED
      BY <3>2, <3>4, <3>5 DEF Names, Holds
  <2>. QED
    BY <2>2, <2>3
<1>. QED
  BY <1>2, <1>5, <1>6, <1>7, <1>8 DEF ImageFor

\* When the ABIs of two inputs disagree: only the second has calls, or an
\* annotated struct and a multi_index have one name.
CallsComeLater(O, P) ==
    /\ Clauses # {} \/ \E d \in O : d.is # {"notify"}
    /\ ~\E d \in O : "call" \in d.is
    /\ \E d \in P : "call" \in d.is

TableIsIndex(D) ==
    \E d, e \in D : /\ d.is = {"table"} /\ "index" \in e.is
                    /\ d.name = e.name /\ NameOf(d.type) # NameOf(e.type)

LEMMA WhyDisagree ==
    ASSUME NEW D, NEW g, Collected(D, g), NEW O, NEW P, NEW a, NEW b,
           AbiFacts(P, g, a), AbiFacts(O, g, b), Disagree(a, b)
    PROVE  CallsComeLater(O, P) \/ TableIsIndex(D)
<1>1. CASE "calls" \in DOMAIN a.sec /\ "calls" \notin DOMAIN b.sec
  BY <1>1 DEF AbiFacts, Names, CallsComeLater
<1>2. ASSUME NEW s \in DOMAIN a.sec \cap DOMAIN b.sec, Clash(s, a.sec[s], b.sec[s])
      PROVE  TableIsIndex(D)
  <2>1. PICK x \in a.sec[s], y \in b.sec[s] : x.id = y.id /\ ~IsSame(s, x, y)
    BY <1>2 DEF Clash
  <2>2. s \in Sections
    BY <1>2 DEF AbiFacts, AbiShape
  <2>3. /\ x \in g.abi.sec[s] \/ (s = "tables" /\ x \in g.ctables)
        /\ y \in g.abi.sec[s] \/ (s = "tables" /\ y \in g.ctables)
    BY <1>2, <2>1 DEF AbiFacts, Within
  <2>4. UniqueIds(g.abi.sec[s]) /\ UniqueIds(g.ctables) /\ x # y
    BY <2>1, <2>2, SameIsReflexive DEF Collected, AbiGenOk
  <2>5. s = "tables" /\ \/ x \in g.ctables /\ y \in g.abi.sec["tables"]
                        \/ y \in g.ctables /\ x \in g.abi.sec["tables"]
    BY <2>1, <2>3, <2>4 DEF UniqueIds
  <2>6. x.def # y.def
    BY <2>1, <2>5 DEF IsSame
  <2>7. Ours(D) \subseteq D
    BY DEF Ours
  <2>8. CASE x \in g.ctables /\ y \in g.abi.sec["tables"]
    <3>1. PICK d \in D : FromTable(d, x)
      BY <2>7, <2>8 DEF Collected
    <3>2. PICK e \in D : FromIndex(e, y)
      BY <2>7, <2>8 DEF Collected
    <3>. QED
      BY <2>1, <2>6, <3>1, <3>2 DEF FromTable, FromIndex, TableIsIndex
  <2>9. CASE y \in g.ctables /\ x \in g.abi.sec["tables"]
    <3>1. PICK d \in D : FromTable(d, y)
      BY <2>7, <2>9 DEF Collected
    <3>2. PICK e \in D : FromIndex(e, x)
      BY <2>7, <2>9 DEF Collected
    <3>. QED
      BY <2>1, <2>6, <3>1, <3>2 DEF FromTable, FromIndex, TableIsIndex
  <2>. QED
    BY <2>5, <2>8, <2>9
<1>. QED
  BY <1>1, <1>2 DEF Disagree

\* The ABI to_json makes of what was collected.
LEMMA JsonIsAbi ==
    ASSUME NEW D, NEW g, Collected(D, g), ~IsEmpty(g), \A d \in D : Declares(d)
    PROVE  AbiFacts(Ours(D), g, ToJson(g))
<1>1. PICK a : a = ToJson(g)
  OBVIOUS
<1>2. /\ AbiShape(a) /\ Within(a, g)
      /\ "calls" \in DOMAIN a.sec <=> g.abi.sec["calls"] # {}
      /\ a.sec["actions"] = g.abi.sec["actions"]
      /\ g.abi.sec["calls"] # {} => a.sec["calls"] = g.abi.sec["calls"]
  BY <1>1, JsonFacts DEF Collected
<1>3. Names(Ours(D), a)
  <2>1. \A d \in Ours(D) : Recorded(d, g)
    BY DEF Collected
  <2>2. \A d \in Ours(D) : "action" \in d.is => d.name \in Ids(a.sec["actions"])
    BY <1>2, <2>1 DEF Recorded
  <2>3. ASSUME NEW d \in Ours(D), "call" \in d.is
        PROVE  "calls" \in DOMAIN a.sec /\ d.name \in Ids(a.sec["calls"])
    <3>1. d.name \in Ids(g.abi.sec["calls"])
      BY <2>1, <2>3 DEF Recorded
    <3>2. g.abi.sec["calls"] # {}
      BY <3>1 DEF Ids
    <3>. QED
      BY <1>2, <3>1, <3>2
  <2>. QED
    BY <2>2, <2>3 DEF Names
<1>4. "calls" \in DOMAIN a.sec => \E d \in Ours(D) : "call" \in d.is
  BY <1>2 DEF Collected
<1>5. Clauses # {} \/ \E d \in Ours(D) : d.is # {"notify"}
  BY WhenEmpty
<1>. QED
  BY <1>1, <1>2, <1>3, <1>4, <1>5 DEF AbiFacts

-----------------------------------------------------------------------------
(* The same of the jobs.                                                   *)

Ins(j) == cmd[j].inputs

IsCpp(j) == cmd[j].tool = "cpp"

\* The inputs abigen is done with, the code generator and clang.
AbiDone(j) == IF pc[j] = "generate" THEN at[j] - 1 ELSE at[j]
CodeDone(j) == IF pc[j] \in {"generate", "codegen"} THEN at[j] - 1 ELSE at[j]
ObjDone(j) == IF pc[j] = "link" THEN at[j] ELSE at[j] - 1

AtEnd(j) == Compiler(j) /\ pc[j] \in {"link", "clean", "undo", "ok"} => at[j] = Inputs(j)

JobAbi(j) ==
    IsCpp(j) /\ pc[j] # "failed" =>
      /\ Collected(Decls(Ins(j), AbiDone(j)), ag[j])
      /\ AbiOf(Ours(Decls(Ins(j), AbiDone(j))), ag[j], cg[j].abi)
      /\ cg[j].parsed # "" => Decls(Ins(j), AbiDone(j)) # {}

JobCode(j) == IsCpp(j) /\ pc[j] # "failed" => Coded(Decls(Ins(j), CodeDone(j)), cg[j])

JobTmp(j) ==
    \A x \in DOMAIN tmp_files[j] :
      \E h \in 1 .. Inputs(j) : tmp_files[j][x] = TmpCpp(j, h) /\ h <= CodeDone(j) /\ Ins(j)[h] = x

JobStub(j) ==
    IsCpp(j) /\ pc[j] = "compile" =>
      /\ (\E k \in Kinds : cg[j].keys[k] # {}) => Input(j) \in DOMAIN tmp_files[j]
      /\ Redirected(j) /\ StdinFile(j) = TmpCpp(j, at[j]) => Exists(TmpCpp(j, at[j]))
      /\ Exists(TmpCpp(j, at[j])) =>
           ObjOf(Ours(Decls(Ins(j), at[j])), ag[j], files[TmpCpp(j, at[j])])

JobObjects(j) ==
    IsCpp(j) /\ cmd[j].link /\ pc[j] \in {"generate", "codegen", "compile", "link"} =>
      \A i \in 1 .. ObjDone(j) :
        Exists(TmpObj(j, i)) /\ ObjOf(Ours(Decls(Ins(j), i)), ag[j], files[TmpObj(j, i)])

\* The dispatchers of the first m objects, and of the stub.
ObjDisp(j, m) == UNION {files[TmpObj(j, i)].disp : i \in 1 .. m}

StubDisp(j) ==
    IF pc[j] = "compile" /\ Exists(TmpCpp(j, at[j])) THEN files[TmpCpp(j, at[j])].disp ELSE {}

JobServed(j) ==
    IsCpp(j) /\ cmd[j].link /\ pc[j] \in {"generate", "codegen", "compile", "link"} =>
      Served(Decls(Ins(j), CodeDone(j)), ObjDisp(j, ObjDone(j)) \cup StubDisp(j), cg[j])

JobImage(j) ==
    IsCpp(j) /\ cmd[j].link /\ pc[j] \in {"clean", "ok"} =>
      /\ Exists(Output(j))
      /\ ImageFor(Ours(Decls(Ins(j), at[j])), ImageOf(j))
      /\ Served(Decls(Ins(j), at[j]), ImageOf(j).disp, cg[j])

CppFacts(j) ==
    /\ AtEnd(j) /\ JobAbi(j) /\ JobCode(j) /\ JobTmp(j) /\ JobStub(j)
    /\ JobObjects(j) /\ JobServed(j) /\ JobImage(j)

CppInv ==
    /\ DOMAIN ag = Jobs /\ DOMAIN cg = Jobs
    /\ \A j \in Jobs : CppFacts(j)

\* The outputs, and the objects of cdt-cc, which may not be a job's own.
CcClean == \A n : Exists(TmpCc(n)) => files[TmpCc(n)].disp = {} /\ files[TmpCc(n)].abi = {}

CcThere(j) ==
    /\ cmd[j].tool = "cc" /\ cmd[j].link /\ pc[j] \in {"compile", "link"} /\ ~Collides(j) =>
         \A i \in 1 .. ObjDone(j) : Exists(TmpCc(Ins(j)[i]))
    /\ cmd[j].tool = "cc" /\ Exists(Output(j)) => ImageOf(j).abi = {}

OutThere(j) ==
    /\ pc[j] \in {"ok", "clean"} /\ cmd[j].tool # "none" => Exists(Output(j))
    /\ Exists(Output(j)) => Good(ImageOf(j))

OutInv == CcClean /\ \A j \in Jobs : CcThere(j) /\ OutThere(j)

\* The inputs of cdt-ld are over, and stay as they are.
LdWaits(j) ==
    cmd[j].tool = "ld" /\ pc[j] # "wait" => \A k \in InputsOf(j) : pc[k] \in {"ok", "failed"}

LdDescribed(j) ==
    cmd[j].tool = "ld" /\ pc[j] = "ok" =>
      /\ \A k \in InputsOf(j) : Exists(Output(k))
      /\ \A a \in ImageOf(j).abi :
           \/ "calls" \in DOMAIN a.sec
           \/ \E k \in InputsOf(j) : \E b \in ImageOf(k).abi : "calls" \notin DOMAIN b.sec

Excused(j) ==
    pc[j] \in {"undo", "failed"} /\ j \notin broke =>
      /\ cmd[j].tool = "cpp" => CppExcuse(j)
      /\ cmd[j].tool = "cc" => CcExcuse(j)
      /\ cmd[j].tool = "ld" => LdExcuse(j)

EndInv == \A j \in Jobs : LdWaits(j) /\ LdDescribed(j) /\ Excused(j)

-----------------------------------------------------------------------------
(* The inputs of a job.                                                    *)

LEMMA InsFacts ==
    ASSUME Shape, NEW j \in Jobs
    PROVE  /\ Inputs(j) \in Nat /\ DOMAIN Ins(j) = 1 .. Inputs(j)
           /\ IsCpp(j) => Compiler(j) /\ Inputs(j) >= 1 /\ at[j] \in 1 .. Inputs(j)
           /\ IsCpp(j) => \A i \in 1 .. Inputs(j) : Ins(j)[i] \in DOMAIN Unit
           /\ \A i \in 1 .. Inputs(j) : Ins(j)[i] \in InputsOf(j)
           /\ \A k \in InputsOf(j) : \E i \in 1 .. Inputs(j) : k = Ins(j)[i]
           /\ cmd[j].tool = "ld" => \A k \in InputsOf(j) : k \in Jobs /\ cmd[k].tool # "none"
<1>1. /\ Inputs(j) \in Nat /\ DOMAIN Ins(j) = 1 .. Inputs(j) /\ (Compiler(j) => Inputs(j) >= 1)
  BY CmdFacts DEF Shape, Ins
<1>2. \A i \in 1 .. Inputs(j) : Ins(j)[i] \in InputsOf(j)
  BY <1>1 DEF InputsOf, Elements, Ins
<1>3. \A k \in InputsOf(j) : \E i \in 1 .. Inputs(j) : k = Ins(j)[i]
  BY <1>1 DEF InputsOf, Elements, Ins
<1>4. /\ IsCpp(j) => InputsOf(j) \subseteq DOMAIN Unit
      /\ cmd[j].tool = "ld" => \A k \in InputsOf(j) : k \in Jobs /\ cmd[k].tool # "none"
  BY ScenariosAssumption DEF Shape, IsCpp, InputsOf
<1>5. IsCpp(j) => Compiler(j) /\ at[j] \in 1 .. Inputs(j)
  BY DEF IsCpp, Compiler, Shape, JobShape
<1>. QED
  BY <1>1, <1>2, <1>3, <1>4, <1>5

LEMMA DeclsFacts ==
    ASSUME Shape, NEW j \in Jobs, IsCpp(j)
    PROVE  /\ DeclsOf(j) = Decls(Ins(j), Inputs(j))
           /\ \A m \in 0 .. Inputs(j) : \A d \in Decls(Ins(j), m) : Declares(d)
<1>1. DeclsOf(j) = UNION {Elements(Unit[u]) : u \in InputsOf(j)}
  BY DEF DeclsOf, IsCpp
<1>2. \A d \in DeclsOf(j) : d \in Decls(Ins(j), Inputs(j))
  BY <1>1, InsFacts DEF Decls
<1>3. \A d \in Decls(Ins(j), Inputs(j)) : d \in DeclsOf(j)
  BY <1>1, InsFacts DEF Decls
<1>4. ASSUME NEW m \in 0 .. Inputs(j), NEW d \in Decls(Ins(j), m)
      PROVE  Declares(d)
  <2>1. PICK h \in 1 .. m : d \in Elements(Unit[Ins(j)[h]])
    BY <1>4 DEF Decls
  <2>2. Ins(j)[h] \in DOMAIN Unit
    BY InsFacts
  <2>. QED
    BY <2>1, <2>2, UnitDeclares
<1>. QED
  BY <1>2, <1>3, <1>4

\* The current unit.
LEMMA CurrentUnit ==
    ASSUME Shape, NEW j \in Jobs, IsCpp(j)
    PROVE  /\ at[j] - 1 \in Nat /\ at[j] \in Nat
           /\ Unit[Input(j)] \in Seq(Elements(Unit[Input(j)]))
           /\ \A d \in Elements(Unit[Input(j)]) : Declares(d)
           /\ Decls(Ins(j), at[j]) = Decls(Ins(j), at[j] - 1) \cup Elements(Unit[Input(j)])
           /\ \A d \in Decls(Ins(j), at[j]) : Declares(d)
<1>1. at[j] - 1 \in Nat /\ at[j] \in 1 .. Inputs(j) /\ Inputs(j) \in Nat
  BY InsFacts
<1>2. Input(j) = Ins(j)[at[j]] /\ Input(j) \in DOMAIN Unit
  BY <1>1, InsFacts DEF Input, Ins
<1>3. PICK m : m = at[j] - 1
  OBVIOUS
<1>4. m \in Nat /\ at[j] = m + 1
  BY <1>1, <1>3
<1>5. Decls(Ins(j), m + 1) = Decls(Ins(j), m) \cup Elements(Unit[Ins(j)[m + 1]])
  BY <1>4, DeclsNext
<1>6. \A d \in Decls(Ins(j), at[j]) : Declares(d)
  BY <1>1, DeclsFacts
<1>. QED
  BY <1>1, <1>2, <1>3, <1>4, <1>5, <1>6, UnitDeclares

-----------------------------------------------------------------------------
(* What a step leaves alone.                                               *)

LEMMA StubsFramed ==
    ASSUME IInv, NEW j \in Jobs
    PROVE  \A f \in Spent(j) : \E i \in 1 .. Inputs(j) : f = TmpCpp(j, i)
  BY DEF IInv, Shape, JobShape, Spent, Redirected, StdinFile

LEMMA StepFrames ==
    ASSUME IInv, NEW j \in Jobs, Step(j)
    PROVE  Others(j) /\ Framed(j)
<1>1. ASSUME NEW reused, Abigen(j, reused) \/ AbigenError(j)
      PROVE  Others(j) /\ Framed(j)
  <2>1. files' = files
    BY <1>1 DEF Abigen, AbigenError
  <2>. QED
    BY <1>1, <2>1, AbigenStep DEF Framed
<1>2. ASSUME NEW bad \in BOOLEAN, Codegen(j, bad)
      PROVE  Others(j) /\ Framed(j)
  <2>1. PICK fs :
          /\ pc[j] = "codegen" /\ UNCHANGED <<cmd, at>>
          /\ (fs = files /\ tmp_files' = tmp_files) \/ Stubbed(j, fs, tmp_files')
          /\ \/ Goto(j, "failed") /\ outs' = outs /\ files' = fs
             \/ /\ Goto(j, "compile")
                /\ outs' = [outs EXCEPT ![j] = Append(@, OutputOf(j))]
                /\ files' = IF cmd[j].link THEN WithFile(fs, OutputOf(j), EmptyFile) ELSE fs
    BY <1>2, CodegenEffect
  <2>2. Shape /\ Others(j)
    BY <1>2, CodegenStep DEF IInv
  <2>3. Compiler(j) /\ Inputs(j) \in Nat /\ at[j] \in 1 .. Inputs(j)
    BY <2>1, <2>2, PlaceFacts, CmdFacts DEF JobShape, Shape
  <2>4. fs = files \/ \E x : fs = WithFile(files, TmpCpp(j, at[j]), x)
    BY <2>1 DEF Stubbed
  <2>. SUFFICES ASSUME NEW f, ~Touches(j, f)
                PROVE  /\ f \in DOMAIN files' <=> f \in DOMAIN files
                       /\ f \in DOMAIN files => files'[f] = files[f]
    BY <2>2 DEF Framed
  <2>5. f # TmpCpp(j, at[j]) /\ (cmd[j].link => f # OutputAt(j, at[j]))
    BY <2>3 DEF Touches
  <2>6. (f \in DOMAIN fs <=> f \in DOMAIN files) /\ (f \in DOMAIN files => fs[f] = files[f])
    BY <2>4, <2>5 DEF WithFile
  <2>7. files' = fs \/ (cmd[j].link /\ files' = WithFile(fs, OutputAt(j, at[j]), EmptyFile))
    BY <2>1 DEF OutputOf
  <2>. QED
    BY <2>5, <2>6, <2>7 DEF WithFile
<1>3. ASSUME Compile(j)
      PROVE  Others(j) /\ Framed(j)
  <2>1. /\ Compiler(j) /\ Inputs(j) \in Nat /\ at[j] \in 1 .. Inputs(j) /\ Others(j)
        /\ files' = Without(WithFile(files, OutputAt(j, at[j]), CompiledObject(j)), Spent(j))
    BY <1>3, CompileEffect
  <2>. SUFFICES ASSUME NEW f, ~Touches(j, f)
                PROVE  /\ f \in DOMAIN files' <=> f \in DOMAIN files
                       /\ f \in DOMAIN files => files'[f] = files[f]
    BY <2>1 DEF Framed
  <2>2. f \notin Spent(j)
    BY StubsFramed DEF Touches
  <2>3. f # OutputAt(j, at[j])
    <3>1. CASE cmd[j].link
      BY <2>1, <3>1 DEF Touches
    <3>2. CASE ~cmd[j].link
      BY <3>2 DEF Touches, OutputAt
    <3>. QED
      BY <3>1, <3>2
  <2>. QED
    BY <2>1, <2>2, <2>3 DEF Without, WithFile
<1>4. ASSUME CompileError(j)
      PROVE  Others(j) /\ Framed(j)
  <2>1. files' = Without(files, Spent(j)) /\ Others(j)
    BY <1>4, CompileErrorStep DEF CompileError
  <2>. QED
    BY <2>1, StubsFramed DEF Framed, Touches, Without
<1>5. ASSUME StartLd(j) \/ Link(j) \/ LinkError(j)
      PROVE  Others(j) /\ Framed(j)
  <2>1. files' = files \/ \E x : files' = WithFile(files, Output(j), x)
    BY <1>5 DEF StartLd, Link, LinkError
  <2>2. Others(j)
    BY <1>5, LinkSteps
  <2>. QED
    BY <2>1, <2>2 DEF Framed, Touches, WithFile
<1>6. ASSUME Clean(j)
      PROVE  Others(j) /\ Framed(j)
  <2>1. /\ Others(j) /\ files' = Without(files, {OutputAt(j, i) : i \in 1 .. Inputs(j)})
        /\ Compiler(j) /\ cmd[j].link
    BY <1>6, CleanStep, PlaceFacts DEF Clean, IInv
  <2>. QED
    BY <2>1 DEF Framed, Touches, Without
<1>. QED
  BY <1>1, <1>2, <1>3, <1>4, <1>5, <1>6 DEF Step

\* The generators of the other jobs, too, and whether a program failed.
Apart(j) ==
    /\ DOMAIN ag' = Jobs /\ DOMAIN cg' = Jobs
    /\ \A k \in Jobs \ {j} : ag'[k] = ag[k] /\ cg'[k] = cg[k] /\ (k \in broke' <=> k \in broke)

LEMMA StepApart ==
    ASSUME DOMAIN ag = Jobs, DOMAIN cg = Jobs, NEW j \in Jobs, Step(j)
    PROVE  Apart(j)
<1>1. ASSUME NEW reused, Abigen(j, reused)
      PROVE  Apart(j)
  <2>1. broke' = broke /\ (\E g : ag' = [ag EXCEPT ![j] = g]) /\ \E c : cg' = [cg EXCEPT ![j] = c]
    BY <1>1 DEF Abigen
  <2>. QED
    BY <2>1 DEF Apart
<1>2. ASSUME NEW bad \in BOOLEAN, Codegen(j, bad)
      PROVE  Apart(j)
  <2>1. broke' \in {broke, broke \cup {j}} /\ ag' = ag /\ \E c : cg' = [cg EXCEPT ![j] = c]
    BY <1>2 DEF Codegen
  <2>. QED
    BY <2>1 DEF Apart
<1>3. ASSUME UNCHANGED <<ag, cg>>, broke' \in {broke, broke \cup {j}}
      PROVE  Apart(j)
  BY <1>3 DEF Apart
<1>4. CASE AbigenError(j)
  BY <1>3, <1>4 DEF AbigenError, Breaks
<1>5. CASE Compile(j)
  BY <1>3, <1>5 DEF Compile
<1>6. CASE CompileError(j)
  BY <1>3, <1>6 DEF CompileError, Breaks
<1>7. CASE StartLd(j) \/ Link(j) \/ Clean(j)
  BY <1>3, <1>7 DEF StartLd, Link, Clean
<1>8. CASE LinkError(j)
  BY <1>3, <1>8 DEF LinkError, Breaks
<1>. QED
  BY <1>1, <1>2, <1>4, <1>5, <1>6, <1>7, <1>8 DEF Step

-----------------------------------------------------------------------------
(* A step of one job and the others; abigen.                               *)

\* f has not changed.
Kept(f) == (f \in DOMAIN files' <=> f \in DOMAIN files) /\ (f \in DOMAIN files => files'[f] = files[f])

LEMMA FilesStay ==
    ASSUME Shape, NEW j \in Jobs, Framed(j), NEW k \in Jobs, k # j
    PROVE  /\ \A i : Kept(TmpCpp(k, i))
           /\ Kept(Output(k))
           /\ IsCpp(k) /\ cmd[k].link => \A i \in 1 .. Inputs(k) : Kept(TmpObj(k, i))
           /\ cmd[k].tool = "cc" /\ cmd[k].link /\ ~Collides(k) =>
                \A i \in 1 .. Inputs(k) : Kept(TmpCc(Ins(k)[i]))
<1>1. \A i : Kept(TmpCpp(k, i))
  BY Untouched DEF Framed, Kept
<1>2. Kept(Output(k))
  BY Untouched DEF Framed, Kept
<1>3. ASSUME IsCpp(k), cmd[k].link, NEW i \in 1 .. Inputs(k)
      PROVE  Kept(TmpObj(k, i))
  <2>1. Compiler(k) /\ ~Collides(k) /\ OutputAt(k, i) = TmpObj(k, i)
    BY <1>3 DEF IsCpp, Compiler, Collides, OutputAt
  <2>2. ~Touches(j, TmpObj(k, i))
    BY <1>3, <2>1, Untouched
  <2>. QED
    BY <2>2 DEF Framed, Kept
<1>4. ASSUME cmd[k].tool = "cc", cmd[k].link, ~Collides(k), NEW i \in 1 .. Inputs(k)
      PROVE  Kept(TmpCc(Ins(k)[i]))
  <2>1. Compiler(k) /\ OutputAt(k, i) = TmpCc(Ins(k)[i])
    BY <1>4 DEF Compiler, OutputAt, Ins
  <2>2. ~Touches(j, TmpCc(Ins(k)[i]))
    BY <1>4, <2>1, Untouched
  <2>. QED
    BY <2>2 DEF Framed, Kept
<1>. QED
  BY <1>1, <1>2, <1>3, <1>4

\* A step that is none of the job k's.
Unmoved(k) ==
    /\ cmd' = cmd /\ pc'[k] = pc[k] /\ at'[k] = at[k] /\ tmp_files'[k] = tmp_files[k]
    /\ ag'[k] = ag[k] /\ cg'[k] = cg[k] /\ (k \in broke' <=> k \in broke)
    /\ \A i : Kept(TmpCpp(k, i))
    /\ Kept(Output(k))
    /\ IsCpp(k) /\ cmd[k].link => \A i \in 1 .. Inputs(k) : Kept(TmpObj(k, i))
    /\ cmd[k].tool = "cc" /\ cmd[k].link /\ ~Collides(k) =>
         \A i \in 1 .. Inputs(k) : Kept(TmpCc(Ins(k)[i]))

LEMMA OthersUnmoved ==
    ASSUME Shape, NEW j \in Jobs, Others(j), Framed(j), Apart(j), NEW k \in Jobs, k # j
    PROVE  Unmoved(k)
<1>1. /\ cmd' = cmd /\ pc'[k] = pc[k] /\ at'[k] = at[k] /\ tmp_files'[k] = tmp_files[k]
      /\ ag'[k] = ag[k] /\ cg'[k] = cg[k] /\ (k \in broke' <=> k \in broke)
  BY DEF Others, Apart
<1>. QED
  BY <1>1, FilesStay DEF Unmoved

LEMMA StutterUnmoved ==
    ASSUME UNCHANGED vars, NEW k \in Jobs
    PROVE  Unmoved(k)
  BY DEF vars, Unmoved, Kept

LEMMA CppStays ==
    ASSUME Shape, NEW k \in Jobs, Unmoved(k), CppFacts(k)
    PROVE  CppFacts(k)'
<1>1. /\ cmd' = cmd /\ pc'[k] = pc[k] /\ at'[k] = at[k] /\ tmp_files'[k] = tmp_files[k]
      /\ ag'[k] = ag[k] /\ cg'[k] = cg[k]
  BY DEF Unmoved
<1>2. /\ \A i : Kept(TmpCpp(k, i))
      /\ Kept(Output(k))
      /\ IsCpp(k) /\ cmd[k].link => \A i \in 1 .. Inputs(k) : Kept(TmpObj(k, i))
  BY DEF Unmoved
<1>3. /\ (Compiler(k)' <=> Compiler(k)) /\ (IsCpp(k)' <=> IsCpp(k)) /\ Ins(k)' = Ins(k)
      /\ Inputs(k)' = Inputs(k) /\ cmd'[k].link = cmd[k].link /\ Input(k)' = Input(k)
      /\ AbiDone(k)' = AbiDone(k) /\ CodeDone(k)' = CodeDone(k) /\ ObjDone(k)' = ObjDone(k)
      /\ (Redirected(k)' <=> Redirected(k)) /\ StdinFile(k)' = StdinFile(k)
  BY <1>1 DEF Compiler, IsCpp, Ins, Inputs, Input, AbiDone, CodeDone, ObjDone, Redirected, StdinFile
<1>4. AtEnd(k)' /\ JobAbi(k)' /\ JobCode(k)' /\ JobTmp(k)'
  BY <1>1, <1>3 DEF CppFacts, AtEnd, JobAbi, JobCode, JobTmp
<1>5. JobStub(k)'
  BY <1>1, <1>2, <1>3 DEF CppFacts, JobStub, Exists, Kept
<1>6. IsCpp(k) => Inputs(k) \in Nat /\ at[k] \in 1 .. Inputs(k) /\ \A i \in 1 .. ObjDone(k) : i \in 1 .. Inputs(k)
  BY InsFacts DEF ObjDone
<1>7. JobObjects(k)'
  BY <1>1, <1>2, <1>3, <1>6 DEF CppFacts, JobObjects, Exists, Kept
<1>8. JobServed(k)'
  <2>. SUFFICES ASSUME IsCpp(k), cmd[k].link, pc[k] \in {"generate", "codegen", "compile", "link"}
                PROVE  Served(Decls(Ins(k), CodeDone(k)), (ObjDisp(k, ObjDone(k)) \cup StubDisp(k))', cg[k])
    BY <1>1, <1>3 DEF JobServed
  <2>1. \A i \in 1 .. ObjDone(k) : files'[TmpObj(k, i)] = files[TmpObj(k, i)]
    BY <1>2, <1>6 DEF CppFacts, JobObjects, Exists, Kept
  <2>2. ObjDisp(k, ObjDone(k))' = ObjDisp(k, ObjDone(k))
    BY <1>3, <2>1 DEF ObjDisp
  <2>3. StubDisp(k)' = StubDisp(k)
    BY <1>1, <1>2 DEF StubDisp, Exists, Kept
  <2>. QED
    BY <2>2, <2>3 DEF CppFacts, JobServed
<1>9. JobImage(k)'
  <2>. SUFFICES ASSUME IsCpp(k), cmd[k].link, pc[k] \in {"clean", "ok"}
                PROVE  /\ Output(k) \in DOMAIN files'
                       /\ ImageFor(Ours(Decls(Ins(k), at[k])), files'[Output(k)])
                       /\ Served(Decls(Ins(k), at[k]), files'[Output(k)].disp, cg[k])
    BY <1>1, <1>3 DEF JobImage, ImageOf, Exists
  <2>1. Exists(Output(k))
    BY DEF CppFacts, JobImage
  <2>2. Output(k) \in DOMAIN files' /\ files'[Output(k)] = files[Output(k)]
    BY <1>2, <2>1 DEF Kept, Exists
  <2>. QED
    BY <2>2 DEF CppFacts, JobImage, ImageOf
<1>. QED
  BY <1>4, <1>5, <1>7, <1>8, <1>9 DEF CppFacts

\* A job that failed has nothing more to show.
LEMMA FailedFacts ==
    ASSUME NEW j \in Jobs, pc'[j] = "failed", JobTmp(j)'
    PROVE  CppFacts(j)'
  BY DEF CppFacts, AtEnd, JobAbi, JobCode, JobStub, JobObjects, JobServed, JobImage

\* The code generator takes the ABI over, when there is one.
WithAbi(h, p) == IF IsEmpty(h) THEN p ELSE [p EXCEPT !.abi = {ToJson(h)}]

\* What a run of abigen adds up to: before the unit, and after it.
BeforeUnit(D, E, g, c, unit) ==
    /\ Collected(D, g) /\ Coded(E, c) /\ AbiOf(Ours(D), g, c.abi)
    /\ unit \in Seq(Elements(unit))
    /\ \A d \in D \cup Elements(unit) : Declares(d)

AfterUnit(D, E, g, c, unit, h, q) ==
    /\ Collected(D \cup Elements(unit), h) /\ Later(g, h)
    /\ AbiOf(Ours(D \cup Elements(unit)), h, q.abi)
    /\ Coded(E, q) /\ q.keys = c.keys
    /\ q.parsed = ParsedByAbiGen(unit, c).parsed
    /\ q.parsed # c.parsed => Elements(unit) # {}
    /\ IsEmpty(h) => Clauses = {} /\ \A d \in Ours(D \cup Elements(unit)) : d.is = {"notify"}

LEMMA AbigenAdds ==
    ASSUME NEW D, NEW E, NEW g, NEW c, NEW unit, BeforeUnit(D, E, g, c, unit), NEW reused,
           NEW h, h = AbiOfUnit(unit, NewUnit(g, reused))
    PROVE  AfterUnit(D, E, g, c, unit, h, WithAbi(h, ParsedByAbiGen(unit, c)))
<1>. PICK p : p = ParsedByAbiGen(unit, c)
  OBVIOUS
<1>. PICK q : q = WithAbi(h, p)
  OBVIOUS
<1>. /\ Collected(D, g) /\ Coded(E, c) /\ AbiOf(Ours(D), g, c.abi)
     /\ unit \in Seq(Elements(unit))
     /\ \A d \in D \cup Elements(unit) : Declares(d)
  BY DEF BeforeUnit
<1>1. PICK n : n = NewUnit(g, reused)
  OBVIOUS
<1>2. PICK F : F = D \cup Elements(unit)
  OBVIOUS
<1>3. Collected(D, n) /\ Later(g, n)
  BY <1>1, NewUnitCollects
<1>4. \A d \in Elements(unit) : Declares(d)
  OBVIOUS
<1>5. Collected(F, h) /\ Later(n, h) /\ Clauses \subseteq h.abi.sec["ricardian_clauses"]
  BY <1>1, <1>2, <1>3, <1>4, UnitCollects
<1>6. Later(g, h)
  BY <1>3, <1>5, LaterTrans
<1>7. /\ p.keys = c.keys /\ p.ids = c.ids /\ p.abi = c.abi /\ CodeGenOk(p)
      /\ p.parsed # c.parsed => Elements(unit) # {}
  BY ParsedCodes
<1>8. /\ q.keys = c.keys /\ q.ids = c.ids /\ CodeGenOk(q) /\ q.parsed = p.parsed
      /\ q.abi = IF IsEmpty(h) THEN c.abi ELSE {ToJson(h)}
  BY <1>7 DEF CodeGenOk, WithAbi
<1>9. Coded(E, q)
  BY <1>8 DEF Coded
<1>10. IsEmpty(h) => Clauses = {} /\ \A d \in Ours(F) : d.is = {"notify"}
  <2>1. \A d \in F : Declares(d)
    BY <1>2
  <2>. QED
    BY <1>5, <2>1, WhenEmpty
<1>11. AbiOf(Ours(F), h, q.abi)
  <2>1. CASE ~IsEmpty(h)
    <3>1. AbiFacts(Ours(F), h, ToJson(h))
      BY <1>2, <1>5, <2>1, JsonIsAbi
    <3>2. q.abi = {ToJson(h)}
      BY <1>8, <2>1
    <3>. QED
      BY <3>1, <3>2 DEF AbiOf
  <2>2. CASE IsEmpty(h)
    <3>1. Clauses = {} /\ \A d \in Ours(F) : d.is = {"notify"}
      BY <1>10, <2>2
    <3>2. Ours(D) \subseteq Ours(F)
      BY <1>2 DEF Ours
    <3>3. c.abi = {}
      BY <3>1, <3>2 DEF AbiOf, AbiFacts
    <3>4. NoMethods(Ours(F))
      BY <3>1 DEF NoMethods
    <3>. QED
      BY <1>8, <2>2, <3>3, <3>4 DEF AbiOf
  <2>. QED
    BY <2>1, <2>2
<1>. QED
  BY <1>2, <1>5, <1>6, <1>7, <1>8, <1>9, <1>10, <1>11 DEF AfterUnit

\* What the step of job j has made, and why it may fail.
LEMMA AbigenCpp ==
    ASSUME IInv, NEW j \in Jobs, CppFacts(j), DOMAIN ag = Jobs, DOMAIN cg = Jobs,
           NEW reused, Abigen(j, reused)
    PROVE  CppFacts(j)' /\ (pc'[j] = "failed" => CppExcuse(j))
<1>1. /\ pc[j] = "generate" /\ UNCHANGED <<cmd, at, files, tmp_files>>
      /\ Goto(j, "failed") \/ Goto(j, "codegen")
  BY DEF Abigen, Fail
<1>2. pc'[j] \in {"failed", "codegen"} /\ Shape
  BY <1>1 DEF Goto, IInv, Shape
<1>3. IsCpp(j)
  BY <1>1, <1>2, PlaceFacts DEF IsCpp
<1>4. PICK unit : unit = Unit[Input(j)]
  OBVIOUS
<1>5. PICK D : D = Decls(Ins(j), at[j] - 1)
  OBVIOUS
<1>6. PICK F : F = Decls(Ins(j), at[j])
  OBVIOUS
<1>7. /\ at[j] - 1 \in Nat /\ at[j] \in Nat /\ unit \in Seq(Elements(unit))
      /\ F = D \cup Elements(unit) /\ \A d \in F : Declares(d)
  BY <1>2, <1>3, <1>4, <1>5, <1>6, CurrentUnit
<1>8. /\ AbiDone(j) = at[j] - 1 /\ CodeDone(j) = at[j] - 1 /\ ObjDone(j) = at[j] - 1
  BY <1>1 DEF AbiDone, CodeDone, ObjDone
<1>9. /\ Collected(D, ag[j]) /\ AbiOf(Ours(D), ag[j], cg[j].abi)
      /\ cg[j].parsed # "" => D # {}
      /\ Coded(D, cg[j])
  BY <1>1, <1>3, <1>5, <1>8 DEF CppFacts, JobAbi, JobCode
<1>10. PICK h : h = AbiOfUnit(unit, NewUnit(ag[j], reused))
  OBVIOUS
<1>11. PICK p : p = ParsedByAbiGen(unit, cg[j])
  OBVIOUS
<1>12. PICK q : q = WithAbi(h, p)
  OBVIOUS
<1>13. /\ Collected(F, h) /\ Later(ag[j], h) /\ AbiOf(Ours(F), h, q.abi)
       /\ Coded(D, q) /\ q.keys = cg[j].keys /\ q.parsed = p.parsed
       /\ p.parsed # cg[j].parsed => Elements(unit) # {}
       /\ IsEmpty(h) => Clauses = {} /\ \A d \in Ours(F) : d.is = {"notify"}
  <2>1. PICK g : g = ag[j]
    OBVIOUS
  <2>2. PICK c : c = cg[j]
    OBVIOUS
  <2>3. BeforeUnit(D, D, g, c, unit)
    BY <1>7, <1>9, <2>1, <2>2 DEF BeforeUnit
  <2>4. h = AbiOfUnit(unit, NewUnit(g, reused)) /\ q = WithAbi(h, ParsedByAbiGen(unit, c))
    BY <1>10, <1>11, <1>12, <2>1, <2>2
  <2>5. AfterUnit(D, D, g, c, unit, h, q)
    BY <2>3, <2>4, AbigenAdds
  <2>. QED
    BY <1>7, <1>11, <2>1, <2>2, <2>5 DEF AfterUnit
<1>14. ag'[j] = h /\ cg'[j] = q
  BY <1>4, <1>10, <1>11, <1>12 DEF Abigen, WithAbi
<1>15. p.parsed # "" => F # {}
  BY <1>7, <1>9, <1>13
<1>16. /\ (Compiler(j)' <=> Compiler(j)) /\ (IsCpp(j)' <=> IsCpp(j)) /\ Ins(j)' = Ins(j)
       /\ Inputs(j)' = Inputs(j) /\ cmd'[j].link = cmd[j].link /\ at'[j] = at[j]
  BY <1>1 DEF Compiler, IsCpp, Ins, Inputs
<1>17. JobTmp(j)'
  <2>1. CodeDone(j)' >= CodeDone(j) /\ CodeDone(j) \in Nat /\ CodeDone(j)' \in Nat
    BY <1>2, <1>7, <1>8, <1>16 DEF CodeDone
  <2>2. JobTmp(j) /\ Inputs(j) \in Nat
    BY <1>2, InsFacts DEF CppFacts
  <2>. QED
    BY <1>1, <1>16, <2>1, <2>2 DEF JobTmp
<1>18. CASE pc'[j] = "failed"
  <2>1. IsEmpty(h) /\ cmd[j].abigen /\ p.parsed # ""
    <3>1. EmptyError(j, h, p)
      BY <1>2, <1>4, <1>10, <1>11, <1>18 DEF Abigen, Goto, Shape
    <3>. QED
      BY <3>1 DEF EmptyError
  <2>2. DeclsOf(j) # {}
    <3>1. at[j] <= Inputs(j) /\ Inputs(j) \in Nat
      BY <1>2, <1>3, InsFacts
    <3>2. F \subseteq Decls(Ins(j), Inputs(j))
      BY <1>6, <1>7, <3>1, DeclsMore
    <3>3. DeclsOf(j) = Decls(Ins(j), Inputs(j))
      BY <1>2, <1>3, DeclsFacts
    <3>. QED
      BY <1>15, <2>1, <3>2, <3>3
  <2>3. ~HasAbi(j, at[j])
    <3>1. Clauses = {} /\ \A d \in Ours(F) : d.is = {"notify"}
      BY <1>13, <2>1
    <3>2. ASSUME NEW i \in 1 .. at[j], NEW d \in Elements(Unit[cmd[j].inputs[i]]), d.contract = Contract
          PROVE  d \in Ours(F)
      BY <1>6, <3>2 DEF Ours, Decls, Ins
    <3>. QED
      BY <3>1, <3>2 DEF HasAbi
  <2>4. CppExcuse(j)
    BY <2>1, <2>2, <2>3 DEF CppExcuse
  <2>. QED
    BY <1>17, <1>18, <2>4, FailedFacts
<1>19. CASE pc'[j] = "codegen"
  <2>1. AbiDone(j)' = at[j] /\ CodeDone(j)' = at[j] - 1 /\ ObjDone(j)' = at[j] - 1
    BY <1>16, <1>19 DEF AbiDone, CodeDone, ObjDone
  <2>2. JobAbi(j)'
    BY <1>6, <1>13, <1>14, <1>15, <1>16, <2>1 DEF JobAbi
  <2>3. JobCode(j)'
    BY <1>5, <1>13, <1>14, <1>16, <2>1 DEF JobCode
  <2>4. JobObjects(j)'
    <3>1. ASSUME cmd[j].link, NEW i \in 1 .. at[j] - 1
          PROVE  Exists(TmpObj(j, i)) /\ ObjOf(Ours(Decls(Ins(j), i)), h, files[TmpObj(j, i)])
      <4>1. Exists(TmpObj(j, i)) /\ ObjOf(Ours(Decls(Ins(j), i)), ag[j], files[TmpObj(j, i)])
        BY <1>1, <1>3, <1>8, <3>1 DEF CppFacts, JobObjects
      <4>. QED
        BY <1>13, <4>1, ObjLater
    <3>. QED
      BY <1>1, <1>14, <1>16, <2>1, <3>1 DEF JobObjects, Exists
  <2>5. JobServed(j)'
    <3>1. cmd[j].link => Served(D, ObjDisp(j, at[j] - 1) \cup StubDisp(j), cg[j])
      BY <1>1, <1>3, <1>5, <1>8 DEF CppFacts, JobServed
    <3>2. StubDisp(j) = {} /\ StubDisp(j)' = {}
      BY <1>1, <1>19 DEF StubDisp
    <3>3. ObjDisp(j, ObjDone(j))' = ObjDisp(j, at[j] - 1)
      BY <1>1, <2>1 DEF ObjDisp
    <3>4. cmd[j].link => Served(D, ObjDisp(j, at[j] - 1), q)
      BY <1>13, <3>1, <3>2 DEF Served
    <3>. QED
      BY <1>5, <1>14, <1>16, <2>1, <3>2, <3>3, <3>4 DEF JobServed
  <2>6. AtEnd(j)' /\ JobStub(j)' /\ JobImage(j)'
    BY <1>19 DEF AtEnd, JobStub, JobImage
  <2>. QED
    BY <1>17, <1>19, <2>2, <2>3, <2>4, <2>5, <2>6 DEF CppFacts
<1>. QED
  BY <1>2, <1>18, <1>19

-----------------------------------------------------------------------------
(* The code generator.                                                     *)

\* Emplacing the stub of the current input.
LEMMA EmplaceTmp ==
    ASSUME NEW m, NEW x, NEW f
    PROVE  /\ DOMAIN Emplace(m, x, f) = DOMAIN m \cup {x}
           /\ \A y \in DOMAIN m : Emplace(m, x, f)[y] = m[y]
           /\ x \notin DOMAIN m => Emplace(m, x, f)[x] = f
<1>1. CASE x \in DOMAIN m
  <2>1. Emplace(m, x, f) = m
    BY <1>1 DEF Emplace
  <2>. QED
    BY <1>1, <2>1
<1>2. CASE x \notin DOMAIN m
  <2>1. Emplace(m, x, f) = [g \in DOMAIN m \cup {x} |-> IF g = x THEN f ELSE m[g]]
    BY <1>2 DEF Emplace, WithFile
  <2>. QED
    BY <1>2, <2>1
<1>. QED
  BY <1>1, <1>2

\* What the second run of the tool leaves, for a job of cdt-cpp.
CodegenLeaves(j, r, stub) ==
    /\ cg'[j] = r.cg
    /\ stub => /\ TmpCpp(j, at[j]) \in DOMAIN files'
               /\ files'[TmpCpp(j, at[j])].disp = r.disp /\ files'[TmpCpp(j, at[j])].abi = r.cg.abi
               /\ tmp_files'[j] = Emplace(tmp_files[j], Input(j), TmpCpp(j, at[j]))
    /\ ~stub => TmpCpp(j, at[j]) \notin DOMAIN files' /\ tmp_files'[j] = tmp_files[j]
    /\ \A i \in 1 .. at[j] - 1 : Kept(TmpObj(j, i))
    /\ Kept(Output(j))

LEMMA CodegenMakes ==
    ASSUME IInv, NEW j \in Jobs, DOMAIN cg = Jobs, NEW bad \in BOOLEAN, Codegen(j, bad),
           NEW r, r = CodeOfUnit(Unit[Input(j)], cg[j]), NEW stub \in BOOLEAN,
           stub <=> \E k \in DOMAIN r.cg.keys : r.cg.keys[k] # {}
    PROVE  CodegenLeaves(j, r, stub)
<1>1. pc[j] = "codegen" /\ Shape /\ cmd[j].tool = "cpp" /\ at[j] \in Nat
  BY PlaceFacts, InsFacts DEF Codegen, IInv, IsCpp
<1>. DEFINE tmp == TmpCpp(j, at[j])
<1>2. PICK x : x = Object(Source(j, Input(j)), r.disp, r.cg.abi)
  OBVIOUS
<1>3. PICK fs : fs = IF stub THEN WithFile(files, tmp, x) ELSE files
  OBVIOUS
<1>4. /\ cg' = [cg EXCEPT ![j] = r.cg]
      /\ tmp_files' = IF stub THEN [tmp_files EXCEPT ![j] = Emplace(@, Input(j), tmp)] ELSE tmp_files
      /\ files' = fs \/ (cmd[j].link /\ files' = WithFile(fs, OutputOf(j), EmptyFile))
  BY <1>2, <1>3 DEF Codegen
<1>5. x.disp = r.disp /\ x.abi = r.cg.abi
  BY <1>2 DEF Object
<1>6. cg'[j] = r.cg
  BY <1>4
<1>7. /\ stub => tmp_files'[j] = Emplace(tmp_files[j], Input(j), tmp)
      /\ ~stub => tmp_files'[j] = tmp_files[j]
  BY <1>1, <1>4 DEF Shape
<1>8. tmp \notin DOMAIN files
  BY <1>1, StubIsOwned DEF StubOf
<1>9. cmd[j].link => OutputOf(j) = TmpObj(j, at[j])
  BY <1>1 DEF OutputOf, OutputAt
<1>10. cmd[j].link => tmp # OutputOf(j)
  BY <1>9, NamesApart
<1>11. (tmp \in DOMAIN files' <=> tmp \in DOMAIN fs) /\ (tmp \in DOMAIN fs => files'[tmp] = fs[tmp])
  BY <1>4, <1>10 DEF WithFile
<1>12. /\ stub => tmp \in DOMAIN files' /\ files'[tmp] = x
       /\ ~stub => tmp \notin DOMAIN files'
  BY <1>3, <1>8, <1>11 DEF WithFile
<1>13. ASSUME NEW f, f # tmp, cmd[j].link => f # OutputOf(j)
       PROVE  Kept(f)
  <2>1. (f \in DOMAIN fs <=> f \in DOMAIN files) /\ (f \in DOMAIN files => fs[f] = files[f])
    BY <1>3, <1>13 DEF WithFile
  <2>. QED
    BY <1>4, <1>13, <2>1 DEF Kept, WithFile
<1>14. Kept(Output(j))
  <2>1. Output(j) # tmp /\ (cmd[j].link => Output(j) # OutputOf(j))
    BY <1>9, NamesApart
  <2>. QED
    BY <1>13, <2>1
<1>15. \A i \in 1 .. at[j] - 1 : Kept(TmpObj(j, i))
  <2>. TAKE i \in 1 .. at[j] - 1
  <2>1. i # at[j]
    BY <1>1
  <2>2. TmpObj(j, i) # tmp /\ (cmd[j].link => TmpObj(j, i) # OutputOf(j))
    BY <1>9, <2>1, NamesApart
  <2>. QED
    BY <1>13, <2>2
<1>. HIDE DEF tmp
<1>16. /\ stub => /\ tmp \in DOMAIN files'
                  /\ files'[tmp].disp = r.disp /\ files'[tmp].abi = r.cg.abi
                  /\ tmp_files'[j] = Emplace(tmp_files[j], Input(j), tmp)
       /\ ~stub => tmp \notin DOMAIN files' /\ tmp_files'[j] = tmp_files[j]
  BY <1>5, <1>7, <1>12
<1>. QED
  BY <1>6, <1>14, <1>15, <1>16 DEF CodegenLeaves, tmp

\* A generator without keys serves all it has.
LEMMA NoKeysServed ==
    ASSUME NEW D, NEW P, NEW c, \A k \in Kinds : c.keys[k] = {}
    PROVE  Served(D, P, c)
  BY DEF Served

LEMMA NoKeysNoMethods ==
    ASSUME NEW D, NEW c, Coded(D, c), \A k \in Kinds : c.keys[k] = {}
    PROVE  NoMethods(Ours(D))
<1>. SUFFICES ASSUME NEW d \in Ours(D), NEW k \in d.is \cap {"action", "call"}
              PROVE  FALSE
  BY DEF NoMethods
<1>1. d \in D /\ k \in Kinds /\ Wanted(d, k)
  BY DEF Ours, Kinds, Wanted
<1>. QED
  BY <1>1 DEF Coded

LEMMA CodegenCpp ==
    ASSUME IInv, NEW j \in Jobs, CppFacts(j), DOMAIN ag = Jobs, DOMAIN cg = Jobs,
           NEW bad \in BOOLEAN, Codegen(j, bad)
    PROVE  CppFacts(j)' /\ (pc'[j] = "failed" /\ j \notin broke' => CppExcuse(j))
<1>1. /\ pc[j] = "codegen" /\ UNCHANGED <<cmd, at, ag>>
      /\ Goto(j, "failed") \/ Goto(j, "compile")
  BY DEF Codegen, Fail
<1>2. pc'[j] \in {"failed", "compile"} /\ Shape
  BY <1>1 DEF Goto, IInv, Shape
<1>3. IsCpp(j)
  BY <1>1, <1>2, PlaceFacts DEF IsCpp
<1>4. PICK unit : unit = Unit[Input(j)]
  OBVIOUS
<1>5. PICK D : D = Decls(Ins(j), at[j] - 1)
  OBVIOUS
<1>6. PICK F : F = Decls(Ins(j), at[j])
  OBVIOUS
<1>7. /\ at[j] - 1 \in Nat /\ at[j] \in Nat /\ unit \in Seq(Elements(unit))
      /\ F = D \cup Elements(unit) /\ \A d \in F : Declares(d)
  BY <1>2, <1>3, <1>4, <1>5, <1>6, CurrentUnit
<1>8. /\ AbiDone(j) = at[j] /\ CodeDone(j) = at[j] - 1 /\ ObjDone(j) = at[j] - 1
  BY <1>1 DEF AbiDone, CodeDone, ObjDone
<1>9. PICK c : c = cg[j]
  OBVIOUS
<1>10. /\ Collected(F, ag[j]) /\ AbiOf(Ours(F), ag[j], c.abi)
       /\ c.parsed # "" => F # {}
       /\ Coded(D, c)
  BY <1>1, <1>3, <1>5, <1>6, <1>8, <1>9 DEF CppFacts, JobAbi, JobCode
<1>11. PICK P : P = ObjDisp(j, at[j] - 1)
  OBVIOUS
<1>12. PICK r : r = CodeOfUnit(unit, c)
  OBVIOUS
<1>13. UnitCoded(D, Elements(unit), P, c, r)
  BY <1>7, <1>10, <1>12, UnitCodes
<1>14. /\ RunOk(r) /\ r.cg.abi = c.abi /\ Coded(F, r.cg)
       /\ FromDecls(Ours(F), r.disp)
       /\ r.error => SameCallId(F)
       /\ r.cg.parsed # "" => F # {}
       /\ Served(D, P, c) => Served(F, P \cup r.disp, r.cg)
  <2>1. Ours(Elements(unit)) \subseteq Ours(F)
    BY <1>7 DEF Ours
  <2>2. FromDecls(Ours(F), r.disp)
    BY <1>13, <2>1 DEF UnitCoded, FromDecls
  <2>3. r.cg.parsed # "" => F # {}
    BY <1>7, <1>10, <1>13 DEF UnitCoded
  <2>. QED
    BY <1>7, <1>13, <2>2, <2>3 DEF UnitCoded
<1>15. PICK stub \in BOOLEAN : stub <=> \E k \in DOMAIN r.cg.keys : r.cg.keys[k] # {}
  OBVIOUS
<1>16. stub <=> \E k \in Kinds : r.cg.keys[k] # {}
  BY <1>14, <1>15 DEF RunOk, CodeGenOk
<1>17. CodegenLeaves(j, r, stub)
  BY <1>4, <1>9, <1>12, <1>15, CodegenMakes
<1>24. /\ DOMAIN tmp_files'[j] = IF stub THEN DOMAIN tmp_files[j] \cup {Input(j)} ELSE DOMAIN tmp_files[j]
       /\ \A x \in DOMAIN tmp_files[j] : tmp_files'[j][x] = tmp_files[j][x]
       /\ stub /\ Input(j) \notin DOMAIN tmp_files[j] => tmp_files'[j][Input(j)] = TmpCpp(j, at[j])
  <2>1. PICK m : m = tmp_files[j]
    OBVIOUS
  <2>2. PICK x : x = Input(j)
    OBVIOUS
  <2>3. PICK f : f = TmpCpp(j, at[j])
    OBVIOUS
  <2>4. tmp_files'[j] = IF stub THEN Emplace(m, x, f) ELSE m
    BY <1>17, <2>1, <2>2, <2>3 DEF CodegenLeaves
  <2>5. PICK e : e = Emplace(m, x, f)
    OBVIOUS
  <2>6. /\ DOMAIN e = DOMAIN m \cup {x} /\ \A y \in DOMAIN m : e[y] = m[y]
        /\ x \notin DOMAIN m => e[x] = f
    <3>1. /\ DOMAIN Emplace(m, x, f) = DOMAIN m \cup {x}
          /\ \A y \in DOMAIN m : Emplace(m, x, f)[y] = m[y]
          /\ x \notin DOMAIN m => Emplace(m, x, f)[x] = f
      BY EmplaceTmp
    <3>. QED
      BY <2>5, <3>1
  <2>7. tmp_files'[j] = IF stub THEN e ELSE m
    BY <2>4, <2>5
  <2>8. CASE stub
    BY <2>1, <2>2, <2>3, <2>6, <2>7, <2>8
  <2>9. CASE ~stub
    BY <2>1, <2>7, <2>9
  <2>. QED
    BY <2>8, <2>9
<1>18. /\ (IsCpp(j)' <=> IsCpp(j)) /\ Ins(j)' = Ins(j) /\ Input(j)' = Input(j)
       /\ Inputs(j)' = Inputs(j) /\ cmd'[j].link = cmd[j].link /\ at'[j] = at[j] /\ ag'[j] = ag[j]
  BY <1>1 DEF IsCpp, Ins, Inputs, Input
<1>19. AbiDone(j)' = at[j] /\ CodeDone(j)' = at[j] /\ (pc'[j] = "compile" => ObjDone(j)' = at[j] - 1)
  BY <1>2, <1>18 DEF AbiDone, CodeDone, ObjDone
<1>20. at[j] \in 1 .. Inputs(j) /\ Inputs(j) \in Nat /\ Input(j) = Ins(j)[at[j]]
  BY <1>2, <1>3, InsFacts DEF Input, Ins
<1>21. JobTmp(j)'
  <2>1. ASSUME NEW x \in DOMAIN tmp_files'[j]
        PROVE  \E h \in 1 .. Inputs(j) : tmp_files'[j][x] = TmpCpp(j, h) /\ h <= at[j] /\ Ins(j)[h] = x
    <3>1. CASE x \in DOMAIN tmp_files[j]
      <4>1. tmp_files'[j][x] = tmp_files[j][x]
        BY <1>24, <3>1
      <4>2. PICK h \in 1 .. Inputs(j) : tmp_files[j][x] = TmpCpp(j, h) /\ h <= at[j] - 1 /\ Ins(j)[h] = x
        BY <1>8, <3>1 DEF CppFacts, JobTmp
      <4>. QED
        BY <1>20, <4>1, <4>2
    <3>2. CASE x \notin DOMAIN tmp_files[j]
      <4>1. stub /\ x = Input(j) /\ tmp_files'[j][x] = TmpCpp(j, at[j])
        BY <1>24, <2>1, <3>2
      <4>. QED
        BY <1>20, <4>1
    <3>. QED
      BY <3>1, <3>2
  <2>. QED
    BY <1>18, <1>19, <2>1 DEF JobTmp
<1>22. CASE pc'[j] = "failed"
  <2>1. j \notin broke' => r.error
    BY <1>2, <1>4, <1>9, <1>12, <1>22 DEF Codegen, Goto, Shape
  <2>2. r.error => CppExcuse(j)
    <3>1. F \subseteq DeclsOf(j)
      <4>1. DeclsOf(j) = Decls(Ins(j), Inputs(j))
        BY <1>2, <1>3, DeclsFacts
      <4>2. Decls(Ins(j), at[j]) \subseteq Decls(Ins(j), Inputs(j))
        BY <1>7, <1>20, DeclsMore
      <4>. QED
        BY <1>6, <4>1, <4>2
    <3>. QED
      BY <1>14, <3>1 DEF CppExcuse, SameCallId
  <2>. QED
    BY <1>21, <1>22, <2>1, <2>2, FailedFacts
<1>23. CASE pc'[j] = "compile"
  <2>1. JobAbi(j)'
    BY <1>6, <1>10, <1>14, <1>17, <1>18, <1>19 DEF JobAbi, CodegenLeaves
  <2>2. JobCode(j)'
    BY <1>6, <1>14, <1>17, <1>18, <1>19 DEF JobCode, CodegenLeaves
  <2>3. JobStub(j)'
    <3>1. (\E k \in Kinds : cg'[j].keys[k] # {}) => Input(j) \in DOMAIN tmp_files'[j]
      BY <1>16, <1>17, <1>24 DEF CodegenLeaves
    <3>2. (Redirected(j) /\ StdinFile(j) = TmpCpp(j, at[j]))' => TmpCpp(j, at[j]) \in DOMAIN files'
      <4>1. CASE stub
        BY <1>17, <4>1 DEF CodegenLeaves
      <4>2. CASE ~stub
        <5>1. tmp_files'[j] = tmp_files[j]
          BY <1>17, <4>2 DEF CodegenLeaves
        <5>2. ASSUME Input(j) \in DOMAIN tmp_files[j]
              PROVE  tmp_files[j][Input(j)] # TmpCpp(j, at[j])
          <6>1. PICK h \in 1 .. Inputs(j) : tmp_files[j][Input(j)] = TmpCpp(j, h) /\ h <= at[j] - 1
            BY <1>8, <5>2 DEF CppFacts, JobTmp
          <6>2. h # at[j]
            BY <1>20, <6>1
          <6>. QED
            BY <6>1, <6>2, NamesApart
        <5>. QED
          BY <1>18, <5>1, <5>2 DEF Redirected, StdinFile
      <4>. QED
        BY <4>1, <4>2
    <3>3. TmpCpp(j, at[j]) \in DOMAIN files' => ObjOf(Ours(F), ag[j], files'[TmpCpp(j, at[j])])
      BY <1>10, <1>14, <1>17 DEF CodegenLeaves, ObjOf
    <3>. QED
      BY <1>6, <1>18, <3>1, <3>2, <3>3 DEF JobStub, Exists
  <2>4. ASSUME cmd[j].link, NEW i \in 1 .. at[j] - 1
        PROVE  /\ TmpObj(j, i) \in DOMAIN files' /\ files'[TmpObj(j, i)] = files[TmpObj(j, i)]
               /\ ObjOf(Ours(Decls(Ins(j), i)), ag[j], files[TmpObj(j, i)])
    <3>1. Exists(TmpObj(j, i)) /\ ObjOf(Ours(Decls(Ins(j), i)), ag[j], files[TmpObj(j, i)])
      BY <1>1, <1>3, <1>8, <2>4 DEF CppFacts, JobObjects
    <3>2. Kept(TmpObj(j, i))
      BY <1>17, <2>4 DEF CodegenLeaves
    <3>. QED
      BY <3>1, <3>2 DEF Kept, Exists
  <2>5. JobObjects(j)'
    BY <1>18, <1>19, <1>23, <2>4 DEF JobObjects, Exists
  <2>6. JobServed(j)'
    <3>. SUFFICES ASSUME cmd[j].link
                  PROVE  Served(F, (ObjDisp(j, ObjDone(j)) \cup StubDisp(j))', r.cg)
      BY <1>6, <1>17, <1>18, <1>19 DEF JobServed, CodegenLeaves
    <3>1. ObjDisp(j, ObjDone(j))' = P
      BY <1>11, <1>19, <1>23, <2>4 DEF ObjDisp
    <3>2. CASE stub
      <4>1. StubDisp(j)' = r.disp
        BY <1>17, <1>18, <1>23, <3>2 DEF StubDisp, CodegenLeaves, Exists
      <4>2. Served(D, P, c)
        <5>1. StubDisp(j) = {}
          BY <1>1 DEF StubDisp
        <5>2. Served(D, P \cup StubDisp(j), c)
          BY <1>1, <1>3, <1>5, <1>8, <1>9, <1>11 DEF CppFacts, JobServed
        <5>. QED
          BY <5>1, <5>2
      <4>. QED
        BY <1>14, <3>1, <4>1, <4>2
    <3>3. CASE ~stub
      BY <1>16, <3>3, NoKeysServed
    <3>. QED
      BY <3>2, <3>3
  <2>7. AtEnd(j)' /\ JobImage(j)'
    BY <1>23 DEF AtEnd, JobImage
  <2>. QED
    BY <1>21, <1>23, <2>1, <2>2, <2>3, <2>5, <2>6, <2>7 DEF CppFacts
<1>. QED
  BY <1>2, <1>22, <1>23

-----------------------------------------------------------------------------
(* clang, and the order in which objects are linked.                       *)

LEMMA CompiledCpp ==
    ASSUME IInv, NEW j \in Jobs, CppFacts(j), IsCpp(j), Compile(j)
    PROVE  /\ ObjOf(Ours(Decls(Ins(j), at[j])), ag[j], CompiledObject(j))
           /\ cmd[j].link => Served(Decls(Ins(j), at[j]),
                                    ObjDisp(j, at[j] - 1) \cup CompiledObject(j).disp, cg[j])
<1>1. pc[j] = "compile" /\ JobStub(j) /\ CodeDone(j) = at[j] /\ ObjDone(j) = at[j] - 1
  BY DEF Compile, CppFacts, CodeDone, ObjDone
<1>2. CASE Redirected(j)
  <2>1. StdinFile(j) = TmpCpp(j, at[j]) /\ Exists(StdinFile(j))
    BY <1>2, StdinIsCurrent DEF Compile
  <2>2. CompiledObject(j) = files[TmpCpp(j, at[j])] /\ Exists(TmpCpp(j, at[j]))
    BY <1>2, <2>1 DEF CompiledObject
  <2>3. ObjOf(Ours(Decls(Ins(j), at[j])), ag[j], CompiledObject(j))
    BY <1>1, <2>2 DEF JobStub
  <2>4. StubDisp(j) = CompiledObject(j).disp
    BY <1>1, <2>2 DEF StubDisp
  <2>5. cmd[j].link => Served(Decls(Ins(j), at[j]), ObjDisp(j, at[j] - 1) \cup StubDisp(j), cg[j])
    BY <1>1 DEF CppFacts, JobServed
  <2>. QED
    BY <2>3, <2>4, <2>5
<1>3. CASE ~Redirected(j)
  <2>1. CompiledObject(j) = Object(Source(j, Input(j)), {}, NoAbi)
    BY <1>3 DEF CompiledObject
  <2>2. CompiledObject(j).disp = {} /\ CompiledObject(j).abi = {}
    BY <2>1 DEF Object, NoAbi
  <2>3. \A k \in Kinds : cg[j].keys[k] = {}
    BY <1>1, <1>3 DEF JobStub, Redirected, IsCpp
  <2>4. Coded(Decls(Ins(j), at[j]), cg[j])
    BY <1>1 DEF CppFacts, JobCode
  <2>5. NoMethods(Ours(Decls(Ins(j), at[j])))
    BY <2>3, <2>4, NoKeysNoMethods
  <2>6. ObjOf(Ours(Decls(Ins(j), at[j])), ag[j], CompiledObject(j))
    BY <2>2, <2>5 DEF ObjOf, FromDecls, AbiOf
  <2>. QED
    BY <2>3, <2>6, NoKeysServed
<1>. QED
  BY <1>2, <1>3

\* The rest is about jobs of cdt-cpp, but for two things.
LEMMA NotCpp ==
    ASSUME NEW j \in Jobs, cmd' = cmd, ~IsCpp(j), AtEnd(j)', JobTmp(j)'
    PROVE  CppFacts(j)'
  BY DEF CppFacts, IsCpp, JobAbi, JobCode, JobStub, JobObjects, JobServed, JobImage

\* The names of stubs stay as long as the code generator does not run.
LEMMA TmpStays ==
    ASSUME IInv, NEW j \in Jobs, JobTmp(j), cmd' = cmd, tmp_files'[j] = tmp_files[j],
           CodeDone(j) \in Int, CodeDone(j)' \in Int, CodeDone(j)' >= CodeDone(j)
    PROVE  JobTmp(j)'
<1>1. Inputs(j)' = Inputs(j) /\ Ins(j)' = Ins(j) /\ Inputs(j) \in Nat
  BY InsFacts DEF Inputs, Ins, IInv
<1>. QED
  BY <1>1 DEF JobTmp

LEMMA CompileCpp ==
    ASSUME IInv, NEW j \in Jobs, CppFacts(j), Compile(j)
    PROVE  CppFacts(j)'
<1>1. /\ pc[j] = "compile" /\ Compiler(j) /\ cmd' = cmd /\ tmp_files' = tmp_files
      /\ Inputs(j) \in Nat /\ at[j] \in 1 .. Inputs(j)
      /\ \/ /\ at[j] < Inputs(j) /\ at'[j] = at[j] + 1
            /\ pc'[j] = IF cmd[j].tool = "cpp" THEN "generate" ELSE "compile"
         \/ /\ at[j] = Inputs(j) /\ at'[j] = at[j]
            /\ pc'[j] = IF cmd[j].link THEN "link" ELSE "ok"
      /\ files' = Without(WithFile(files, OutputAt(j, at[j]), CompiledObject(j)), Spent(j))
      /\ ag' = ag /\ cg' = cg
  BY CompileEffect DEF Compile
<1>2. /\ (IsCpp(j)' <=> IsCpp(j)) /\ Ins(j)' = Ins(j) /\ Inputs(j)' = Inputs(j)
      /\ cmd'[j].link = cmd[j].link
  BY <1>1 DEF IsCpp, Ins, Inputs
<1>3. AtEnd(j)'
  BY <1>1, <1>2 DEF AtEnd
<1>4. JobTmp(j)'
  <2>1. CodeDone(j) = at[j] /\ CodeDone(j)' \in {at[j], at[j] + 1}
    BY <1>1 DEF CodeDone
  <2>. QED
    BY <1>1, <2>1, TmpStays DEF CppFacts
<1>5. CASE ~IsCpp(j)
  BY <1>1, <1>3, <1>4, <1>5, NotCpp
<1>6. CASE IsCpp(j)
  <2>1. /\ AbiDone(j) = at[j] /\ CodeDone(j) = at[j] /\ ObjDone(j) = at[j] - 1
    BY <1>1 DEF AbiDone, CodeDone, ObjDone
  <2>2. /\ AbiDone(j)' = at[j] /\ CodeDone(j)' = at[j]
        /\ pc'[j] # "ok" => ObjDone(j)' = at[j]
    BY <1>1, <1>6 DEF AbiDone, CodeDone, ObjDone, IsCpp
  <2>3. JobAbi(j)' /\ JobCode(j)'
    BY <1>1, <1>2, <2>1, <2>2 DEF CppFacts, JobAbi, JobCode
  <2>4. JobStub(j)' /\ JobImage(j)'
    BY <1>1, <1>2, <1>6 DEF JobStub, JobImage, IsCpp
  <2>5. PICK o : o = CompiledObject(j)
    OBVIOUS
  <2>6. /\ ObjOf(Ours(Decls(Ins(j), at[j])), ag[j], o)
        /\ cmd[j].link => Served(Decls(Ins(j), at[j]), ObjDisp(j, at[j] - 1) \cup o.disp, cg[j])
    BY <1>6, <2>5, CompiledCpp
  <2>7. ASSUME cmd[j].link
        PROVE  /\ TmpObj(j, at[j]) \in DOMAIN files' /\ files'[TmpObj(j, at[j])] = o
               /\ \A i \in 1 .. at[j] - 1 : /\ TmpObj(j, i) \in DOMAIN files'
                                            /\ files'[TmpObj(j, i)] = files[TmpObj(j, i)]
    <3>1. OutputAt(j, at[j]) = TmpObj(j, at[j])
      BY <1>6, <2>7 DEF OutputAt, IsCpp
    <3>2. \A i : TmpObj(j, i) \notin Spent(j)
      BY StubsFramed, NamesApart
    <3>3. TmpObj(j, at[j]) \in DOMAIN files' /\ files'[TmpObj(j, at[j])] = o
      BY <1>1, <2>5, <3>1, <3>2 DEF Without, WithFile
    <3>4. ASSUME NEW i \in 1 .. at[j] - 1
          PROVE  TmpObj(j, i) \in DOMAIN files' /\ files'[TmpObj(j, i)] = files[TmpObj(j, i)]
      <4>1. Exists(TmpObj(j, i))
        BY <1>1, <1>6, <2>1, <2>7, <3>4 DEF CppFacts, JobObjects
      <4>2. TmpObj(j, i) # TmpObj(j, at[j])
        BY <1>1, <3>4, NamesApart
      <4>. QED
        BY <1>1, <3>1, <3>2, <4>1, <4>2 DEF Without, WithFile, Exists
    <3>. QED
      BY <3>3, <3>4
  <2>8. 1 .. at[j] = (1 .. at[j] - 1) \cup {at[j]}
    BY <1>1
  <2>9. JobObjects(j)'
    <3>1. ASSUME cmd[j].link, NEW i \in 1 .. at[j]
          PROVE  /\ TmpObj(j, i) \in DOMAIN files'
                 /\ ObjOf(Ours(Decls(Ins(j), i)), ag[j], files'[TmpObj(j, i)])
      <4>1. CASE i = at[j]
        BY <2>6, <2>7, <3>1, <4>1
      <4>2. CASE i \in 1 .. at[j] - 1
        <5>1. ObjOf(Ours(Decls(Ins(j), i)), ag[j], files[TmpObj(j, i)])
          BY <1>1, <1>6, <2>1, <3>1, <4>2 DEF CppFacts, JobObjects
        <5>. QED
          BY <2>7, <3>1, <4>2, <5>1
      <4>. QED
        BY <2>8, <4>1, <4>2
    <3>. QED
      BY <1>1, <1>2, <2>2, <3>1 DEF JobObjects, Exists
  <2>10. JobServed(j)'
    <3>. SUFFICES ASSUME cmd[j].link, pc'[j] # "ok"
                  PROVE  Served(Decls(Ins(j), at[j]), (ObjDisp(j, ObjDone(j)) \cup StubDisp(j))', cg[j])
      BY <1>1, <1>2, <2>2 DEF JobServed
    <3>1. StubDisp(j)' = {}
      BY <1>1, <1>6 DEF StubDisp, IsCpp
    <3>2. ObjDisp(j, ObjDone(j))' = UNION {files'[TmpObj(j, i)].disp : i \in 1 .. at[j]}
      BY <2>2 DEF ObjDisp
    <3>3. UNION {files'[TmpObj(j, i)].disp : i \in 1 .. at[j]} = ObjDisp(j, at[j] - 1) \cup o.disp
      <4>1. \A i \in 1 .. at[j] - 1 : files'[TmpObj(j, i)].disp = files[TmpObj(j, i)].disp
        BY <2>7
      <4>2. files'[TmpObj(j, at[j])].disp = o.disp
        BY <2>7
      <4>. QED
        BY <2>8, <4>1, <4>2 DEF ObjDisp
    <3>. QED
      BY <2>6, <3>1, <3>2, <3>3
  <2>. QED
    BY <1>3, <1>4, <2>3, <2>4, <2>9, <2>10 DEF CppFacts
<1>. QED
  BY <1>5, <1>6

\* clang fails by itself, or the input was there before.
LEMMA CompileErrorCpp ==
    ASSUME IInv, NEW j \in Jobs, CppFacts(j), CompileError(j)
    PROVE  CppFacts(j)' /\ (j \notin broke' => IsCpp(j) /\ CppExcuse(j))
<1>1. /\ pc[j] = "compile" /\ Goto(j, "failed") /\ UNCHANGED <<cmd, at, tmp_files>>
  BY DEF CompileError, Fail
<1>2. pc'[j] = "failed" /\ Shape
  BY <1>1 DEF Goto, IInv, Shape
<1>3. at[j] \in 1 .. Inputs(j) /\ Inputs(j) \in Nat /\ DOMAIN Ins(j) = 1 .. Inputs(j)
  BY <1>1, <1>2, PlaceFacts, InsFacts DEF Shape, JobShape
<1>4. JobTmp(j)'
  <2>1. CodeDone(j) = at[j] /\ CodeDone(j)' = at[j]
    BY <1>1, <1>2 DEF CodeDone
  <2>. QED
    BY <1>1, <1>3, <2>1, TmpStays DEF CppFacts
<1>5. ASSUME j \notin broke'
      PROVE  IsCpp(j) /\ CppExcuse(j)
  <2>1. Redirected(j) /\ ~Exists(StdinFile(j))
    BY <1>5 DEF CompileError, Breaks
  <2>2. IsCpp(j) /\ Input(j) \in DOMAIN tmp_files[j]
    BY <2>1 DEF Redirected, IsCpp
  <2>3. PICK h \in 1 .. Inputs(j) : tmp_files[j][Input(j)] = TmpCpp(j, h) /\ Ins(j)[h] = Input(j)
    BY <2>2 DEF CppFacts, JobTmp
  <2>4. h # at[j]
    BY <1>1, <2>1, <2>2, <2>3 DEF CppFacts, JobStub, StdinFile
  <2>5. cmd[j].inputs[h] = cmd[j].inputs[at[j]] /\ {h, at[j]} \subseteq DOMAIN cmd[j].inputs
    BY <1>3, <2>3 DEF Input, Ins
  <2>6. CppExcuse(j)
    BY <2>4, <2>5 DEF CppExcuse
  <2>. QED
    BY <2>2, <2>6
<1>. QED
  BY <1>2, <1>4, <1>5, FailedFacts

\* The objects of cdt-cpp and cdt-cc, as the linker is given them.
LEMMA LinkOrder ==
    ASSUME IInv, NEW j \in Jobs, Compiler(j), pc[j] = "link"
    PROVE  /\ Inputs(j) \in Nat /\ Inputs(j) # 0
           /\ LinkInputs(j) = [i \in 1 .. Inputs(j) |-> OutputAt(j, (Inputs(j) - i) + 1)]
           /\ DOMAIN ObjectsOf(j) = 1 .. Inputs(j) /\ Len(ObjectsOf(j)) = Inputs(j)
           /\ \A i \in 1 .. Inputs(j) : ObjectsOf(j)[i] = files[OutputAt(j, (Inputs(j) - i) + 1)]
<1>1. cmd[j].tool # "ld" /\ Shape
  BY DEF IInv, Compiler
<1>. DEFINE n == Inputs(j)
<1>2. n \in Nat /\ n # 0
  BY <1>1, CmdFacts DEF Shape
<1>3. Made(j) = n
  BY DEF Made
<1>4. outs[j] = [i \in 1 .. n |-> OutputAt(j, i)]
  BY <1>1, <1>3 DEF Shape, JobShape
<1>. HIDE DEF n
<1>5. Len(outs[j]) = n
  BY <1>2, <1>4
<1>6. LinkInputs(j) = [i \in 1 .. n |-> OutputAt(j, (n - i) + 1)]
  <2>1. LinkInputs(j) = [i \in 1 .. n |-> outs[j][(n - i) + 1]]
    BY <1>1, <1>5 DEF LinkInputs, Reverse
  <2>2. \A i \in 1 .. n : outs[j][(n - i) + 1] = OutputAt(j, (n - i) + 1)
    BY <1>2, <1>4
  <2>. QED
    BY <2>1, <2>2
<1>7. ObjectsOf(j) = [i \in 1 .. n |-> files[OutputAt(j, (n - i) + 1)]]
  BY <1>6 DEF ObjectsOf
<1>8. Len(ObjectsOf(j)) = n
  BY <1>2, <1>7
<1>. QED
  BY <1>2, <1>6, <1>7, <1>8 DEF n

\* ... those of cdt-cpp.
LEMMA CppObjects ==
    ASSUME IInv, NEW j \in Jobs, CppFacts(j), IsCpp(j), pc[j] = "link"
    PROVE  /\ cmd[j].link /\ at[j] = Inputs(j) /\ Inputs(j) \in Nat /\ Inputs(j) # 0
           /\ Len(ObjectsOf(j)) = Inputs(j) /\ DOMAIN ObjectsOf(j) = 1 .. Inputs(j)
           /\ \A i \in DOMAIN LinkInputs(j) : Exists(LinkInputs(j)[i])
           /\ \A i \in 1 .. Inputs(j) :
                /\ ObjectsOf(j)[i] = files[TmpObj(j, (Inputs(j) - i) + 1)]
                /\ ObjOf(Ours(Decls(Ins(j), (Inputs(j) - i) + 1)), ag[j], ObjectsOf(j)[i])
                /\ Good(ObjectsOf(j)[i])
                /\ FromDecls(Ours(Decls(Ins(j), Inputs(j))), ObjectsOf(j)[i].disp)
<1>1. Compiler(j) /\ cmd[j].link
  BY PlaceFacts DEF IInv, IsCpp, Compiler
<1>2. PICK n : n = Inputs(j)
  OBVIOUS
<1>3. /\ n \in Nat /\ n # 0
      /\ LinkInputs(j) = [i \in 1 .. n |-> OutputAt(j, (n - i) + 1)]
      /\ DOMAIN ObjectsOf(j) = 1 .. n /\ Len(ObjectsOf(j)) = n
      /\ \A i \in 1 .. n : ObjectsOf(j)[i] = files[OutputAt(j, (n - i) + 1)]
  BY <1>1, <1>2, LinkOrder
<1>4. at[j] = n /\ ObjDone(j) = n
  BY <1>1, <1>2 DEF CppFacts, AtEnd, ObjDone
<1>5. ASSUME NEW i \in 1 .. n
      PROVE  /\ LinkInputs(j)[i] = TmpObj(j, (n - i) + 1)
             /\ ObjectsOf(j)[i] = files[TmpObj(j, (n - i) + 1)]
             /\ Exists(TmpObj(j, (n - i) + 1))
             /\ ObjOf(Ours(Decls(Ins(j), (n - i) + 1)), ag[j], ObjectsOf(j)[i])
             /\ Good(ObjectsOf(j)[i])
             /\ FromDecls(Ours(Decls(Ins(j), n)), ObjectsOf(j)[i].disp)
  <2>1. PICK m : m = (n - i) + 1
    OBVIOUS
  <2>2. m \in 1 .. n /\ m \in Nat /\ m <= n
    BY <1>3, <2>1
  <2>3. OutputAt(j, m) = TmpObj(j, m)
    BY <1>1 DEF OutputAt, IsCpp
  <2>4. Exists(TmpObj(j, m)) /\ ObjOf(Ours(Decls(Ins(j), m)), ag[j], files[TmpObj(j, m)])
    BY <1>1, <1>4, <2>2 DEF CppFacts, JobObjects
  <2>5. ObjectsOf(j)[i] = files[TmpObj(j, m)] /\ LinkInputs(j)[i] = TmpObj(j, m)
    BY <1>3, <2>1, <2>3
  <2>6. PICK o : o = ObjectsOf(j)[i]
    OBVIOUS
  <2>7. ObjOf(Ours(Decls(Ins(j), m)), ag[j], o)
    BY <2>4, <2>5, <2>6
  <2>8. Good(o)
    BY <2>7, ObjGood
  <2>9. FromDecls(Ours(Decls(Ins(j), n)), o.disp)
    <3>1. Ours(Decls(Ins(j), m)) \subseteq Ours(Decls(Ins(j), n))
      BY <1>3, <2>2, DeclsMore
    <3>. QED
      BY <2>7, <3>1 DEF ObjOf, FromDecls
  <2>. QED
    BY <2>1, <2>4, <2>5, <2>6, <2>7, <2>8, <2>9
<1>. QED
  BY <1>1, <1>2, <1>3, <1>4, <1>5

-----------------------------------------------------------------------------
(* The linker, and CppInv.                                                 *)

LEMMA LinkCpp ==
    ASSUME IInv, NEW j \in Jobs, CppFacts(j), IsCpp(j), Link(j)
    PROVE  CppFacts(j)'
<1>1. /\ pc[j] = "link" /\ Linkable(j) /\ UNCHANGED <<cmd, at, cg, tmp_files, ag>>
      /\ files' = WithFile(files, Output(j), Image(ObjectsOf(j)))
  BY DEF Link
<1>2. pc'[j] = "clean"
  BY LinkSteps DEF IsCpp, Compiler
<1>3. PICK n : n = Inputs(j)
  OBVIOUS
<1>4. PICK objs : objs = ObjectsOf(j)
  OBVIOUS
<1>5. /\ at[j] = n /\ n \in Nat /\ n # 0 /\ Len(objs) = n /\ DOMAIN objs = 1 .. n /\ cmd[j].link
      /\ \A i \in 1 .. n : /\ objs[i] = files[TmpObj(j, (n - i) + 1)]
                           /\ ObjOf(Ours(Decls(Ins(j), (n - i) + 1)), ag[j], objs[i])
                           /\ Good(objs[i])
                           /\ FromDecls(Ours(Decls(Ins(j), n)), objs[i].disp)
  BY <1>1, <1>3, <1>4, CppObjects
<1>6. LinkedAbi(objs).ok
  BY <1>1, <1>4 DEF Linkable
<1>7. PICK O : O = Ours(Decls(Ins(j), n))
  OBVIOUS
<1>8. PICK g : g = ag[j]
  OBVIOUS
<1>9. AbiOf(O, g, objs[1].abi)
  <2>1. 1 \in 1 .. n /\ (n - 1) + 1 = n
    BY <1>5
  <2>. QED
    BY <1>5, <1>7, <1>8, <2>1 DEF ObjOf
<1>10. ImageFor(O, Image(objs))
  BY <1>5, <1>6, <1>7, <1>9, ImageIsFor
<1>11. Image(objs).disp = ObjDisp(j, n)
  <2>1. Image(objs).disp = UNION {objs[i].disp : i \in 1 .. n}
    BY <1>5, ImageParts
  <2>2. \A i \in 1 .. n : objs[i].disp \subseteq ObjDisp(j, n)
    <3>. TAKE i \in 1 .. n
    <3>1. (n - i) + 1 \in 1 .. n
      BY <1>5
    <3>. QED
      BY <1>5, <3>1 DEF ObjDisp
  <2>3. \A i \in 1 .. n : files[TmpObj(j, i)].disp \subseteq Image(objs).disp
    <3>. TAKE i \in 1 .. n
    <3>1. PICK h \in 1 .. n : (n - h) + 1 = i
      <4>1. (n - i) + 1 \in 1 .. n /\ (n - ((n - i) + 1)) + 1 = i
        BY <1>5
      <4>. QED
        BY <4>1
    <3>2. objs[h] = files[TmpObj(j, i)]
      BY <1>5, <3>1
    <3>. QED
      BY <2>1, <3>1, <3>2
  <2>. QED
    BY <2>1, <2>2, <2>3 DEF ObjDisp
<1>12. Served(Decls(Ins(j), n), ObjDisp(j, n), cg[j])
  <2>1. CodeDone(j) = n /\ ObjDone(j) = n /\ StubDisp(j) = {}
    BY <1>1, <1>5 DEF CodeDone, ObjDone, StubDisp
  <2>2. Served(Decls(Ins(j), CodeDone(j)), ObjDisp(j, ObjDone(j)) \cup StubDisp(j), cg[j])
    BY <1>1, <1>5 DEF CppFacts, JobServed
  <2>. QED
    BY <2>1, <2>2
<1>13. /\ (IsCpp(j)' <=> IsCpp(j)) /\ Ins(j)' = Ins(j) /\ Inputs(j)' = Inputs(j)
       /\ cmd'[j].link = cmd[j].link /\ at'[j] = at[j]
       /\ AbiDone(j)' = AbiDone(j) /\ CodeDone(j)' = CodeDone(j) /\ CodeDone(j) = at[j]
  BY <1>1, <1>2 DEF IsCpp, Ins, Inputs, AbiDone, CodeDone
<1>14. Output(j) \in DOMAIN files' /\ files'[Output(j)] = Image(objs)
  BY <1>1, <1>4 DEF WithFile
<1>15. JobImage(j)'
  BY <1>5, <1>7, <1>10, <1>11, <1>12, <1>13, <1>14, <1>1 DEF JobImage, ImageOf, Exists
<1>16. JobAbi(j)' /\ JobCode(j)'
  BY <1>1, <1>13 DEF CppFacts, JobAbi, JobCode
<1>17. JobTmp(j)'
  BY <1>1, <1>5, <1>13, TmpStays DEF CppFacts
<1>18. AtEnd(j)' /\ JobStub(j)' /\ JobObjects(j)' /\ JobServed(j)'
  BY <1>2, <1>3, <1>5, <1>13 DEF AtEnd, JobStub, JobObjects, JobServed
<1>. QED
  BY <1>15, <1>16, <1>17, <1>18 DEF CppFacts

\* Why the ABIs of the objects of cdt-cpp cannot be merged.
LEMMA UnlinkableCpp ==
    ASSUME IInv, NEW j \in Jobs, CppFacts(j), IsCpp(j), pc[j] = "link", ~Linkable(j)
    PROVE  CppExcuse(j)
<1>1. PICK n : n = Inputs(j)
  OBVIOUS
<1>2. PICK objs : objs = ObjectsOf(j)
  OBVIOUS
<1>3. /\ at[j] = n /\ n \in Nat /\ n # 0 /\ Len(objs) = n /\ DOMAIN objs = 1 .. n
      /\ \A i \in DOMAIN LinkInputs(j) : Exists(LinkInputs(j)[i])
      /\ \A i \in 1 .. n : /\ ObjOf(Ours(Decls(Ins(j), (n - i) + 1)), ag[j], objs[i])
                           /\ Good(objs[i])
  BY <1>1, <1>2, CppObjects
<1>4. ~LinkedAbi(objs).ok
  BY <1>2, <1>3 DEF Linkable
<1>5. Combined(objs, n, LinkedAbi(objs))
  <2>1. \A i \in 1 .. Len(objs) : Carries(objs[i])
    BY <1>3 DEF Good
  <2>2. Combined(objs, Len(objs), LinkedAbi(objs))
    BY <1>3, <2>1, AllCombined
  <2>. QED
    BY <1>3, <2>2
<1>6. PICK h, i \in 1 .. n : \E a \in objs[h].abi, b \in objs[i].abi : Disagree(a, b)
  BY <1>4, <1>5 DEF Combined
<1>7. PICK a \in objs[h].abi, b \in objs[i].abi : Disagree(a, b)
  BY <1>6
<1>8. PICK p : p = (n - h) + 1
  OBVIOUS
<1>9. PICK q : q = (n - i) + 1
  OBVIOUS
<1>10. p \in 1 .. n /\ q \in 1 .. n
  BY <1>3, <1>8, <1>9
<1>11. PICK P : P = Ours(Decls(Ins(j), p))
  OBVIOUS
<1>12. PICK O : O = Ours(Decls(Ins(j), q))
  OBVIOUS
<1>13. PICK g : g = ag[j]
  OBVIOUS
<1>14. AbiFacts(P, g, a) /\ AbiFacts(O, g, b)
  <2>1. AbiOf(P, g, objs[h].abi) /\ AbiOf(O, g, objs[i].abi)
    BY <1>3, <1>8, <1>9, <1>11, <1>12, <1>13 DEF ObjOf
  <2>. QED
    BY <1>7, <2>1 DEF AbiOf
<1>15. PICK D : D = Decls(Ins(j), n)
  OBVIOUS
<1>16. Collected(D, g)
  <2>1. AbiDone(j) = n
    BY <1>3 DEF AbiDone
  <2>. QED
    BY <1>13, <1>15, <2>1 DEF CppFacts, JobAbi
<1>17. CallsComeLater(O, P) \/ TableIsIndex(D)
  BY <1>7, <1>14, <1>16, WhyDisagree
<1>18. D = DeclsOf(j) /\ DOMAIN cmd[j].inputs = 1 .. n /\ Len(cmd[j].inputs) = n
  BY <1>1, <1>15, DeclsFacts, InsFacts DEF IInv, Ins, Inputs
<1>19. ASSUME NEW m \in 1 .. n
       PROVE  /\ HasAbi(j, m) <=> Clauses # {} \/ \E d \in Ours(Decls(Ins(j), m)) : d.is # {"notify"}
              /\ HasCalls(j, m) <=> \E d \in Ours(Decls(Ins(j), m)) : "call" \in d.is
  BY DEF HasAbi, HasCalls, Ours, Decls, Ins
<1>20. CASE TableIsIndex(D)
  BY <1>18, <1>20 DEF TableIsIndex, CppExcuse
<1>21. CASE CallsComeLater(O, P)
  <2>1. HasAbi(j, q) /\ ~HasCalls(j, q)
    BY <1>10, <1>12, <1>19, <1>21 DEF CallsComeLater
  <2>2. HasCalls(j, n)
    <3>1. P \subseteq Ours(Decls(Ins(j), n))
      BY <1>3, <1>10, <1>11, DeclsMore
    <3>2. n \in 1 .. n
      BY <1>3
    <3>. QED
      BY <1>19, <1>21, <3>1, <3>2 DEF CallsComeLater
  <2>. QED
    BY <1>10, <1>18, <2>1, <2>2 DEF CppExcuse
<1>. QED
  BY <1>17, <1>20, <1>21

LEMMA LinkErrorCpp ==
    ASSUME IInv, NEW j \in Jobs, CppFacts(j), IsCpp(j), LinkError(j)
    PROVE  CppFacts(j)' /\ (j \notin broke' => CppExcuse(j))
<1>1. /\ pc[j] = "link" /\ UNCHANGED <<cmd, at, cg, tmp_files, ag>>
      /\ Goto(j, "undo")
      /\ j \notin broke' => ~Linkable(j)
  BY DEF LinkError, IsCpp, Breaks
<1>2. pc'[j] = "undo"
  BY <1>1 DEF Goto, IInv, Shape
<1>3. /\ (IsCpp(j)' <=> IsCpp(j)) /\ Ins(j)' = Ins(j) /\ Inputs(j)' = Inputs(j) /\ at'[j] = at[j]
      /\ AbiDone(j)' = AbiDone(j) /\ CodeDone(j)' = CodeDone(j) /\ CodeDone(j) = at[j]
  BY <1>1, <1>2 DEF IsCpp, Ins, Inputs, AbiDone, CodeDone
<1>4. at[j] = Inputs(j) /\ Inputs(j) \in Nat
  BY <1>1, CppObjects
<1>5. JobAbi(j)' /\ JobCode(j)'
  BY <1>1, <1>3 DEF CppFacts, JobAbi, JobCode
<1>6. JobTmp(j)'
  BY <1>1, <1>3, <1>4, TmpStays DEF CppFacts
<1>7. AtEnd(j)' /\ JobStub(j)' /\ JobObjects(j)' /\ JobServed(j)' /\ JobImage(j)'
  BY <1>2, <1>3, <1>4 DEF AtEnd, JobStub, JobObjects, JobServed, JobImage
<1>. QED
  BY <1>1, <1>5, <1>6, <1>7, UnlinkableCpp DEF CppFacts

LEMMA CleanCpp ==
    ASSUME IInv, NEW j \in Jobs, CppFacts(j), Clean(j)
    PROVE  CppFacts(j)'
<1>1. /\ files' = Without(files, {OutputAt(j, i) : i \in 1 .. Inputs(j)})
      /\ pc'[j] = IF pc[j] = "clean" THEN "ok" ELSE "failed"
      /\ pc[j] \in {"clean", "undo"} /\ Compiler(j) /\ cmd[j].link
      /\ UNCHANGED <<cmd, at, cg, tmp_files, ag>>
  BY CleanStep, PlaceFacts DEF Clean, IInv
<1>2. /\ (IsCpp(j)' <=> IsCpp(j)) /\ Ins(j)' = Ins(j) /\ Inputs(j)' = Inputs(j) /\ at'[j] = at[j]
      /\ AbiDone(j)' = AbiDone(j) /\ CodeDone(j)' = CodeDone(j) /\ CodeDone(j) = at[j]
      /\ (Compiler(j)' <=> Compiler(j)) /\ cmd'[j].link = cmd[j].link
  BY <1>1 DEF IsCpp, Ins, Inputs, AbiDone, CodeDone, Compiler
<1>3. at[j] \in 1 .. Inputs(j) /\ Inputs(j) \in Nat
  BY <1>1, InsFacts DEF IInv, Shape, JobShape
<1>4. JobTmp(j)'
  BY <1>1, <1>2, <1>3, TmpStays DEF CppFacts
<1>5. CASE pc[j] = "undo"
  BY <1>1, <1>4, <1>5, FailedFacts
<1>6. CASE pc[j] = "clean"
  <2>1. AtEnd(j)'
    BY <1>2, <1>6 DEF CppFacts, AtEnd
  <2>2. JobAbi(j)' /\ JobCode(j)'
    BY <1>1, <1>2, <1>6 DEF CppFacts, JobAbi, JobCode
  <2>3. JobStub(j)' /\ JobObjects(j)' /\ JobServed(j)'
    BY <1>1, <1>6 DEF JobStub, JobObjects, JobServed
  <2>4. JobImage(j)'
    <3>. SUFFICES ASSUME IsCpp(j)
                  PROVE  /\ Output(j) \in DOMAIN files'
                         /\ ImageFor(Ours(Decls(Ins(j), at[j])), files'[Output(j)])
                         /\ Served(Decls(Ins(j), at[j]), files'[Output(j)].disp, cg[j])
      BY <1>1, <1>2 DEF JobImage, ImageOf, Exists
    <3>1. \A i : OutputAt(j, i) # Output(j)
      BY <1>1, NamesApart DEF OutputAt
    <3>2. Output(j) \in DOMAIN files
      BY <1>1, <1>6 DEF CppFacts, JobImage, Exists
    <3>3. Output(j) \in DOMAIN files' /\ files'[Output(j)] = files[Output(j)]
      BY <1>1, <3>1, <3>2 DEF Without
    <3>. QED
      BY <1>1, <1>6, <3>3 DEF CppFacts, JobImage, ImageOf
  <2>. QED
    BY <1>4, <2>1, <2>2, <2>3, <2>4 DEF CppFacts
<1>. QED
  BY <1>1, <1>5, <1>6

\* cdt-ld, and the linker for cdt-cc.
LEMMA LinkOther ==
    ASSUME IInv, NEW j \in Jobs, CppFacts(j), ~IsCpp(j), StartLd(j) \/ Link(j) \/ LinkError(j)
    PROVE  CppFacts(j)'
<1>1. UNCHANGED <<cmd, at, tmp_files>> /\ pc[j] \in {"wait", "link"}
  BY DEF StartLd, Link, LinkError
<1>2. pc'[j] \in {"link", "ok", "clean", "failed", "undo"} /\ Shape
  BY LinkSteps DEF IInv
<1>3. CodeDone(j) = at[j] /\ CodeDone(j)' = at[j]
  BY <1>1, <1>2 DEF CodeDone
<1>4. JobTmp(j)'
  <2>1. Inputs(j)' = Inputs(j) /\ Ins(j)' = Ins(j)
    BY <1>1 DEF Inputs, Ins
  <2>. QED
    BY <1>1, <1>3, <2>1 DEF CppFacts, JobTmp
<1>5. AtEnd(j)'
  <2>1. (Compiler(j)' <=> Compiler(j)) /\ Inputs(j)' = Inputs(j) /\ at'[j] = at[j]
    BY <1>1 DEF Compiler, Inputs
  <2>2. Compiler(j) => pc[j] = "link"
    BY <1>1, <1>2, PlaceFacts DEF Compiler
  <2>. QED
    BY <2>1, <2>2 DEF CppFacts, AtEnd
<1>. QED
  BY <1>1, <1>4, <1>5, NotCpp

LEMMA AbigenErrorCpp ==
    ASSUME IInv, NEW j \in Jobs, CppFacts(j), AbigenError(j)
    PROVE  CppFacts(j)' /\ j \in broke'
<1>1. /\ pc[j] = "generate" /\ Goto(j, "failed") /\ UNCHANGED <<cmd, at, tmp_files>>
      /\ j \in broke'
  BY DEF AbigenError, Fail, Breaks
<1>2. pc'[j] = "failed" /\ Shape
  BY <1>1 DEF Goto, IInv, Shape
<1>3. CodeDone(j) = at[j] - 1 /\ CodeDone(j)' = at[j]
  BY <1>1, <1>2 DEF CodeDone
<1>4. at[j] \in 1 .. Inputs(j)
  BY <1>1, <1>2, PlaceFacts DEF Shape, JobShape
<1>5. Inputs(j) \in Nat
  BY <1>2, InsFacts
<1>6. JobTmp(j)'
  BY <1>1, <1>3, <1>4, <1>5, TmpStays DEF CppFacts
<1>. QED
  BY <1>1, <1>2, <1>6, FailedFacts

LEMMA StepCpp ==
    ASSUME IInv, NEW j \in Jobs, CppFacts(j), DOMAIN ag = Jobs, DOMAIN cg = Jobs, Step(j)
    PROVE  CppFacts(j)'
<1>1. ASSUME StartLd(j) \/ Link(j) \/ LinkError(j), IsCpp(j)
      PROVE  CppFacts(j)'
  <2>1. ~StartLd(j)
    BY <1>1, PlaceFacts DEF StartLd, IInv, IsCpp
  <2>. QED
    BY <1>1, <2>1, LinkCpp, LinkErrorCpp
<1>. QED
  BY <1>1, AbigenCpp, AbigenErrorCpp, CodegenCpp, CompileCpp, CompileErrorCpp, CleanCpp, LinkOther DEF Step

LEMMA CppKept ==
    ASSUME IInv, CppInv, [Next]_vars
    PROVE  CppInv'
<1>1. CASE UNCHANGED vars
  <2>1. \A k \in Jobs : CppFacts(k)'
    BY <1>1, StutterUnmoved, CppStays DEF CppInv, IInv
  <2>. QED
    BY <1>1, <2>1 DEF vars, CppInv
<1>2. ASSUME NEW j \in Jobs, Step(j)
      PROVE  CppInv'
  <2>1. Others(j) /\ Framed(j) /\ Apart(j) /\ Shape
    BY <1>2, StepFrames, StepApart DEF IInv, CppInv
  <2>2. CppFacts(j)'
    BY <1>2, StepCpp DEF CppInv
  <2>3. \A k \in Jobs : k # j => CppFacts(k)'
    BY <2>1, OthersUnmoved, CppStays DEF CppInv
  <2>. QED
    BY <2>1, <2>2, <2>3 DEF CppInv, Apart
<1>. QED
  BY <1>1, <1>2 DEF Next, Rest

LEMMA CppInitially == Init => CppInv
<1>. SUFFICES ASSUME Init
              PROVE  CppInv
  OBVIOUS
<1>1. DOMAIN ag = Jobs /\ DOMAIN cg = Jobs /\ Shape
  BY Initially DEF Init, IInv
<1>2. ASSUME NEW j \in Jobs
      PROVE  CppFacts(j)
  <2>1. /\ files = << >> /\ at[j] = 1 /\ tmp_files[j] = << >> /\ ag[j] = NewAbiGen /\ cg[j] = NewCodeGen
        /\ IsCpp(j) => pc[j] = "generate"
        /\ Compiler(j) => pc[j] \in {"generate", "compile"}
    BY DEF Init, IsCpp, Compiler
  <2>2. IsCpp(j) => AbiDone(j) = 0 /\ CodeDone(j) = 0 /\ ObjDone(j) = 0
    BY <2>1 DEF AbiDone, CodeDone, ObjDone
  <2>3. Decls(Ins(j), 0) = {} /\ Ours({}) = {}
    BY DeclsZero DEF Ours
  <2>4. NewCodeGen.abi = {} /\ NewCodeGen.parsed = ""
    BY DEF NewCodeGen, NoAbi
  <2>5. AbiOf({}, NewAbiGen, {})
    BY DEF AbiOf, NoMethods
  <2>6. JobAbi(j)
    BY <2>1, <2>2, <2>3, <2>4, <2>5, NothingCollected DEF JobAbi
  <2>7. JobCode(j)
    BY <2>1, <2>2, <2>3, NothingCoded DEF JobCode
  <2>8. JobServed(j)
    <3>1. \A k \in Kinds : NewCodeGen.keys[k] = {}
      BY DEF NewCodeGen, Kinds
    <3>. QED
      BY <2>1, <3>1, NoKeysServed DEF JobServed
  <2>9. JobTmp(j)
    BY <2>1 DEF JobTmp
  <2>10. AtEnd(j) /\ JobStub(j) /\ JobObjects(j) /\ JobImage(j)
    BY <2>1, <2>2 DEF AtEnd, JobStub, JobObjects, JobImage
  <2>. QED
    BY <2>6, <2>7, <2>8, <2>9, <2>10 DEF CppFacts
<1>. QED
  BY <1>1, <1>2 DEF CppInv

LEMMA CppHolds == Spec => []CppInv
  BY Owned, CppInitially, CppKept, PTL DEF Spec

-----------------------------------------------------------------------------
(* What cdt-cpp links is complete.                                         *)

\* Everything the files given to cdt-cpp declare for the contract has its
\* dispatcher in the image and its place in the ABI.
LEMMA CppComplete ==
    ASSUME IInv, CppInv, NEW j \in Jobs, Linked(j), IsCpp(j), NEW d \in DeclsOf(j), d.contract = Contract
    PROVE  /\ \A k \in d.is \cap {"action", "call", "notify"} :
                \/ [kind |-> k, name |-> d.name, sym |-> Symbol(d)] \in ImageOf(j).disp
                \/ Shadowed(d, k, j)
                \/ k = "notify" /\ "action" \in d.is
           /\ \A a \in ImageOf(j).abi :
                /\ "action" \in d.is => d.name \in Ids(a.sec["actions"])
                /\ "call" \in d.is => "calls" \in DOMAIN a.sec /\ d.name \in Ids(a.sec["calls"])
           /\ d.is \cap {"action", "call"} # {} => ImageOf(j).abi # NoAbi
<1>1. /\ CppFacts(j) /\ pc[j] = "ok" /\ cmd[j].link /\ Compiler(j) /\ Shape
  BY DEF CppInv, Linked, IsCpp, Compiler, IInv
<1>2. PICK D : D = DeclsOf(j)
  OBVIOUS
<1>3. at[j] = Inputs(j) /\ D = Decls(Ins(j), at[j])
  BY <1>1, <1>2, DeclsFacts DEF CppFacts, AtEnd
<1>4. PICK c : c = cg[j]
  OBVIOUS
<1>5. Coded(D, c)
  <2>1. CodeDone(j) = at[j]
    BY <1>1 DEF CodeDone
  <2>. QED
    BY <1>1, <1>3, <1>4, <2>1 DEF CppFacts, JobCode
<1>6. PICK o : o = ImageOf(j)
  OBVIOUS
<1>7. ImageFor(Ours(D), o) /\ Served(D, o.disp, c)
  BY <1>1, <1>3, <1>4, <1>6 DEF CppFacts, JobImage
<1>8. d \in D /\ d \in Ours(D)
  BY <1>2 DEF Ours
<1>9. ASSUME NEW k \in d.is \cap {"action", "call", "notify"}
      PROVE  \/ [kind |-> k, name |-> d.name, sym |-> Symbol(d)] \in o.disp
             \/ Shadowed(d, k, j)
             \/ k = "notify" /\ "action" \in d.is
  <2>1. CASE Wanted(d, k)
    <3>1. k \in Kinds
      BY <1>9 DEF Kinds
    <3>2. FullName(d) \in c.keys[k]
      BY <1>5, <1>8, <2>1, <3>1 DEF Coded
    <3>3. PICK e \in D : k \in e.is /\ FullName(e) = FullName(d) /\ (e.contract = Contract => Entry(e, k) \in o.disp)
      BY <1>7, <3>1, <3>2 DEF Served
    <3>4. CASE e.contract # d.contract \/ e.name # d.name \/ Symbol(e) # Symbol(d)
      BY <1>2, <3>3, <3>4 DEF Shadowed
    <3>5. CASE e.contract = d.contract /\ e.name = d.name /\ Symbol(e) = Symbol(d)
      BY <3>3, <3>5 DEF Entry
    <3>. QED
      BY <3>4, <3>5
  <2>2. CASE ~Wanted(d, k)
    BY <1>9, <2>2 DEF Wanted
  <2>. QED
    BY <2>1, <2>2
<1>10. \A a \in o.abi : /\ "action" \in d.is => d.name \in Ids(a.sec["actions"])
                        /\ "call" \in d.is => "calls" \in DOMAIN a.sec /\ d.name \in Ids(a.sec["calls"])
  BY <1>7, <1>8 DEF ImageFor, Names
<1>11. d.is \cap {"action", "call"} # {} => o.abi # {}
  BY <1>7, <1>8 DEF ImageFor, NoMethods
<1>. QED
  BY <1>6, <1>9, <1>10, <1>11 DEF NoAbi

\* However many files are given to cdt-cpp, and whatever else runs beside it:
\* when it links, every action, call and notification handler they declare
\* for the contract has its dispatcher, and every action and call is in the
\* ABI.
THEOREM ImagesComplete == Spec => []ImageComplete
<1>1. IInv /\ CppInv => ImageComplete
  BY CppComplete DEF ImageComplete, IsCpp
<1>. QED
  BY <1>1, Owned, CppHolds, PTL

-----------------------------------------------------------------------------
(* What becomes of the outputs.                                            *)

Written(f, x) == f \in DOMAIN files' /\ files'[f] = x

LEMMA OutputSteps ==
    ASSUME IInv, NEW j \in Jobs, Step(j)
    PROVE  /\ pc[j] \notin {"ok", "failed"}
           /\ \/ Kept(Output(j))
              \/ Compile(j) /\ Written(Output(j), CompiledObject(j))
              \/ pc[j] = "link" /\ Linkable(j) /\ Written(Output(j), Image(ObjectsOf(j)))
           /\ pc'[j] \in {"ok", "clean"} =>
                Output(j) \in DOMAIN files' \/ (pc[j] = "clean" /\ Kept(Output(j)))
<1>1. ASSUME NEW reused, Abigen(j, reused) \/ AbigenError(j)
      PROVE  pc[j] = "generate" /\ Kept(Output(j)) /\ pc'[j] \in {"failed", "codegen"}
  <2>1. pc[j] = "generate" /\ files' = files /\ (Goto(j, "failed") \/ Goto(j, "codegen"))
    BY <1>1 DEF Abigen, AbigenError, Fail
  <2>. QED
    BY <2>1 DEF Kept, Goto, IInv, Shape
<1>2. ASSUME NEW bad \in BOOLEAN, Codegen(j, bad)
      PROVE  pc[j] = "codegen" /\ Kept(Output(j)) /\ pc'[j] \in {"failed", "compile"}
  <2>1. PICK fs :
          /\ pc[j] = "codegen" /\ UNCHANGED <<cmd, at>>
          /\ (fs = files /\ tmp_files' = tmp_files) \/ Stubbed(j, fs, tmp_files')
          /\ \/ Goto(j, "failed") /\ outs' = outs /\ files' = fs
             \/ /\ Goto(j, "compile")
                /\ outs' = [outs EXCEPT ![j] = Append(@, OutputOf(j))]
                /\ files' = IF cmd[j].link THEN WithFile(fs, OutputOf(j), EmptyFile) ELSE fs
    BY <1>2, CodegenEffect
  <2>2. fs = files \/ \E x : fs = WithFile(files, TmpCpp(j, at[j]), x)
    BY <2>1 DEF Stubbed
  <2>3. Output(j) # TmpCpp(j, at[j]) /\ (cmd[j].link => Output(j) # OutputOf(j))
    BY NamesApart DEF OutputOf, OutputAt
  <2>4. (Output(j) \in DOMAIN fs <=> Output(j) \in DOMAIN files)
        /\ (Output(j) \in DOMAIN files => fs[Output(j)] = files[Output(j)])
    BY <2>2, <2>3 DEF WithFile
  <2>5. files' = fs \/ (cmd[j].link /\ files' = WithFile(fs, OutputOf(j), EmptyFile))
    BY <2>1
  <2>6. Kept(Output(j))
    BY <2>3, <2>4, <2>5 DEF WithFile, Kept
  <2>. QED
    BY <2>1, <2>6 DEF Goto, IInv, Shape
<1>3. ASSUME Compile(j)
      PROVE  /\ pc[j] = "compile"
             /\ Kept(Output(j)) \/ Written(Output(j), CompiledObject(j))
             /\ pc'[j] \notin {"ok", "clean"} \/ Output(j) \in DOMAIN files'
  <2>1. /\ pc[j] = "compile" /\ Compiler(j)
        /\ pc'[j] \in {"generate", "compile", "link"} \/ (pc'[j] = "ok" /\ ~cmd[j].link)
        /\ files' = Without(WithFile(files, OutputAt(j, at[j]), CompiledObject(j)), Spent(j))
    BY <1>3, CompileEffect
  <2>2. Output(j) \notin Spent(j)
    BY StubsFramed, NamesApart
  <2>3. CASE cmd[j].link
    <3>1. Output(j) # OutputAt(j, at[j])
      BY <2>3, NamesApart DEF OutputAt
    <3>. QED
      BY <2>1, <2>2, <2>3, <3>1 DEF Without, WithFile, Kept
  <2>4. CASE ~cmd[j].link
    <3>1. Output(j) = OutputAt(j, at[j])
      BY <2>4 DEF OutputAt
    <3>. QED
      BY <2>1, <2>2, <3>1 DEF Without, WithFile, Written
  <2>. QED
    BY <2>3, <2>4
<1>4. ASSUME CompileError(j)
      PROVE  pc[j] = "compile" /\ Kept(Output(j)) /\ pc'[j] = "failed"
  <2>1. pc[j] = "compile" /\ files' = Without(files, Spent(j)) /\ Goto(j, "failed")
    BY <1>4 DEF CompileError, Fail
  <2>2. Output(j) \notin Spent(j)
    BY StubsFramed, NamesApart
  <2>. QED
    BY <2>1, <2>2 DEF Without, Kept, Goto, IInv, Shape
<1>5. ASSUME StartLd(j)
      PROVE  pc[j] = "wait" /\ Kept(Output(j)) /\ pc'[j] = "link"
  BY <1>5 DEF StartLd, Kept, Goto, IInv, Shape
<1>6. ASSUME Link(j)
      PROVE  pc[j] = "link" /\ Linkable(j) /\ Written(Output(j), Image(ObjectsOf(j)))
  BY <1>6 DEF Link, WithFile, Written
<1>7. ASSUME LinkError(j)
      PROVE  /\ pc[j] = "link" /\ pc'[j] \in {"failed", "undo"}
             /\ Kept(Output(j)) \/ (Linkable(j) /\ Written(Output(j), Image(ObjectsOf(j))))
  BY <1>7 DEF LinkError, WithFile, Written, Kept, Goto, IInv, Shape
<1>8. ASSUME Clean(j)
      PROVE  /\ pc[j] \in {"clean", "undo"} /\ Kept(Output(j))
             /\ pc'[j] \in {"ok", "clean"} => pc[j] = "clean"
  <2>1. /\ pc[j] \in {"clean", "undo"} /\ files' = Without(files, {OutputAt(j, i) : i \in 1 .. Inputs(j)})
        /\ pc'[j] = IF pc[j] = "clean" THEN "ok" ELSE "failed"
        /\ cmd[j].link
    BY <1>8, CleanStep, PlaceFacts DEF Clean, IInv
  <2>2. \A i : Output(j) # OutputAt(j, i)
    BY <2>1, NamesApart DEF OutputAt
  <2>3. Kept(Output(j))
    BY <2>1, <2>2 DEF Without, Kept
  <2>. QED
    BY <2>1, <2>3
<1>9. CASE \E reused \in SUBSET DOMAIN Types : Cardinality(reused) <= MaxReuse /\ Abigen(j, reused)
  BY <1>1, <1>9
<1>10. CASE AbigenError(j)
  BY <1>1, <1>10
<1>11. CASE \E bad \in BOOLEAN : Codegen(j, bad)
  BY <1>2, <1>11
<1>12. CASE Compile(j)
  BY <1>3, <1>12
<1>13. CASE CompileError(j) \/ StartLd(j) \/ LinkError(j)
  BY <1>4, <1>5, <1>7, <1>13
<1>14. CASE Link(j)
  BY <1>6, <1>14 DEF Written
<1>15. CASE Clean(j)
  BY <1>8, <1>15
<1>. QED
  BY <1>9, <1>10, <1>11, <1>12, <1>13, <1>14, <1>15 DEF Step

\* The objects of cdt-cc carry nothing.
LEMMA CcObject ==
    ASSUME NEW j \in Jobs, cmd[j].tool = "cc"
    PROVE  CompiledObject(j).disp = {} /\ CompiledObject(j).abi = {}
  BY DEF CompiledObject, Redirected, Object, NoAbi

LEMMA PlainIsGood ==
    ASSUME NEW o, o.disp = {}, o.abi = {}
    PROVE  Good(o)
  BY DEF Good, Carries, NamesIn

LEMMA CcCleanKept ==
    ASSUME IInv, CcClean, NEW j \in Jobs, Step(j)
    PROVE  CcClean'
<1>. SUFFICES ASSUME NEW n, TmpCc(n) \in DOMAIN files'
              PROVE  files'[TmpCc(n)].disp = {} /\ files'[TmpCc(n)].abi = {}
  BY DEF CcClean, Exists
<1>1. PICK f : f = TmpCc(n)
  OBVIOUS
<1>2. f \in DOMAIN files => files[f].disp = {} /\ files[f].abi = {}
  BY <1>1 DEF CcClean, Exists
<1>3. CASE ~Touches(j, f)
  <2>1. f \in DOMAIN files /\ files'[f] = files[f]
    BY <1>1, <1>3, StepFrames DEF Framed
  <2>. QED
    BY <1>1, <1>2, <2>1
<1>4. CASE Touches(j, f)
  <2>1. f # Output(j) /\ \A i : f # TmpCpp(j, i) /\ f # TmpObj(j, i)
    BY <1>1, NamesApart
  <2>2. Compiler(j) /\ cmd[j].link /\ \E i \in 1 .. Inputs(j) : f = OutputAt(j, i)
    BY <1>4, <2>1 DEF Touches
  <2>3. cmd[j].tool = "cc"
    BY <2>1, <2>2 DEF OutputAt
  <2>4. pc[j] \notin {"generate", "codegen", "wait"}
    BY <2>3, PlaceFacts DEF IInv
  <2>5. CASE Compile(j)
    <3>1. files' = Without(WithFile(files, OutputAt(j, at[j]), CompiledObject(j)), Spent(j))
      BY <2>5, CompileEffect
    <3>2. f \in DOMAIN files' /\ files'[f] = IF f = OutputAt(j, at[j]) THEN CompiledObject(j) ELSE files[f]
      BY <1>1, <3>1 DEF Without, WithFile
    <3>3. f = OutputAt(j, at[j]) \/ f \in DOMAIN files
      BY <1>1, <3>1 DEF Without, WithFile
    <3>. QED
      BY <1>1, <1>2, <2>3, <3>2, <3>3, CcObject
  <2>6. CASE \E S : files' = Without(files, S)
    BY <1>1, <1>2, <2>6 DEF Without
  <2>7. CASE Link(j) \/ LinkError(j)
    <3>1. files' = files \/ \E x : files' = WithFile(files, Output(j), x)
      BY <2>7 DEF Link, LinkError
    <3>. QED
      BY <1>1, <1>2, <2>1, <3>1 DEF WithFile
  <2>8. CompileError(j) \/ Clean(j) => \E S : files' = Without(files, S)
    BY DEF CompileError, Clean
  <2>. QED
    BY <2>4, <2>5, <2>6, <2>7, <2>8 DEF Step, Abigen, AbigenError, Codegen, StartLd
<1>. QED
  BY <1>3, <1>4

-----------------------------------------------------------------------------
(* What the linker is given.                                               *)

\* What cdt-ld is given.
LEMMA LdOrder ==
    ASSUME IInv, NEW j \in Jobs, cmd[j].tool = "ld"
    PROVE  /\ Inputs(j) \in Nat
           /\ DOMAIN LinkInputs(j) = 1 .. Inputs(j)
           /\ \A i \in 1 .. Inputs(j) : LinkInputs(j)[i] = Output(Ins(j)[i])
           /\ DOMAIN ObjectsOf(j) = 1 .. Inputs(j) /\ Len(ObjectsOf(j)) = Inputs(j)
           /\ \A i \in 1 .. Inputs(j) : ObjectsOf(j)[i] = ImageOf(Ins(j)[i])
<1>1. PICK n : n = Inputs(j)
  OBVIOUS
<1>2. n \in Nat /\ DOMAIN Ins(j) = 1 .. n
  BY <1>1, InsFacts DEF IInv
<1>3. LinkInputs(j) = [i \in 1 .. n |-> Output(Ins(j)[i])]
  BY <1>2 DEF LinkInputs, Ins
<1>4. ObjectsOf(j) = [i \in 1 .. n |-> files[Output(Ins(j)[i])]]
  BY <1>3 DEF ObjectsOf
<1>5. Len(ObjectsOf(j)) = n
  BY <1>2, <1>4
<1>. QED
  BY <1>1, <1>2, <1>3, <1>4, <1>5 DEF ImageOf

\* Every object given to the linker is good, and those of cdt-cc carry
\* nothing.
LEMMA ObjectsGood ==
    ASSUME IInv, CppInv, OutInv, NEW j \in Jobs, pc[j] = "link",
           \A i \in DOMAIN LinkInputs(j) : Exists(LinkInputs(j)[i])
    PROVE  /\ Len(ObjectsOf(j)) \in Nat /\ DOMAIN ObjectsOf(j) = 1 .. Len(ObjectsOf(j))
           /\ \A i \in DOMAIN ObjectsOf(j) : Good(ObjectsOf(j)[i])
           /\ cmd[j].tool = "cc" => \A i \in DOMAIN ObjectsOf(j) : ObjectsOf(j)[i].abi = {}
<1>1. CASE IsCpp(j)
  <2>1. CppFacts(j) /\ cmd[j].tool # "cc"
    BY <1>1 DEF CppInv, IsCpp
  <2>. QED
    BY <1>1, <2>1, CppObjects
<1>2. CASE cmd[j].tool = "cc"
  <2>1. PICK n : n = Inputs(j)
    OBVIOUS
  <2>2. Compiler(j) /\ cmd[j].link
    BY <1>2, PlaceFacts DEF IInv, Compiler
  <2>3. /\ n \in Nat /\ LinkInputs(j) = [i \in 1 .. n |-> OutputAt(j, (n - i) + 1)]
        /\ DOMAIN ObjectsOf(j) = 1 .. n /\ Len(ObjectsOf(j)) = n
        /\ \A i \in 1 .. n : ObjectsOf(j)[i] = files[OutputAt(j, (n - i) + 1)]
    BY <2>1, <2>2, LinkOrder
  <2>4. ASSUME NEW i \in 1 .. n
        PROVE  ObjectsOf(j)[i].disp = {} /\ ObjectsOf(j)[i].abi = {}
    <3>1. PICK x : OutputAt(j, (n - i) + 1) = TmpCc(x)
      BY <1>2, <2>2 DEF OutputAt
    <3>2. Exists(TmpCc(x)) /\ ObjectsOf(j)[i] = files[TmpCc(x)]
      BY <2>3, <3>1
    <3>. QED
      BY <3>2 DEF OutInv, CcClean
  <2>5. \A i \in 1 .. n : Good(ObjectsOf(j)[i])
    BY <2>4, PlainIsGood
  <2>. QED
    BY <2>3, <2>4, <2>5
<1>3. CASE cmd[j].tool = "ld"
  <2>1. PICK n : n = Inputs(j)
    OBVIOUS
  <2>2. /\ n \in Nat /\ DOMAIN LinkInputs(j) = 1 .. n
        /\ \A i \in 1 .. n : LinkInputs(j)[i] = Output(Ins(j)[i])
        /\ DOMAIN ObjectsOf(j) = 1 .. n /\ Len(ObjectsOf(j)) = n
        /\ \A i \in 1 .. n : ObjectsOf(j)[i] = ImageOf(Ins(j)[i])
    BY <1>3, <2>1, LdOrder
  <2>3. ASSUME NEW i \in 1 .. n
        PROVE  Good(ObjectsOf(j)[i])
    <3>1. Ins(j)[i] \in Jobs
      BY <1>3, <2>1, InsFacts DEF IInv
    <3>2. Exists(Output(Ins(j)[i]))
      BY <2>2
    <3>. QED
      BY <2>2, <3>1, <3>2 DEF OutInv, OutThere
  <2>. QED
    BY <1>3, <2>2, <2>3
<1>. QED
  BY <1>1, <1>2, <1>3, PlaceFacts DEF IInv, Compiler, IsCpp

\* What the linker makes of them.
LEMMA LinkMakes ==
    ASSUME IInv, CppInv, OutInv, NEW j \in Jobs, pc[j] = "link", Linkable(j)
    PROVE  /\ Good(Image(ObjectsOf(j)))
           /\ cmd[j].tool = "cc" => Image(ObjectsOf(j)).abi = {}
<1>1. PICK objs : objs = ObjectsOf(j)
  OBVIOUS
<1>2. /\ LinkedAbi(objs).ok /\ Len(objs) \in Nat /\ DOMAIN objs = 1 .. Len(objs)
      /\ \A i \in DOMAIN objs : Good(objs[i])
      /\ cmd[j].tool = "cc" => \A i \in DOMAIN objs : objs[i].abi = {}
  BY <1>1, ObjectsGood DEF Linkable
<1>3. Good(Image(objs))
  BY <1>2, ImageGood
<1>4. ASSUME \A i \in 1 .. Len(objs) : objs[i].abi = {}
      PROVE  Image(objs).abi = {}
  <2>1. PICK r : r = LinkedAbi(objs)
    OBVIOUS
  <2>2. PICK n : n = Len(objs)
    OBVIOUS
  <2>3. \A i \in 1 .. Len(objs) : Carries(objs[i])
    BY <1>4 DEF Carries
  <2>4. Combined(objs, n, r)
    BY <1>2, <2>1, <2>2, <2>3, AllCombined
  <2>5. r.abi = {}
    <3>. SUFFICES ASSUME r.abi # {}
                  PROVE  FALSE
      OBVIOUS
    <3>1. PICK m : ComesFrom(m, objs, n)
      BY <2>4 DEF Combined
    <3>2. \E i \in 1 .. n : \E b \in objs[i].abi : TRUE
      BY <3>1 DEF ComesFrom
    <3>. QED
      BY <1>4, <2>2, <3>2
  <2>. QED
    BY <2>1, <2>5, ImageParts
<1>. QED
  BY <1>1, <1>2, <1>3, <1>4

\* A step of the job itself.
LEMMA OutSteps ==
    ASSUME IInv, CppInv, OutInv, NEW j \in Jobs, Step(j)
    PROVE  OutThere(j)' /\ (cmd[j].tool = "cc" /\ Output(j) \in DOMAIN files' => files'[Output(j)].abi = {})
<1>1. /\ \/ Kept(Output(j))
         \/ Compile(j) /\ Written(Output(j), CompiledObject(j))
         \/ pc[j] = "link" /\ Linkable(j) /\ Written(Output(j), Image(ObjectsOf(j)))
      /\ pc'[j] \in {"ok", "clean"} =>
           Output(j) \in DOMAIN files' \/ (pc[j] = "clean" /\ Kept(Output(j)))
  BY OutputSteps
<1>2. OutThere(j) /\ CcThere(j) /\ CppFacts(j)
  BY DEF OutInv, CppInv
<1>3. cmd' = cmd
  BY StepFrames DEF Others
<1>4. ASSUME Output(j) \in DOMAIN files'
      PROVE  Good(files'[Output(j)]) /\ (cmd[j].tool = "cc" => files'[Output(j)].abi = {})
  <2>1. CASE Kept(Output(j))
    BY <1>2, <1>4, <2>1 DEF Kept, OutThere, CcThere, ImageOf, Exists
  <2>2. CASE Compile(j) /\ Written(Output(j), CompiledObject(j))
    <3>1. IsCpp(j) \/ cmd[j].tool = "cc"
      BY <2>2, CompileEffect DEF Compiler, IsCpp
    <3>2. CASE IsCpp(j)
      <4>1. Good(CompiledObject(j))
        BY <1>2, <2>2, <3>2, CompiledCpp, ObjGood
      <4>. QED
        BY <2>2, <3>2, <4>1 DEF Written, IsCpp
    <3>3. CASE cmd[j].tool = "cc"
      BY <2>2, <3>3, CcObject, PlainIsGood DEF Written
    <3>. QED
      BY <3>1, <3>2, <3>3
  <2>3. CASE pc[j] = "link" /\ Linkable(j) /\ Written(Output(j), Image(ObjectsOf(j)))
    BY <2>3, LinkMakes DEF Written
  <2>. QED
    BY <1>1, <2>1, <2>2, <2>3
<1>5. pc'[j] \in {"ok", "clean"} /\ cmd[j].tool # "none" => Output(j) \in DOMAIN files'
  BY <1>1, <1>2 DEF OutThere, Kept, Exists
<1>6. OutThere(j)'
  BY <1>3, <1>4, <1>5 DEF OutThere, ImageOf, Exists
<1>. QED
  BY <1>4, <1>6

LEMMA CcSteps ==
    ASSUME IInv, CppInv, OutInv, NEW j \in Jobs, Step(j)
    PROVE  CcThere(j)'
<1>1. cmd' = cmd /\ Framed(j) /\ CcThere(j) /\ Shape
  BY StepFrames DEF Others, OutInv, IInv
<1>2. cmd[j].tool = "cc" /\ Output(j) \in DOMAIN files' => files'[Output(j)].abi = {}
  BY OutSteps
<1>3. ASSUME cmd[j].tool = "cc", cmd[j].link, pc'[j] \in {"compile", "link"}, ~Collides(j),
             NEW i \in 1 .. ObjDone(j)'
      PROVE  TmpCc(Ins(j)[i]) \in DOMAIN files'
  <2>1. pc[j] \notin {"generate", "codegen", "wait"} /\ Compiler(j)
    BY <1>1, <1>3, PlaceFacts DEF Compiler
  <2>2. Compile(j)
    <3>1. ~CompileError(j)
      BY <1>1, <1>3 DEF CompileError, Fail, Goto, Shape
    <3>2. ~Clean(j)
      BY <1>3, CleanStep
    <3>3. ~Link(j) /\ ~LinkError(j)
      BY <1>3, <2>1, LinkSteps
    <3>. QED
      BY <2>1, <3>1, <3>2, <3>3 DEF Step, Abigen, AbigenError, Codegen, StartLd
  <2>3. /\ pc[j] = "compile" /\ Inputs(j) \in Nat /\ at[j] \in 1 .. Inputs(j)
        /\ \/ /\ at[j] < Inputs(j) /\ at'[j] = at[j] + 1
              /\ pc'[j] = IF cmd[j].tool = "cpp" THEN "generate" ELSE "compile"
           \/ /\ at[j] = Inputs(j) /\ at'[j] = at[j]
              /\ pc'[j] = IF cmd[j].link THEN "link" ELSE "ok"
        /\ files' = Without(WithFile(files, OutputAt(j, at[j]), CompiledObject(j)), Spent(j))
    BY <2>2, CompileEffect
  <2>4. ObjDone(j)' = at[j] /\ ObjDone(j) = at[j] - 1
    BY <1>3, <2>3 DEF ObjDone
  <2>5. Spent(j) = {}
    BY <1>3 DEF Spent, Redirected
  <2>6. OutputAt(j, at[j]) = TmpCc(Ins(j)[at[j]])
    BY <1>3 DEF OutputAt, Ins
  <2>7. i = at[j] \/ i \in 1 .. ObjDone(j)
    BY <1>3, <2>3, <2>4
  <2>8. i \in 1 .. ObjDone(j) => TmpCc(Ins(j)[i]) \in DOMAIN files
    BY <1>1, <1>3, <2>3 DEF CcThere, Exists
  <2>. QED
    BY <2>3, <2>5, <2>6, <2>7, <2>8 DEF Without, WithFile
<1>4. (Collides(j)' <=> Collides(j)) /\ Ins(j)' = Ins(j)
  BY <1>1 DEF Collides, Ins, InputsOf
<1>. QED
  BY <1>1, <1>2, <1>3, <1>4 DEF CcThere, ImageOf, Exists

\* ... and of another one.
LEMMA OutStays ==
    ASSUME Shape, NEW k \in Jobs, Unmoved(k), CcThere(k), OutThere(k)
    PROVE  CcThere(k)' /\ OutThere(k)'
<1>1. /\ cmd' = cmd /\ pc'[k] = pc[k] /\ at'[k] = at[k] /\ Kept(Output(k))
      /\ cmd[k].tool = "cc" /\ cmd[k].link /\ ~Collides(k) =>
           \A i \in 1 .. Inputs(k) : Kept(TmpCc(Ins(k)[i]))
  BY DEF Unmoved
<1>2. OutThere(k)'
  BY <1>1 DEF OutThere, Kept, ImageOf, Exists
<1>3. (Collides(k)' <=> Collides(k)) /\ Ins(k)' = Ins(k) /\ ObjDone(k)' = ObjDone(k)
  BY <1>1 DEF Collides, Ins, InputsOf, ObjDone
<1>4. ASSUME cmd[k].tool = "cc", cmd[k].link, pc[k] \in {"compile", "link"}, ~Collides(k),
             NEW i \in 1 .. ObjDone(k)
      PROVE  TmpCc(Ins(k)[i]) \in DOMAIN files'
  <2>1. at[k] \in 1 .. Inputs(k) /\ Inputs(k) \in Nat
    BY <1>4, InsFacts DEF Shape, JobShape, Compiler
  <2>2. i \in 1 .. Inputs(k)
    BY <2>1 DEF ObjDone
  <2>3. TmpCc(Ins(k)[i]) \in DOMAIN files
    BY <1>4 DEF CcThere, Exists
  <2>. QED
    BY <1>1, <1>4, <2>2, <2>3 DEF Kept
<1>5. cmd[k].tool = "cc" /\ Output(k) \in DOMAIN files' => files'[Output(k)].abi = {}
  BY <1>1 DEF CcThere, Kept, ImageOf, Exists
<1>. QED
  BY <1>1, <1>2, <1>3, <1>4, <1>5 DEF CcThere, ImageOf, Exists

LEMMA OutKept ==
    ASSUME IInv, CppInv, OutInv, [Next]_vars
    PROVE  OutInv'
<1>1. CASE UNCHANGED vars
  <2>1. \A k \in Jobs : CcThere(k)' /\ OutThere(k)'
    BY <1>1, StutterUnmoved, OutStays DEF OutInv, IInv
  <2>2. CcClean'
    BY <1>1 DEF vars, OutInv, CcClean, Exists
  <2>. QED
    BY <2>1, <2>2 DEF OutInv
<1>2. ASSUME NEW j \in Jobs, Step(j)
      PROVE  OutInv'
  <2>1. Others(j) /\ Framed(j) /\ Apart(j) /\ Shape
    BY <1>2, StepFrames, StepApart DEF IInv, CppInv
  <2>2. \A k \in Jobs : k # j => CcThere(k)' /\ OutThere(k)'
    BY <2>1, OthersUnmoved, OutStays DEF OutInv
  <2>3. CcThere(j)' /\ OutThere(j)'
    BY <1>2, CcSteps, OutSteps
  <2>4. CcClean'
    BY <1>2, CcCleanKept DEF OutInv
  <2>. QED
    BY <2>2, <2>3, <2>4 DEF OutInv
<1>. QED
  BY <1>1, <1>2 DEF Next, Rest

LEMMA OutInitially == Init => OutInv
<1>. SUFFICES ASSUME Init
              PROVE  OutInv
  OBVIOUS
<1>1. \A f : ~Exists(f)
  BY DEF Init, Exists
<1>2. ASSUME NEW j \in Jobs
      PROVE  CcThere(j) /\ OutThere(j)
  <2>1. at[j] = 1 /\ (cmd[j].tool = "cc" => pc[j] = "compile")
        /\ (cmd[j].tool # "none" => pc[j] \notin {"ok", "clean"})
    BY CmdFacts DEF Init
  <2>2. cmd[j].tool = "cc" => ObjDone(j) = 0
    BY <2>1 DEF ObjDone
  <2>. QED
    BY <1>1, <2>1, <2>2 DEF CcThere, OutThere
<1>. QED
  BY <1>1, <1>2 DEF OutInv, CcClean

LEMMA OutHolds == Spec => []OutInv
  BY Owned, CppHolds, OutInitially, OutKept, PTL DEF Spec

-----------------------------------------------------------------------------
(* Why jobs fail.                                                          *)

\* The inputs of cdt-ld take no more steps.
LEMMA InputsOver ==
    ASSUME IInv, CppInv, NEW k \in Jobs, cmd[k].tool = "ld",
           \A i \in InputsOf(k) : pc[i] \in {"ok", "failed"}, NEW j \in Jobs, Step(j)
    PROVE  \A i \in InputsOf(k) : i \in Jobs /\ i # j /\ Unmoved(i)
<1>. TAKE i \in InputsOf(k)
<1>1. i \in Jobs /\ i # j
  BY InsFacts, OutputSteps DEF IInv
<1>2. Shape /\ Others(j) /\ Framed(j) /\ Apart(j)
  BY StepFrames, StepApart DEF IInv, CppInv
<1>. QED
  BY <1>1, <1>2, OthersUnmoved

\* When they are over and well, their outputs are there.
LEMMA OutputsThere ==
    ASSUME IInv, OutInv, NEW k \in Jobs, cmd[k].tool = "ld",
           \A i \in InputsOf(k) : pc[i] \in {"ok", "failed"}, NEW i \in InputsOf(k), pc[i] # "failed"
    PROVE  i \in Jobs /\ Exists(Output(i))
<1>1. i \in Jobs /\ cmd[i].tool # "none"
  BY InsFacts DEF IInv
<1>. QED
  BY <1>1 DEF OutInv, OutThere

LEMMA LdExcuseStays ==
    ASSUME IInv, OutInv, NEW k \in Jobs, cmd[k].tool = "ld", LdExcuse(k),
           \A i \in InputsOf(k) : pc[i] \in {"ok", "failed"} /\ Unmoved(i), cmd' = cmd
    PROVE  LdExcuse(k)'
<1>1. InputsOf(k)' = InputsOf(k) /\ \A i \in InputsOf(k) : pc'[i] = pc[i]
  BY DEF InputsOf, Unmoved
<1>2. CASE \E i \in InputsOf(k) : pc[i] = "failed"
  BY <1>1, <1>2 DEF LdExcuse
<1>3. CASE ~\E i \in InputsOf(k) : pc[i] = "failed"
  <2>1. \A i \in InputsOf(k) : ImageOf(i)' = ImageOf(i)
    <3>. TAKE i \in InputsOf(k)
    <3>1. Exists(Output(i)) /\ Kept(Output(i))
      BY <1>3, OutputsThere DEF Unmoved
    <3>. QED
      BY <3>1 DEF Kept, Exists, ImageOf
  <2>. QED
    BY <1>1, <1>3, <2>1 DEF LdExcuse
<1>. QED
  BY <1>2, <1>3

LEMMA ExcuseSame ==
    ASSUME NEW j \in Jobs, cmd' = cmd, at'[j] = at[j]
    PROVE  (CppExcuse(j)' <=> CppExcuse(j)) /\ (CcExcuse(j)' <=> CcExcuse(j))
<1>1. DeclsOf(j)' = DeclsOf(j) /\ \A k : InputsOf(k)' = InputsOf(k)
  BY DEF DeclsOf, InputsOf
<1>2. \A k : (HasAbi(j, k)' <=> HasAbi(j, k)) /\ (HasCalls(j, k)' <=> HasCalls(j, k))
  BY DEF HasAbi, HasCalls
<1>3. CcExcuse(j)' <=> CcExcuse(j)
  BY <1>1 DEF CcExcuse
<1>4. CppExcuse(j)' <=> CppExcuse(j)
  BY <1>1, <1>2 DEF CppExcuse
<1>. QED
  BY <1>3, <1>4

\* Nothing keeps the linker from linking the objects of cdt-cc, if they are
\* there.
LEMMA UnlinkableCc ==
    ASSUME IInv, CppInv, OutInv, NEW j \in Jobs, cmd[j].tool = "cc", pc[j] = "link", ~Linkable(j)
    PROVE  CcExcuse(j)
<1>1. PICK n : n = Inputs(j)
  OBVIOUS
<1>2. Compiler(j) /\ cmd[j].link /\ CppFacts(j) /\ CcThere(j)
  BY PlaceFacts DEF IInv, Compiler, CppInv, OutInv
<1>3. n \in Nat /\ LinkInputs(j) = [i \in 1 .. n |-> OutputAt(j, (n - i) + 1)]
  BY <1>1, <1>2, LinkOrder
<1>4. ObjDone(j) = n
  BY <1>1, <1>2 DEF CppFacts, AtEnd, ObjDone
<1>5. CASE Collides(j)
  BY <1>5 DEF Collides, CcExcuse
<1>6. CASE ~Collides(j)
  <2>1. \A i \in DOMAIN LinkInputs(j) : Exists(LinkInputs(j)[i])
    <3>. SUFFICES ASSUME NEW i \in 1 .. n
                  PROVE  Exists(LinkInputs(j)[i])
      BY <1>3
    <3>1. PICK m : m = (n - i) + 1
      OBVIOUS
    <3>2. m \in 1 .. n
      BY <1>3, <3>1
    <3>3. OutputAt(j, m) = TmpCc(Ins(j)[m])
      BY <1>2 DEF OutputAt, Ins
    <3>4. Exists(TmpCc(Ins(j)[m]))
      BY <1>2, <1>4, <1>6, <3>2 DEF CcThere
    <3>. QED
      BY <1>3, <3>1, <3>3, <3>4
  <2>2. PICK objs : objs = ObjectsOf(j)
    OBVIOUS
  <2>3. /\ Len(objs) \in Nat /\ \A i \in 1 .. Len(objs) : objs[i].abi = {}
    BY <2>1, <2>2, ObjectsGood
  <2>4. \A i \in 1 .. Len(objs) : Carries(objs[i])
    BY <2>3 DEF Carries
  <2>5. Combined(objs, Len(objs), LinkedAbi(objs))
    BY <2>3, <2>4, AllCombined
  <2>6. LinkedAbi(objs).ok
    BY <2>3, <2>5 DEF Combined
  <2>. QED
    BY <2>1, <2>2, <2>6 DEF Linkable
<1>. QED
  BY <1>5, <1>6

LEMMA UnlinkableLd ==
    ASSUME IInv, CppInv, OutInv, NEW j \in Jobs, cmd[j].tool = "ld", pc[j] = "link", ~Linkable(j),
           \A i \in InputsOf(j) : pc[i] \in {"ok", "failed"}
    PROVE  LdExcuse(j)
<1>1. PICK n : n = Inputs(j)
  OBVIOUS
<1>2. /\ n \in Nat /\ DOMAIN LinkInputs(j) = 1 .. n
      /\ \A i \in 1 .. n : LinkInputs(j)[i] = Output(Ins(j)[i])
      /\ DOMAIN ObjectsOf(j) = 1 .. n /\ Len(ObjectsOf(j)) = n
      /\ \A i \in 1 .. n : ObjectsOf(j)[i] = ImageOf(Ins(j)[i])
  BY <1>1, LdOrder
<1>3. \A i \in 1 .. n : Ins(j)[i] \in InputsOf(j)
  BY <1>1, InsFacts DEF IInv
<1>4. CASE \E i \in 1 .. n : ~Exists(LinkInputs(j)[i])
  <2>1. PICK i \in 1 .. n : ~Exists(Output(Ins(j)[i]))
    BY <1>2, <1>4
  <2>2. pc[Ins(j)[i]] = "failed"
    BY <1>3, <2>1, OutputsThere
  <2>. QED
    BY <1>3, <2>2 DEF LdExcuse
<1>5. CASE \A i \in 1 .. n : Exists(LinkInputs(j)[i])
  <2>1. PICK objs : objs = ObjectsOf(j)
    OBVIOUS
  <2>2. /\ Len(objs) = n /\ \A i \in 1 .. n : Good(objs[i])
        /\ \A i \in 1 .. n : objs[i] = ImageOf(Ins(j)[i])
    BY <1>2, <1>5, <2>1, ObjectsGood
  <2>3. Combined(objs, Len(objs), LinkedAbi(objs))
    BY <1>2, <2>2, AllCombined DEF Good
  <2>4. ~LinkedAbi(objs).ok
    BY <1>2, <1>5, <2>1 DEF Linkable
  <2>5. PICK h, i \in 1 .. n : \E a \in objs[h].abi, b \in objs[i].abi : Disagree(a, b)
    BY <2>2, <2>3, <2>4 DEF Combined
  <2>6. PICK a \in ImageOf(Ins(j)[h]).abi, b \in ImageOf(Ins(j)[i]).abi : Disagree(a, b)
    BY <2>2, <2>5
  <2>. QED
    BY <1>3, <2>6 DEF LdExcuse, Disagree
<1>. QED
  BY <1>4, <1>5

-----------------------------------------------------------------------------

LEMMA EndStays ==
    ASSUME IInv, CppInv, OutInv, NEW k \in Jobs, Unmoved(k), LdWaits(k), LdDescribed(k), Excused(k),
           pc[k] # "wait" /\ cmd[k].tool = "ld" => \A i \in InputsOf(k) : i \in Jobs /\ Unmoved(i)
    PROVE  LdWaits(k)' /\ LdDescribed(k)' /\ Excused(k)'
<1>1. cmd' = cmd /\ pc'[k] = pc[k] /\ at'[k] = at[k] /\ (k \in broke' <=> k \in broke) /\ Kept(Output(k))
  BY DEF Unmoved
<1>2. InputsOf(k)' = InputsOf(k)
  BY <1>1 DEF InputsOf
<1>3. CASE cmd[k].tool = "ld" /\ pc[k] # "wait"
  <2>1. \A i \in InputsOf(k) : /\ i \in Jobs /\ Unmoved(i) /\ pc[i] \in {"ok", "failed"}
                               /\ pc'[i] = pc[i] /\ Kept(Output(i))
    BY <1>3 DEF LdWaits, Unmoved
  <2>2. LdWaits(k)'
    BY <1>1, <1>2, <2>1 DEF LdWaits
  <2>3. LdDescribed(k)'
    <3>. SUFFICES ASSUME pc[k] = "ok"
                  PROVE  /\ \A i \in InputsOf(k) : Output(i) \in DOMAIN files'
                         /\ \A a \in ImageOf(k)'.abi :
                              \/ "calls" \in DOMAIN a.sec
                              \/ \E i \in InputsOf(k) : \E b \in ImageOf(i)'.abi : "calls" \notin DOMAIN b.sec
      BY <1>1, <1>2 DEF LdDescribed, Exists
    <3>1. Exists(Output(k)) /\ \A i \in InputsOf(k) : Exists(Output(i))
      BY <1>3 DEF LdDescribed, OutInv, OutThere
    <3>2. ImageOf(k)' = ImageOf(k) /\ \A i \in InputsOf(k) : Output(i) \in DOMAIN files' /\ ImageOf(i)' = ImageOf(i)
      BY <1>1, <2>1, <3>1 DEF Kept, Exists, ImageOf
    <3>. QED
      BY <1>3, <3>2 DEF LdDescribed
  <2>4. Excused(k)'
    BY <1>1, <1>3, <2>1, LdExcuseStays DEF Excused
  <2>. QED
    BY <2>2, <2>3, <2>4
<1>4. CASE cmd[k].tool = "ld" /\ pc[k] = "wait"
  BY <1>1, <1>4 DEF LdWaits, LdDescribed, Excused
<1>5. CASE cmd[k].tool # "ld"
  BY <1>1, <1>5, ExcuseSame DEF LdWaits, LdDescribed, Excused
<1>. QED
  BY <1>3, <1>4, <1>5

-----------------------------------------------------------------------------
(* The steps of a job, and EndInv.                                         *)

\* A job that fails without a program of its own failing has an excuse.
LEMMA FailsExcused ==
    ASSUME IInv, CppInv, OutInv, EndInv, NEW j \in Jobs, Step(j), pc'[j] \in {"undo", "failed"}, j \notin broke'
    PROVE  /\ at'[j] = at[j]
           /\ cmd[j].tool = "cpp" => CppExcuse(j)
           /\ cmd[j].tool = "cc" => CcExcuse(j)
           /\ cmd[j].tool = "ld" => LdExcuse(j) /\ files' = files
<1>1. CppFacts(j) /\ DOMAIN ag = Jobs /\ DOMAIN cg = Jobs /\ Shape
  BY DEF CppInv, IInv
<1>2. ASSUME NEW reused, Abigen(j, reused)
      PROVE  at' = at /\ IsCpp(j) /\ CppExcuse(j)
  <2>1. at' = at /\ pc[j] = "generate" /\ (Goto(j, "failed") \/ Goto(j, "codegen"))
    BY <1>2 DEF Abigen, Fail
  <2>2. pc'[j] = "failed"
    BY <1>1, <2>1 DEF Goto, Shape
  <2>. QED
    BY <1>1, <1>2, <2>1, <2>2, AbigenCpp, PlaceFacts DEF IsCpp
<1>3. ~AbigenError(j)
  BY DEF AbigenError, Breaks
<1>4. ASSUME NEW bad \in BOOLEAN, Codegen(j, bad)
      PROVE  at' = at /\ IsCpp(j) /\ CppExcuse(j)
  <2>1. at' = at /\ pc[j] = "codegen" /\ (Goto(j, "failed") \/ Goto(j, "compile"))
    BY <1>4, CodegenEffect
  <2>2. pc'[j] = "failed"
    BY <1>1, <2>1 DEF Goto, Shape
  <2>. QED
    BY <1>1, <1>4, <2>1, <2>2, CodegenCpp, PlaceFacts DEF IsCpp
<1>5. ~Compile(j)
  <2>1. Compile(j) => pc'[j] \in {"generate", "compile", "link", "ok"}
    BY CompileEffect
  <2>. QED
    BY <2>1
<1>6. CASE CompileError(j)
  <2>1. IsCpp(j) /\ CppExcuse(j) /\ at' = at
    BY <1>1, <1>6, CompileErrorCpp DEF CompileError, Fail
  <2>. QED
    BY <2>1 DEF IsCpp
<1>7. ~StartLd(j) /\ ~Link(j)
  <2>1. StartLd(j) => pc'[j] = "link"
    BY <1>1 DEF StartLd, Goto, Shape
  <2>2. Link(j) => pc'[j] \in {"ok", "clean"}
    BY <1>1 DEF Link, Goto, Shape
  <2>. QED
    BY <2>1, <2>2
<1>8. CASE LinkError(j)
  <2>1. at' = at /\ pc[j] = "link" /\ ~Linkable(j) /\ files' = files
    BY <1>8 DEF LinkError, Breaks
  <2>2. cmd[j].tool = "cpp" => CppExcuse(j)
    BY <1>1, <2>1, UnlinkableCpp DEF IsCpp
  <2>3. cmd[j].tool = "cc" => CcExcuse(j)
    BY <2>1, UnlinkableCc
  <2>4. cmd[j].tool = "ld" => LdExcuse(j)
    BY <2>1, UnlinkableLd DEF EndInv, LdWaits
  <2>. QED
    BY <2>1, <2>2, <2>3, <2>4
<1>9. CASE Clean(j)
  <2>1. pc[j] \in {"clean", "undo"} /\ at' = at /\ broke' = broke
    BY <1>9 DEF Clean
  <2>2. pc'[j] = IF pc[j] = "clean" THEN "ok" ELSE "failed"
    BY <1>9, CleanStep
  <2>3. pc[j] = "undo" /\ Compiler(j)
    BY <1>1, <2>1, <2>2, PlaceFacts
  <2>. QED
    BY <2>1, <2>3 DEF EndInv, Excused, Compiler
<1>. QED
  BY <1>2, <1>3, <1>4, <1>5, <1>6, <1>7, <1>8, <1>9 DEF Step, IsCpp

\* What cdt-ld links keeps the calls, unless an object has none.
LEMMA LdLinks ==
    ASSUME IInv, CppInv, OutInv, NEW j \in Jobs, cmd[j].tool = "ld", pc[j] = "link", Linkable(j)
    PROVE  /\ \A k \in InputsOf(j) : Exists(Output(k))
           /\ \A a \in Image(ObjectsOf(j)).abi :
                \/ "calls" \in DOMAIN a.sec
                \/ \E k \in InputsOf(j) : \E b \in ImageOf(k).abi : "calls" \notin DOMAIN b.sec
<1>1. PICK n : n = Inputs(j)
  OBVIOUS
<1>2. PICK objs : objs = ObjectsOf(j)
  OBVIOUS
<1>3. /\ n \in Nat /\ DOMAIN LinkInputs(j) = 1 .. n
      /\ \A i \in 1 .. n : LinkInputs(j)[i] = Output(Ins(j)[i])
      /\ DOMAIN objs = 1 .. n /\ Len(objs) = n
      /\ \A i \in 1 .. n : objs[i] = ImageOf(Ins(j)[i])
  BY <1>1, <1>2, LdOrder
<1>4. /\ \A i \in DOMAIN objs : Good(objs[i])
      /\ LinkedAbi(objs).ok
      /\ \A i \in DOMAIN LinkInputs(j) : Exists(LinkInputs(j)[i])
  BY <1>2, ObjectsGood DEF Linkable
<1>5. /\ \A i \in 1 .. n : Ins(j)[i] \in InputsOf(j)
      /\ \A k \in InputsOf(j) : \E i \in 1 .. n : k = Ins(j)[i]
  BY <1>1, InsFacts DEF IInv
<1>6. \A k \in InputsOf(j) : Exists(Output(k))
  BY <1>3, <1>4, <1>5
<1>7. \A m \in Image(objs).abi :
        \/ "calls" \in DOMAIN m.sec
        \/ \E i \in DOMAIN objs : \E b \in objs[i].abi : "calls" \notin DOMAIN b.sec
  BY <1>3, <1>4, ImageGood
<1>. QED
  BY <1>2, <1>3, <1>5, <1>6, <1>7

LEMMA EndSteps ==
    ASSUME IInv, CppInv, OutInv, EndInv, NEW j \in Jobs, Step(j)
    PROVE  LdWaits(j)' /\ LdDescribed(j)' /\ Excused(j)'
<1>1. cmd' = cmd /\ InputsOf(j)' = InputsOf(j) /\ LdWaits(j) /\ Shape
  BY StepFrames DEF Others, InputsOf, EndInv, IInv
<1>2. ASSUME cmd[j].tool = "ld"
      PROVE  /\ \A i \in InputsOf(j) : pc[i] \in {"ok", "failed"} /\ i \in Jobs /\ i # j /\ Unmoved(i)
             /\ pc[j] = "wait" => pc'[j] = "link"
             /\ pc'[j] = "ok" => pc[j] = "link" /\ Linkable(j) /\ Written(Output(j), Image(ObjectsOf(j)))
  <2>1. pc[j] \notin {"generate", "codegen", "compile", "clean", "undo"}
    BY <1>1, <1>2, PlaceFacts DEF Compiler
  <2>2. StartLd(j) \/ Link(j) \/ LinkError(j)
    BY <2>1 DEF Step, Abigen, AbigenError, Codegen, Compile, CompileError, Clean
  <2>3. StartLd(j) => \A i \in InputsOf(j) : pc[i] \in {"ok", "failed"}
    BY <1>1, InsFacts DEF StartLd, Ins
  <2>4. \A i \in InputsOf(j) : pc[i] \in {"ok", "failed"}
    BY <1>1, <1>2, <2>2, <2>3 DEF LdWaits, Link, LinkError
  <2>5. \A i \in InputsOf(j) : i \in Jobs /\ i # j /\ Unmoved(i)
    BY <1>2, <2>4, InputsOver
  <2>6. pc[j] = "wait" => pc'[j] = "link"
    BY <1>1, <2>2 DEF StartLd, Link, LinkError, Goto, Shape
  <2>7. pc'[j] = "ok" => Link(j)
    BY <1>1, <1>2, <2>2 DEF StartLd, LinkError, Goto, Shape
  <2>8. Link(j) => pc[j] = "link" /\ Linkable(j) /\ Written(Output(j), Image(ObjectsOf(j)))
    BY DEF Link, WithFile, Written
  <2>. QED
    BY <2>4, <2>5, <2>6, <2>7, <2>8
<1>3. LdWaits(j)'
  BY <1>1, <1>2 DEF LdWaits, Unmoved
<1>4. LdDescribed(j)'
  <2>. SUFFICES ASSUME cmd[j].tool = "ld", pc'[j] = "ok"
                PROVE  /\ \A i \in InputsOf(j) : Output(i) \in DOMAIN files'
                       /\ \A a \in ImageOf(j)'.abi :
                            \/ "calls" \in DOMAIN a.sec
                            \/ \E i \in InputsOf(j) : \E b \in ImageOf(i)'.abi : "calls" \notin DOMAIN b.sec
    BY <1>1 DEF LdDescribed, Exists
  <2>1. pc[j] = "link" /\ Linkable(j) /\ ImageOf(j)' = Image(ObjectsOf(j))
    BY <1>2 DEF Written, ImageOf
  <2>2. /\ \A k \in InputsOf(j) : Exists(Output(k))
        /\ \A a \in Image(ObjectsOf(j)).abi :
             \/ "calls" \in DOMAIN a.sec
             \/ \E k \in InputsOf(j) : \E b \in ImageOf(k).abi : "calls" \notin DOMAIN b.sec
    BY <2>1, LdLinks
  <2>3. \A i \in InputsOf(j) : Output(i) \in DOMAIN files' /\ ImageOf(i)' = ImageOf(i)
    <3>. TAKE i \in InputsOf(j)
    <3>1. Exists(Output(i)) /\ Kept(Output(i))
      BY <1>2, <2>2 DEF Unmoved
    <3>. QED
      BY <3>1 DEF Kept, Exists, ImageOf
  <2>. QED
    BY <2>1, <2>2, <2>3
<1>5. Excused(j)'
  <2>. SUFFICES ASSUME pc'[j] \in {"undo", "failed"}, j \notin broke'
                PROVE  /\ cmd[j].tool = "cpp" => CppExcuse(j)'
                       /\ cmd[j].tool = "cc" => CcExcuse(j)'
                       /\ cmd[j].tool = "ld" => LdExcuse(j)'
    BY <1>1 DEF Excused
  <2>1. /\ at'[j] = at[j]
        /\ cmd[j].tool = "cpp" => CppExcuse(j)
        /\ cmd[j].tool = "cc" => CcExcuse(j)
        /\ cmd[j].tool = "ld" => LdExcuse(j) /\ files' = files
    BY FailsExcused
  <2>2. cmd[j].tool = "ld" => LdExcuse(j)'
    BY <1>1, <1>2, <2>1, LdExcuseStays
  <2>. QED
    BY <1>1, <2>1, <2>2, ExcuseSame
<1>. QED
  BY <1>3, <1>4, <1>5

LEMMA EndKept ==
    ASSUME IInv, CppInv, OutInv, EndInv, [Next]_vars
    PROVE  EndInv'
<1>1. CASE UNCHANGED vars
  <2>1. \A k \in Jobs : cmd[k].tool = "ld" => \A i \in InputsOf(k) : i \in Jobs
    BY InsFacts DEF IInv
  <2>2. ASSUME NEW k \in Jobs
        PROVE  LdWaits(k)' /\ LdDescribed(k)' /\ Excused(k)'
    BY <1>1, <2>1, StutterUnmoved, EndStays DEF EndInv
  <2>. QED
    BY <2>2 DEF EndInv
<1>2. ASSUME NEW j \in Jobs, Step(j)
      PROVE  EndInv'
  <2>1. Others(j) /\ Framed(j) /\ Apart(j) /\ Shape
    BY <1>2, StepFrames, StepApart DEF IInv, CppInv
  <2>2. ASSUME NEW k \in Jobs, k # j
        PROVE  LdWaits(k)' /\ LdDescribed(k)' /\ Excused(k)'
    <3>1. LdWaits(k) /\ LdDescribed(k) /\ Excused(k)
      BY DEF EndInv
    <3>2. pc[k] # "wait" /\ cmd[k].tool = "ld" => \A i \in InputsOf(k) : i \in Jobs /\ Unmoved(i)
      BY <1>2, <3>1, InputsOver DEF LdWaits
    <3>3. Unmoved(k)
      BY <2>1, <2>2, OthersUnmoved
    <3>. QED
      BY <3>1, <3>2, <3>3, EndStays
  <2>3. LdWaits(j)' /\ LdDescribed(j)' /\ Excused(j)'
    BY <1>2, EndSteps
  <2>. QED
    BY <2>2, <2>3 DEF EndInv
<1>. QED
  BY <1>1, <1>2 DEF Next, Rest

LEMMA EndInitially == Init => EndInv
<1>. SUFFICES ASSUME Init, NEW j \in Jobs
              PROVE  LdWaits(j) /\ LdDescribed(j) /\ Excused(j)
  BY DEF EndInv
<1>1. pc[j] \in {"generate", "compile", "wait", "ok"} /\ (cmd[j].tool = "ld" => pc[j] = "wait")
  BY CmdFacts DEF Init
<1>. QED
  BY <1>1 DEF LdWaits, LdDescribed, Excused

LEMMA EndHolds == Spec => []EndInv
  BY Owned, CppHolds, OutHolds, EndInitially, EndKept, PTL DEF Spec

-----------------------------------------------------------------------------

\* Every action and call an image dispatches is in its ABI, whichever of the
\* tools linked it and whatever ran beside it; only cdt-ld may lose calls,
\* when an object it is given has an ABI without any.
THEOREM DispatchersDescribed == Spec => []DispatchedIsDescribed
<1>1. IInv /\ CppInv /\ OutInv /\ EndInv => DispatchedIsDescribed
  <2>. SUFFICES ASSUME IInv, CppInv, OutInv, EndInv, NEW j \in Jobs, Linked(j), NEW a \in ImageOf(j).abi
                PROVE  /\ NamesIn(ImageOf(j).disp, "action") \subseteq Ids(a.sec["actions"])
                       /\ \/ cmd[j].tool = "ld" /\ \E k \in InputsOf(j) : \E b \in ImageOf(k).abi :
                                                     "calls" \notin DOMAIN b.sec
                          \/ NamesIn(ImageOf(j).disp, "call") = {}
                          \/ /\ "calls" \in DOMAIN a.sec
                             /\ NamesIn(ImageOf(j).disp, "call") \subseteq Ids(a.sec["calls"])
    BY DEF DispatchedIsDescribed
  <2>1. /\ pc[j] = "ok" /\ cmd[j].link /\ cmd[j].tool \in {"cpp", "cc", "ld"}
        /\ Exists(Output(j)) /\ Good(ImageOf(j)) /\ CcThere(j) /\ LdDescribed(j) /\ CppFacts(j)
    BY CmdFacts DEF Linked, OutInv, OutThere, EndInv, CppInv, IInv, Shape
  <2>2. /\ NamesIn(ImageOf(j).disp, "action") \subseteq Ids(a.sec["actions"])
        /\ "calls" \in DOMAIN a.sec => NamesIn(ImageOf(j).disp, "call") \subseteq Ids(a.sec["calls"])
    BY <2>1 DEF Good
  <2>3. CASE IsCpp(j)
    <3>1. PICK O : O = Ours(Decls(Ins(j), at[j]))
      OBVIOUS
    <3>2. PICK o : o = ImageOf(j)
      OBVIOUS
    <3>3. ImageFor(O, o)
      BY <2>1, <2>3, <3>1, <3>2 DEF CppFacts, JobImage
    <3>4. FromDecls(O, o.disp) /\ Names(O, a)
      BY <3>2, <3>3 DEF ImageFor
    <3>5. NamesIn(o.disp, "call") # {} => "calls" \in DOMAIN a.sec
      BY <3>4, NamedIsGood
    <3>. QED
      BY <2>2, <3>2, <3>5
  <2>4. CASE cmd[j].tool = "cc"
    BY <2>1, <2>4 DEF CcThere
  <2>5. CASE cmd[j].tool = "ld"
    BY <2>1, <2>2, <2>5 DEF LdDescribed
  <2>. QED
    BY <2>1, <2>3, <2>4, <2>5 DEF IsCpp
<1>. QED
  BY <1>1, Owned, CppHolds, OutHolds, EndHolds, PTL

\* A job fails only when a program it starts does, or for one of the reasons
\* listed for its tool: in the inputs it was given, in another cdt-cc that
\* shares the name of one of them, or in the jobs whose outputs cdt-ld links.
THEOREM FailuresHaveReasons == Spec => []FailuresExplained
<1>1. IInv /\ EndInv => FailuresExplained
  <2>. SUFFICES ASSUME IInv, EndInv, NEW j \in Jobs, pc[j] = "failed", j \notin broke
                PROVE  CASE cmd[j].tool = "cpp" -> CppExcuse(j)
                         [] cmd[j].tool = "cc"  -> CcExcuse(j)
                         [] cmd[j].tool = "ld"  -> LdExcuse(j)
    BY DEF FailuresExplained
  <2>1. cmd[j].tool \in {"cpp", "cc", "ld"}
    <3>1. pc[j] \in Places(j) /\ cmd[j].tool \in {"cpp", "cc", "ld", "none"}
      BY CmdFacts DEF IInv, Shape, JobShape
    <3>. QED
      BY <3>1 DEF Places
  <2>2. /\ cmd[j].tool = "cpp" => CppExcuse(j)
        /\ cmd[j].tool = "cc" => CcExcuse(j)
        /\ cmd[j].tool = "ld" => LdExcuse(j)
    BY DEF EndInv, Excused
  <2>. QED
    BY <2>1, <2>2
<1>. QED
  BY <1>1, Owned, EndHolds, PTL
=============================================================================
