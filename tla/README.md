# A verification of allplay

`allplay` is a command line tool that analyses and takes apart the LLVM bitcode in
allexes (ALLVM's executables). This directory holds TLA+ models of its core, the TLC
configurations that check them and TLAPS proofs.

## The system

| component | source | state | operations |
|---|---|---|---|
| decompose | `tools/allplay/Decompose.cpp` | `ModQ`, `SecondQueue`, `Count`, `Empty`, `Before`, `CurModIdx`, the files written | split while useful, twice; write a fragment |
| SplitModule | `tools/allplay/SplitModule.cpp` | `GVtoClusterMap`, `ComdatMembers`, `BalancinQueue`, `ClusterIDMap` | externalize, record, assign clusters, clone a partition |
| decompose-allexes | `tools/allplay/DecomposeAllexes.cpp` | thread pool, `ProgressMtx`, the display, tar files | queue a task, run it, exit on error, wait |
| progress display | `tools/allplay/boost_progress.h` | count, expected count, tics | restart, increment |
| ABCDB | `libs/ABCDB/*` | the recursive iterator; `Allexes`, `Infos`, `ModuleMap` (by CRC), `BCIDs` | scan a directory tree for allexes or for bitcode |
| neo, neo-decomposed, cypher | `tools/allplay/Neo*.cpp`, `Cypher.cpp` | `GlobalID`, the outputs, the size of the batch | export the database |
| functionhash, graph | `FunctionHash.cpp`, `Graph.cpp`, `StringGraph.*` | function hashes; `Nodes`, `Edges`, `NodeIndex` | hash, sort, group, draw, write |
| finduses, finddirectuses, asmscan | `FindUses.cpp`, `FindDirectUses.cpp`, `AsmScan.cpp` | sets keyed by CRC, a TOML document | search, count, print |
| combine, uncombine | `CombinedModule.cpp`, `Uncombine.cpp` | files | concatenate, take apart |
| TOML | `include/cpptoml.h`, `tools/allplay/TOML.cpp` | tables; the writer's `endline_` | insert, write, parse |
| the rest | `allplay.cpp`, `subcommand-registry.*`, `PrintSource.cpp`, `ModuleFlags.h` | none that changes | dispatch, print |

**How they interact.** A subcommand is looked up in a registry and called with the
resource paths. Most first load an `ABCDB` from a directory, then read it only.
`decompose` is a function with a callback: it calls `SplitModule`, which calls a lambda
of decompose once for each partition, and hands finished fragments to a callback that
writes a file or appends to a tar. `decompose-allexes` calls it from the threads of a
pool; the threads share the progress display (under a mutex), the standard streams, and
the process, which any of them may end.

**What is hard.** decompose is a loop whose termination rests on what a hash answers;
it pushes on a stack while it works on an element of it, runs twice with different rules,
and drops an error. SplitModule places symbols in two ways that must agree. The pool has
threads that use locals of the main thread, end the process at any moment, and update a
counter. The scan of ABCDB and the exporters meet failures in the middle of their work.
`PROJECT.json` lists these hazards by line.

**What makes each component correct.** decompose: every definition is written exactly
once, fragments can be linked, none holds two clusters that could be separated, it ends,
and reports failure. SplitModule: a partition of the definitions that keeps comdats,
aliases, block addresses and preserved locals together, balanced. Pool: success means all
done, nothing used after its scope, no lost update. Display: complete exactly at the end.
ABCDB: every readable allexe is loaded, each module once. Exporters: what is imported is the
database; files are complete or absent. Graphs: vertices unique, edges and sizes as the
database has them. TOML: what is written can be read back. combine/uncombine: inverse of
each other.

## The models

### BitcodeModule, Decompose, Decomposition

`BitcodeModule` is what decompose needs to know of a module and of SplitModule. A module
is its definitions, which of them are local, who refers to whom, which pairs are *tied*
(two members of a comdat; an alias and its base; a function and the users of its block
addresses) and what its module-level assembly is. `Placements` is the set of answers a
call of SplitModule may give: linked symbols share a slot, clusters of more than one
symbol are spread over the slots (`Spread`), and all else is arbitrary, because it is
decided by the MD5 of module identifier and name. Each module that is split has its own
identifier (`UniqueIds`), so a fresh arbitrary choice at each split loses nothing.

`Decompose` has one action per step of `SplitWhileUseful`:

| action | code |
|---|---|
| `PopModule` | take `ModQ.back()`, externalize in the second pass, call SplitModule (159-167) |
| `KeepPart`, `DropPart` | the lambda, for a useful and for an empty partition (168-180) |
| `AssertFails` | one of the assertions fails in a build with assertions (182-186) |
| `Requeue` | the split was useful, its parts stay on the stack |
| `AddToSecondQueue`, `WriteFragment(ok)` | a single part is left (188-195, 202-204, 216-248) |
| `SwapQueues`, `Return` | the end of a pass (210-211, 254-256) |

The constants `Asserts` and `WriteMayFail` choose the build and the callback: the one that
writes files may fail, the one that appends to a tar cannot report it. The variable
`delivered` records the calls of the callback.

`Decomposition` is the abstract promise: blocks of symbols are cut into smaller ones,
never between tied symbols, and each uncut block is written once, until none is left.
Decompose implements it with the module being split still whole until all its parts
exist (`ImplementsDecomposition`).

### SplitModule

The detailed model of one call. `users` gives the users of every value, and
`GlobalValueUsers` is what the worklist reaches through pure constants, written as the least
set that is closed under it. The inputs are `WellFormed`: only definitions use anything, an
alias has a definition as its base, an ifunc is in no comdat and only functions have blocks,
which LLVM's verifier and `getComdat` see to. `RecordGVSet`
is called for functions, then variables, then aliases, in every order within a kind;
`classes` is the union-find structure. `AssignCluster` takes a largest cluster left and a
least loaded slot. The hash is chosen when it is first needed. `AnswersAsExpected` shows
that the result is one of `Placements`, which joins this model with `Decompose`.

Names are given by `Externalize` to everything, ifuncs included (199-209, 242-260), or, when locals are
preserved, by `RecordGVSet` (96), which is never called for an ifunc (131-133). So an ifunc that came
without a name and is used from another partition keeps none. `UsedAcrossIsNamed` says which used
definitions have a name, in both directions: all but these (`StaysUnnamed`); the input `UnnamedIfunc`
has one.

Two orders are left open: of clusters with the same size (the code compares a name, so it
is one order, unknown here) and of slots with the same positive load (left open by the
comparison in the code).

### DecomposeAllexes

The main thread (`MakeDirectory`, `Async`, `Wait`, `DestroyPool`, `ReturnSuccess`) and the
workers (`TakeTask`, `Load`, `CreateTar`, `SplitIntoTar`, `AssertFails`, `Lock`, `ReadCount`, `WriteCount`,
`Unlock`, `Stop`) interleave. `ExitOnErr` starts the end of the process from a worker;
all other threads go on until `EndProcess`. An assertion of decompose that fails in
a task (`AssertFails`) aborts: the process ends at once. The pool is LLVM's and modelled from how it is
used: first in first out, `wait` returns when the queue is empty and nobody is at a task,
the destructor joins.

### Progress

`operator++` with `display_tic`. Floating point is modelled by its only effect on a
truncated result: where the exact value is a whole number, the computed one may be
truncated to the number before. Nothing in the code stops a caller from counting on beyond the expected
count, as decompose-allexes may with `-extract-from-allexes`; `MaxBeyond` bounds how far a run does. The bar then
gets more stars, but no second end of line.

### Scan

`foreach_file_in_directory` and the callbacks of `loadFromAllexesIn` and
`loadFromBitcodeIn`. `stack` is the stack of LLVM's `recursive_directory_iterator`, modelled
from how the loop drives it; `Unlink` is somebody else removing an entry at any moment.

| action | code |
|---|---|
| `Start` | the iterator is made (ForEachFile.h 31-37) |
| `SkipUnreachable`, `SkipUnwanted`, `VisitFile` | the body of the loop: `no_push()` and `continue`, `continue`, the callback (39-72) |
| `OpenAllexe`, `AddKnownModule`, `AddModule`, `AddAllexe` | the callback for allexes (79-92 and ABCDB.cpp 41-73), with the assertion that a module names its sources |
| `AddBitcode` | the callback for bitcode (ABCDB.cpp 118-136) |
| `Increment`, `NextEntry`, `LeaveDirectory` | `File.increment(EC)` and the test of `EC` (38, 74-76) |

The status of an entry is asked for twice, by the body and by `increment`, and a directory
is opened twice; a removal may come between any two of these. A module of the database
has the name of the file it was made from (`SourceString`), which need not exist: a module
made of several files has a name that is no file's. A tree is one (`OneParent`): no path is an
entry of two directories, since paths are full paths; a directory that is also reached through a
link is there under another path, with entries of its own.

### Command and Allplay

`Command` is what the subcommands share, and `Allplay` composes it with the four modules
below into one process, from the command line to its end:

| `stage` | what happens | actions |
|---|---|---|
| `"scan"` | the database is loaded, if the command has one | `ScanStep`, `LoadFails` |
| `"modules"` | the modules of the database are read one by one | one action of each command, `ModuleFails` |
| `"emit"` | the output is made of what was read | |
| `"close"` | outputs are destroyed, the last one first | `CloseOutput`, `DiskFull` |
| ended | `"success"`, `"error"`, `"aborted"` (an assertion), `"fatal"` (a buffer that cannot be flushed) | `End` |

`disk` has the state of every output: as before the run, open, complete, cut short or
absent. An output of the exporters is a `tool_output_file`: created (and emptied) by
`Create`, all of one command together in `open` in the order of their creation (one that cannot be
created leaves what was there), removed by its destructor unless `keep()` was called, removed by the signal handler
when an assertion or a fatal error ends the process. `Vanish` removes a file that modules were
made from, at any moment, between the scan that learns its name and the command that reads it
included; a command that reads a module that is gone fails (`ModuleFails`; cypher names the modules
and reads none). `Content` is what each file holds; `Sessions` are the command lines. The database is made
of allexes, or of bitcode files by `neocsv-decompose` and, with `-bc-scanner`, by the three
commands that have this option (`BCScanners`).

### Exports

`neocsv` and `neocsv-decompose` write tables whose rows are numbered by `GlobalID`
(Neo.cpp 85-204, NeoDecomposed.cpp 79-170): one step for each module (`NeoModule`) and, for
neocsv, one for each allexe (`NeoAllexe`). `cypher` writes statements, modules in batches
(Cypher.cpp 24-96). `Executed` is what running those statements leaves in a graph database,
in which a match finds every allexe of that name. `BatchSize` is 500 in the code, and any positive
number here (`ExportsAssumption`).

### Reports, Toml and TomlText

`asmscan`, `finduses`, `finddirectuses` and `toml`. The list of modules by how often they occur may have any
order among those with one count (`MostFrequentFirst`). The document they print is a function from
paths to items (`Toml`). `TomlText` is about its text: `Written` is what `toml_writer` produces, as a
sequence of characters, quoting, escapes and the `endline_` flag included (cpptoml.h 3328-3662), and
`Read` what the parser makes of such a text. allplay never parses: the parser serves to
say that what is printed means what was meant (`ReadsBack`). Both are recursive, so they are a
module of their own that only the runs use; the proofs reach `Toml` alone.

### StringGraphs

`StringGraph` is the graph left by `addVertex` for some vertices in turn and `addEdge` for some
edges: a name stands for the last vertex with it, and `GraphAborts` says exactly when an
assertion fails. `graph` draws allexes and modules. `functionhashes` sorts all functions by
hash, in any order among equals (`Sortings`: the code's sort is not stable), groups neighbours as
ranges-v3's `group_by` does, and prints groups, draws one of the graphs of `KindOfGraph` or writes a
table (`HashSort`, `HashEmitGraph`, `HashEmitCSV`; `Adding`, since printing comes before writing).

### Bundles

`combine`, `uncombine` (by itself, and on what combine wrote), the entry of `decompose` that
writes into a directory, and `printsource`. These use plain streams: a failure leaves what was
written. The fragments decompose writes are the `parts` of the module; how they come about
is `Decompose`. `FragmentsAreNumbered` says what a decompose that succeeds leaves: the `Fragments` it
counted are complete and all else is as it was. With assertions these are all of them; without, a fragment that cannot be
opened is passed over (`PassedOver`, Decompose.cpp 243-247), and what an earlier run left under its number stays
there. `RoundTrip` is two properties: `UncombinedInOrder`, of any uncombine, and
`UndoesCombine`, of one that follows combine. `NamesSort`, a part of the first, says of all modules
of the input that their padded numbers have one length and differ.

## The runs

| run | shows | bounds |
|---|---|---|
| `decompose_safety` | type, conservation, linkability, tightness, unique identifiers, counted calls, progress | six inputs of at most four symbols, 3 partitions, assertions on, writes may fail |
| `decompose_refines` | implements `Decomposition` with its liveness as long as writes succeed; terminates whatever fails | all inputs, assertions off, writes may fail |
| `decompose_empty` (violation) | a module without definitions meets the first assertion | all inputs |
| `decompose_write_error` (violation) | a failed write is reported as success | assertions off |
| `split_module` | `Placements` is what the code answers; balance; names, of unnamed ifuncs too | six modules with every construct, 2 partitions, both values of `PreserveLocals` |
| `split_local_ifunc` (violation) | a local ifunc is separated from its user | one module |
| `pool` | success means all done, display alive, no lost tick; the process ends | 3 workers, 3 modules, 2 allexes, both modes, failures and failing assertions in every task |
| `pool_extract` (violation) | fewer modules decomposed than announced | 2 workers |
| `scan_breaks` (violation) | one refused entry ends the scan | three trees, no removals |
| `allplay` | the scan loads all there is, and fails for a cause; tables, queries, reports, graphs and bundles show the database; outputs are all or nothing; assertions fail only where said; the process ends | trees of up to six paths, four bitcode files, three modules, one removal, batches of 2, both builds, outputs that cannot be created, full disks |
| `pairwise_weights` (violation) | the pairwise graph that is written has no weights | two databases |
| `progress` | bar complete exactly at the end, proportional before | expected counts to 130, counting to 20 beyond |

**Why the bounds are enough.** The code asks for 11 partitions. What distinguishes cases is
whether a split leaves zero, one or several parts, whether there are more clusters than
slots, and whether symbols without links collide; four symbols in three slots have them all,
and parts are split again up to three times. The inputs have each kind of link, locals
that are shared by chains, and each kind of assembly. Two slots with three clusters make
the balancing queue use a slot twice. Three workers are one more than are needed for a lost
update or a failure while another is active and a third idle. For the display, 50 stars
are fewer than, equal to and more than twice the counts up to 130, with and without exact
divisions. The trees have, between them, each status an entry can have, allexes that share
a module, one bitcode file under two paths, a module that cannot be read after one that
can, an empty and an unreadable root, allexes with one short path, an allexe with a module
twice, modules made of no file, of one and of several. One removal can hit a directory on
the stack, one that is about to be entered, or a bitcode file between scan and use; a second
one would repeat this, since all that is done about it is decided entry by entry. The
bitcode files have functions that are called, used otherwise and used by constants; hashes
within one file, shared by two and by three, with equal and with different sizes; both kinds
of assembly, with and without a name. Three modules make a full batch and a
started one; eleven parts make the names of uncombine one digit longer.

**Fairness.** decompose is sequential: weak fairness of its next step says that the program
keeps running. The pool has weak fairness for the main thread, for each worker (the
operating system runs every thread) and for the end of `exit`. A worker that is locked out
gets the mutex because there are finitely many tasks. A run of any other subcommand is
sequential as well: weak fairness of `AllplayStep`, and none of the removals, which nobody
need do.

## The proofs

`DecomposeProofs` proves, for every set of symbols, number of partitions (at least two),
set of inputs and choice of build:

- `TypeCorrect`: `Spec => []TypeOK`, and `CallsAreCounted`: `Spec => []SplitCounted`. They are
  proved together as `TypeInv`: the part left by a failed split can be taken off the stack
  only because the stack grew by `Count`.
- `Conservation`: `Spec => []ExactlyOnce`. For a fixed item the places it can be at are
  followed through each action (`OncePop`, `OnceKeep`, ...); `InPush` and `InPop` say what a
  push and a pop do to them, `RestAdvances` what one call of the lambda does to the rest of
  the module being split, `PartAtIdx` that the partition is what leaves the rest.
- `Linkability`: `Spec => []Linkable`. The strengthening is `LinkInv`: each module by itself is
  `SelfContained`, and the placement in use keeps links; `LinkedSlots` shows that any union
  of slots of a self-contained module is self-contained.

It also proves the rest of what is stated of splitting, each from a strengthening of its own:

- `SplittingShrinks`: `Spec => []PartsShrink`, from `ShrinkInv`: the parts of the module being split
  that are on the stack are not empty, have only items placed before `idx`, and are disjoint.
- `IdentifiersUnique`: `Spec => []UniqueIds`, from `IdInv`. Being different is not enough, since a split
  appends to identifiers: they have to be `Apart`, none a prefix of another (`ApartExtended`,
  `SiblingsApart`).
- `StuckMeansOneCluster`: `Spec => []Tight`, from `TightInv`: while one part was kept, all that was handed
  over is in its slot. Two clusters in one slot would mean that no slot is without one (`Spread`),
  and there are two slots at least (`SlotUsed`). It is about clusters: symbols in none may be written together
because the hash sends them to one slot.

Its last part proves `RefinesPromise`, the safety of the refinement: decompose starts where
`Decomposition` starts and each of its steps is a step of it or a stutter. `PopStutters`,
`LambdaStutters`, `SecondQueueStutters`, `SwapStutters` and `EmptyStutters` are the stutters;
`RequeueRefines`, `WriteRefines` and `ReturnRefines` the three steps. They need all invariants above:
that other pending modules share nothing with the one being split is `Conservation`
(`OthersApart`), that the parts make it up is `BlockInv` (`PartsMakeUp`), that no tie is cut is
`LinkInv` (`TiedInOnePart`).

`DecomposeAllexesProofs` proves the safety of the pool for every number of workers and set of
tasks: `PoolTypeCorrect`, `DisplayOutlivesTasks`, `TicksCounted` and `SuccessIsComplete`, all of them
from the inductive invariant `PoolInv`. Its parts, each needed by the next:

- `DisplayInv`: the display lives exactly from the first task's queueing to the end of the wait,
  and a worker has a task only then. This alone gives `DisplayAlive`.
- `QueueInv`: tasks are queued in order and taken in order, so what is queued and not yet taken is
  an interval; `TaskInv`: two workers are never at one task, nor at one that is done (`TakenSame`,
  `TakenNext` follow the interval when its head is taken).
- `TarInv`: the tar of a task is complete exactly when its worker is past the split.
- `MutexInv`: the worker that read the count is the one that holds the lock, so that the count it
  writes is the one it read plus one; with it `NoTickLost` is preserved.
- `EndInv`: all tasks are queued before the wait, and after it none is left. `JoinedMeansAllDone`
  draws the conclusion that `SuccessMeansAllDone` needs at the return.

`ProgressProofs` proves both properties of the display, for every expected count and whichever way
each floating point result is truncated: `BarIsComplete` and `BarIsProportional`, from `ProgressInv`. Its
core is `TicInv`, which holds until the last unit is counted: there are as many stars as tics, the
next tic is due where the fiftieths of the work say or at most one unit before, and the fiftieth one
is due at the end and not before. Beyond the end only stars are added (`BeyondKeeps`): the number of the tic that is due is past 50, so no
other line begins. The rest is arithmetic (`TimesMonotone`, `TimesStrict`).

`ScanProofs` proves three properties of the scan, for every set of trees:

- `DatabaseStaysConsistent`: `Spec => []DatabaseConsistent`, from `DataInv`. What makes it inductive is
  that `adding` is empty between two allexes (`NothingLeftOver`), so nothing is forgotten when the
  next one is opened.
- `FailureHasACause`: `Spec => []FailsForACause`, from `QuietInv`: as long as nothing is removed, all that the
  iterator has open is visible, and `increment` meets the status that the body of the loop has
  seen unless `no_push()` was called (`QuietIncrement`).
- `EverythingIsLoaded`: `Spec => []AllLoaded`, from `FoundInv`: there is a set X of entries the loop is done
  with. Between two steps all that is in the root or in an open directory of X is in X or is still to
  come (`CoverInv`), so when nothing is to come X has all that is visible, and what was loaded of each
  file in X is what it names. No path is met twice, because it has one parent (`OnceInv`), and no
  bitcode is added twice (`BitcodeInv`). What can be seen only shrinks meanwhile (`ViewShrinks`).

`SplitModuleProofs` proves all five properties the run checks of one call of SplitModule, for every
set of well-formed inputs and number of partitions (at least two):

- `EachDefinitionOnce`: `Spec => []SplitsOnce`, from `SplitInv`: once the clusters are placed each definition
  has exactly one slot (`SlotOf`), by its cluster or else by the hash, and the partitions cloned so far
  have what the slots of the same number have (`ClonedParts`).
- `NamesAgree`: `Spec => []UsedAcrossIsNamed`, from `NameInv`: a definition without a name is one that `recordGVSet`
  or `externalize` has still to be called for, of which none is left when cloning starts, or an ifunc that came
  without one while locals are preserved; and such an ifunc never gets one.
- `PlacesAsExpected`: `Spec => []AnswersAsExpected`, the answers are those `Decompose` assumes. While
  sets are recorded (`RecordInv`), classes are disjoint (`ClassInv`), the first member of a comdat that was
  recorded is remembered and the others are with it (`MembersInv`, `RecordedInv`), and any set that is closed under
  links is a union of classes and of single symbols (`ConnectedInv`), so that in the end the
  classes are the clusters. While clusters are placed (`AssignInv`), a slot has load exactly if a
  class was placed in it (`LoadInv`), and the classes placed are no smaller than those left
  (`SizeInv`), so that one slot gets two clusters of more than one symbol only when every slot
  has one (`SharedOnlyWhenFull`).
- `SlotsAreBalanced`: `Spec => []Balanced`, also from `AssignInv`: the slot chosen is a least loaded one,
  so it exceeds no other by more than the cluster it gets.
- `TypeCorrect`: `Spec => []TypeOK`, from all of these and `ControlInv`.

`AllplayProofs` is about whole processes, for every tree, command line and content, with files that
vanish at any moment and outputs that cannot be created or flushed. The actions of all
subcommands are first shown to be steps of a few kinds, by what they do to the scan, the
outputs and the position among the modules: `Starts`, `Opens`, `Reads`, `Continues`, `Sorts`, `Emits`, `Gives`,
`Aborts`. Each invariant is followed through these instead of through every action:

- `ScansAreSound`: the three properties of the scan hold in every process. `ScanInv` is their
  invariants together; what the commands do after the scan leaves its variables alone, and
  `Vanish` can only shrink what is visible.
- `OutputsAllOrNothing`: `AllplaySpec => []AllOrNothing`, from `OutputInv`: outputs are complete only if
  they were to be kept or the process died while it closed them, and absent only if they
  were not (`KeptInv`); those of neocsv are all open or complete while it writes
  (`NeoInv`); that of combine is untouched until all was read (`CombineInv`).
- `AllplayTypeCorrect`: `AllplaySpec => []AllplayTypeOK`, with `PositionInv`: how far the process is among the
  modules of the database or among the parts of its input. That what the disk
  shows as open is what the process has open is part of it.
- `FragmentsNumbered`: `AllplaySpec => []FragmentsAreNumbered`, from `FragmentInv`: the complete files are
  the fragments up to the current one. With assertions these are all of them, for one that could not be opened
  has aborted the process; without, those that could not be opened are as they were.
- `TablesAreImportable` and `TablesAreRight`: `AllplaySpec => []TablesImportable` and `[]TablesShowDatabase`,
  from `TablesInv`. While the tables are written the numbers given are different
  and below `GlobalID` (`NodesInv`), relationships refer to modules that were read and to rows that were
  written (`RelsInv`), and the rows of each module read so far say exactly what its file
  holds (`ImportedInv`); the rows of later modules do not change that, because the numbers of two
  modules differ (`DifferentModules`): they are positions, or checksums, which `DataInv` keeps
  unique. That the module an allexe contains has a row needs `DataInv` as well.

`GraphsProofs` continues `AllplayProofs` with `graph` and `functionhashes`. Half of it is about data, for
none of the recursive or choosing operators of the community modules can be reasoned about by
induction here. What stands in for it is a set of numbers that has 0 and all successors
(`SetInduction`, from the least number outside it), and functions on such sets that solve the equation of a
fold (`FlatSolution`, `SumSolution`, `SortSolution`). They give what `FlattenSeq` returns (`FlattenFirst`,
`FlattenPlaces`), the numbering of a finite set of positions by `Nth`, what a sum over a set adds
(`Total`), that every `Sortings` of a list is one (`SortFacts`), and that groups of neighbours
are then the classes of equal hashes (`GroupFacts`, `HashGroups`).
On these rest:

- `GraphIsDatabase`: `AllplaySpec => []GraphShowsDatabase`, from `GraphInv`. If short names differ the index
  of a name is the position of its vertex, so the edges of `StringGraph` connect what they name.
- `FunctionsAreReported`: `AllplaySpec => []FunctionsReported`, from `HashInv`: while modules are read, the list
  holds each definition of those before `next` once (`ReadSoFar`, by a bijection `Lists`); afterwards it is in the
  order of hashes, whichever sorting was taken, and the groups are its classes (`AllSorted`).
- `HashGraphsAreRight` and `PairwiseIsRight`: `AllplaySpec => []HashGraphRight` and `[]PairwiseRight`, also from
  `HashInv`. For the merged graph the hashes of one set of files are one vertex, whose size is the sum of the
  averages; for the pairwise one, the weight of an edge is the sum over the hashes both files have.
- `GraphsAbortForCause`: `AllplaySpec => []GraphAborts`: the stage `"aborted"` is reached from the scan or
  because two vertices have one name, and what that means is said of the inputs.

`ReportsProofs` continues `GraphsProofs` with the three searches, cypher and bundles, for every database
and content:

- `AsmIsReported`: `AllplaySpec => []AsmReported`, and `UsesAreReported`: `AllplaySpec => []UsesReported`, from
  `SearchInv`. While modules are read (`AsmInv`, `UsesInv`), the checksums remembered are exactly those
  of the modules read so far that have the property searched for, and the document holds the
  table of each of them (`AsmTableFacts`, `CallTableFacts`). A document is a tree: inserting a table under the file
  of one module keeps those of the others, because the files differ (`InsertKeeps`). At the end
  sets of checksums are compared with sets of modules, and positions in allexes with allexes
  (`CountCRCs`, `Matching...`, `OccurrencesOf`): checksums are unique in the database by `DataInv`, so these are bijections.
- `QueriesAreRight`: `AllplaySpec => []QueriesShowDatabase`, from `CypherInv`. While modules are named, the text
  creates exactly those before `next`, and the statement that has not ended creates `idx` of them, fewer
  than a batch (`Batched`). The text at the end is described by where its allexes and relations
  start (`Described`), and executing such a text leaves the database (`DescribedShows`).
- `UncombineUndoesCombine`: `AllplaySpec => []UndoesCombine`, from `RoundInv` and `FilesInv`. The buffer of combine
  is the modules of the files before `next`; what was written is those of all files, though files may
  vanish once they were read; and the files of uncombine are a prefix of what it takes apart, complete
  unless the disk is full.
- `RoundTrips`: `AllplaySpec => [](NamesSort => RoundTrip)`. To the provers a string has no characters, so
  that padded numbers differ and are equally long is a hypothesis here. It is about data only: `mem.parts` does not
  change while uncombine runs. `RoundTrip` itself has `NamesSort` as a part, so the run checks it
  for inputs of up to eleven modules. All the rest, whatever fails, is proved.

The assumptions are those the modules declare, each checked by a run: at least two partitions; `"asm"`
is not a symbol; there are finitely many symbols, and the constants used for other things are
none; inputs are modules, and of SplitModule well-formed ones; the root is a path, and a path has
one parent; checksums and the bounds of the runs are natural numbers; the fixed names of outputs
are outputs; sessions are command lines on these trees, and contents are typed; no two functions of a module
have one name (LLVM's symbol table); a batch of statements has at least one. The bounds
`MaxExpected`, `MaxBeyond` and `MaxGone` are arbitrary, so none of the theorems depends on them.

Only model-checked:

- Liveness, which is out of the prover's reach: `Ends` of the pool and of the subcommands,
  `Termination`, and of the refinement that every block is written in the end.
- `NamesSort`, the part of `RoundTrip` that is about the digits of names.
- `ReadsBack`: the writer and the parser of TOML are recursive on documents of any depth, and
  recursive operators exclude a module from the proofs; what they compute for every document would
  need an induction over it.

All other invariants and action properties that the runs check are proved.

## Findings

1. A module without definitions (declarations only) fails the assertion
   "all partitions empty?!"; without assertions nothing is written (`decompose_empty`).
2. In a build without assertions a failed write of a fragment is printed and dropped
   (`decompose_write_error`). Where the fragment could not be opened, a file that an earlier run left under its
   number stays and looks like this run's (`PassedOver` in `FragmentsAreNumbered`).
3. `findPartitions` does not visit ifuncs, so a local ifunc may be separated from its users
   with `PreserveLocals` (`split_local_ifunc`). For the same reason an unnamed ifunc that another partition uses
   keeps no name with `PreserveLocals`, though SplitModule.cpp 205 says that unnamed entities must be named
   consistently between modules (`StaysUnnamed` in `UsedAcrossIsNamed`). Decompose's model is of inputs without
   local ifuncs.
4. With `-extract-from-allexes` the announced number of modules and the display do not count
   what is done (`pool_extract`).
5. An entry whose status is refused, other than because it does not exist, is not skipped:
   the whole scan fails (`scan_breaks`).
6. The numbers of shared instructions that the pairwise graph computes for its edges, and
   announces in its help, are never written: the format of an edge has no place for
   attributes (`pairwise_weights`).

Met while modelling, and stated as they are in the properties, since no text says otherwise:
a file whose functions are not neighbours in the order of hashes gets two vertices in the
pairwise graph, and a build with assertions ends (`GraphAborts`); with `-bc-scanner` asmscan
counts all modules as one, since their checksums are 0 (`AsmReported`); finddirectuses counts
an allexe as often as it holds the module (`UsesReported`); cpptoml writes a control character
as an escape that its parser does not read (`ReadsBack`); two allexes with one short path are
one to the queries of cypher (`QueriesShowDatabase`); `-write-csv` is not looked at when
`-write-graph` is given.

## Not modelled

- `ABCDBOnDisk.cpp` is a stub. The registry that maps the name of a subcommand to its function
  is filled by static initializers and not changed; in the model it is the name in `cmd`.
- cpptoml: numbers, dates, inline tables, arrays of tables, multi-line strings and
  indentation, none of which allplay makes, and the parser on texts that are not the writer's.
- Data and layout: quoting in CSV, percentages, font sizes and colours, the constraints and indexes of
  cypher, names of symbols, the header of a bitcode file, the rewriting of identifiers by
  `-strip-source-info`, the setters of module flags (called from nowhere), `csv2sqlite.sh`.
- Checksums and hashes that collide: a checksum is the identity of a module, a hash that of a
  function's body.
- `TarWriter`, whose failures the code cannot see; debugging options (`-dump`, `-verify`, whose result
  the code ignores); `-llvm-splitmodule` (LLVM's own splitter); what is inside an allexe; the
  build files.

## Plan

1. (done) `Decompose` with its promise, `SplitModule`, `DecomposeAllexes`, `Progress`, `Scan`; type
   correctness, conservation and linkability of `Decompose`.
2. (done) `Command`, `Exports`, `Reports`, `Toml`, `StringGraphs`, `Bundles`, composed with `Scan`
   in `Allplay`.
3. (done) The safety of the pool, proved for any number of workers and tasks.
4. (done) The rest of the safety of `Decompose` and of its refinement of `Decomposition`.
5. (done) The consistency of the database, and that a quiet scan fails for a cause only.
6. (done) All that is stated of a call of SplitModule, so that `Decompose` rests on a proved answer.
7. (done) The display; that a scan finds everything; types, outputs, fragments and tables of whole
   processes.
8. (done) What the three searches report, for every database.
9. (done) Graphs, function hashes and queries, for every database; that uncombine undoes combine.
10. Left: a lemma library on decimal numerals as sequences of digits, with which the names of uncombine
    could be said without strings; a writer of TOML as a recursive function on the depth of a document.
