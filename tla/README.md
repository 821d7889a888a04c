# Mojito: a TLA+ verification project

Mojito is a compiler for a subset of Mojo, written in Rust. Source text is
lexed, parsed, checked, elaborated and lowered to MIR, a register IR whose
control flow is a tree of regions. MIR is run by a register VM, which is the
oracle of the language, or specialised and lowered through Pliron to LLVM and
run natively with a small runtime. A compiled standard library is cached on
disk and shared by every compiler process; its function bodies are finished
lazily and shared by the threads of a process.

This directory models the parts of the system whose correctness depends on the
order of many steps: memory management on both backends, the VM's region
cursor and call frames, the elaboration of drops, the worklist of the native
specialiser, the linking of modules, the package cache and the lazily finished
package bodies. Every module
is written from the source; the lines each definition stands for are in
`PROJECT.json` under `map`.

To check a run: `tlc -workers 2 -config X.cfg M`. To check the proofs:
`tlapm MProofs.tla`.

## Inventory

For each component: its state, its operations, whom it talks to, what is hard
about it, and what makes it correct. Paths are relative to `src/`.

| Component | State | Operations | Interacts with | Hard behaviour | Correct when | Module |
|---|---|---|---|---|---|---|
| Allocation registry (`crates/mojito-runtime`) | a fixed table of allocation records behind a mutex; the system allocator | `mjrt_alloc`, `mjrt_free`, `mjrt_dealloc`, `mjrt_pointer_status` | called by generated code, from any thread | the block is taken before the lock and released after it; addresses are recycled; the table fills up | every release is of a block handed out, once, with its layout; owned memory is classified live | `AllocRegistry` |
| VM heap (`crates/mojito-vm/src/backend/vm.rs`) | an arena of allocations, each a vector of slots and a vector of never-written marks | alloc, free, read, store, take, destroy, bytes, projections | called by the interpreter; destroying runs user code that calls back | re-entrant destructors; tombstones forwarded through containers; i64 offsets | each value has one owner; the two vectors stay in step; freed stays dead | `VmHeap`, `RawStorage` |
| Pointers on both backends (`crates/mojito-pliron/src/lower/pointers.rs`) | the state of both of the above | alloc, free, subscript | the same program on either backend | native code knows addresses, the VM knows provenance | what the VM accepts runs natively; what it rejects traps while memory is not recycled | `PointerParity` |
| Region cursor (`crates/mojito-vm/src/backend/vm/regions.rs`) | a stack of levels, one per region | enter, advance, transfer, catch | the frame driver; the verifier's checks made earlier | two independent searches resolve one exit | the cursor never leaves the tree, and values go where they were checked to go | `VmRegions` |
| MIR verifier (`crates/mojito-mir/src/mir/verify`) | none | region, value, type and parameter rules, slot ends | runs before every consumer of MIR | each consumer relies on a different part of it | what it admits, no consumer gets lost in | `VmRegions` (regions), `Lifetimes` (slot ends) |
| Frame driver (`crates/mojito-vm/src/backend/vm/frames.rs`) | a stack of frames with registers and pending results | `drive_frames`, calls, returns, raise edges, synchronous callbacks | everything in the VM | nested activations over one stack, frames copied or moved while their instruction calls, unwinding | a callee ends in its own caller; an error leaves nothing behind; no write through a reference is lost | `VmFrames` |
| Ownership analysis and drop elaboration (`crates/mojito-analysis`) | a move state and a liveness set per point, on the region tree | lifetime scan, drops before stores, last-use drops, receiver refinement | reads lowered MIR, rewrites it; the verifier checks it again | loops, raises, partial moves, arms that end different parts; no drop flag at run time | every owned value is destroyed exactly once on every path, after its last use | `RegionTree`, `Lifetimes`, `DropElaboration`, `DropMachine` |
| MIR optimisations (`crates/mojito-mir`, `crates/mojito-analysis`) | the function, worklists, the call graph | SCCP, CSE, mem2reg, SROA, inlining, dead symbols, duplicate functions | run in a pipeline, per function or per program | fixpoints; passes that invalidate each other | meaning is kept; termination | planned in part |
| MIR lowering (`crates/mojito-lowering`) | the function under construction | one case per construct | checked HIR to MIR | none beyond its size | meaning is kept | not modelled |
| Package bodies (`crates/mojito-mir/src/mir/text/package.rs`) | a OnceLock per body, a memo of cycles, a thread-local list of rows being finished | `get`, `finished`, `on_cycle`, `finishing_body` | the finishing hook asks for other bodies; every compilation of the process | nested OnceLocks of several threads; cycles that a finish closes | no re-entry, no deadlock, the same body whatever the order | `PackageBodies` |
| Native specialiser (`crates/mojito-native/src/native/mono`) | instances and their states, a queue, the references of each body, memos of compile-time answers, fuel | `demand`, `enqueue`, `drain`, `materialize`, `demand_application`, `materialize_closure` | runs compile-time applications on the VM in the middle of a body | nested materialization over one scratch state; errors that are dropped; recursion; budgets | each body once, under its own bindings; a run is of complete bodies; the verdict is the program's; terminates | `Specializer` |
| Pliron/LLVM lowering, JIT | an LLVM module | instruction selection, linking, running | the runtime | data, and external libraries | the VM and native agree | pointer guards only |
| Checker and type system | interned types and parameter expressions, scopes | inference, unification, conformance | HIR | recursive data of large size | soundness | not modelled |
| Comptime elaboration | folded constants | evaluate, fold | the checker | evaluation on the VM, its fuel and its nesting are the specialiser's | terminates; one answer per question | fuel and nesting in `Specializer` |
| Module loader and linker (`crates/mojito-module`) | modules loaded and loading, their exports, what a recording keeps | `load_module`, `load_packaged`, `resolve_pending`, `force_pending`, imports | parser; the package, in place of source | import cycles, lookups in a module still loading, namespaces copied early, replay of a record in another order | a name is bound to what it stands for, whatever is entered first; declarations in dependency order; linking ends | `Linker` |
| Lexer and parser | indentation stack, token position | next token, productions | text to tree | indentation edge cases | one tree | lexer's stack planned |
| HIR and symbols | symbol tables | translation | parser to checker | none beyond its size | names resolve | not modelled |
| Package cache (`src/package.rs`) | a directory: package, lock and partial files | look up, lock, build, write, rename, prune, unlock | other compiler processes, of this build and of others | every call may fail, every process may die, locks are broken by age | no reader sees a partial package; everyone is served | `PackageCache` |
| Driver and artifacts (`src/`) | files, child processes | commands | all of the above | I/O | | not modelled |
| Standard library (`std/`) | | Mojo source | interpreted by the pipeline | | | a program, not a part |

The hazards the properties are aimed at are listed, each at its line, under
`hazards` in `PROJECT.json`.

## Modules and how they correspond to the code

```
AllocRegistry ----------+                     RawStorage
  ^                     |                        ^  refinement
  | proofs              +--> PointerParity <-- VmHeap <-- VmHeapProofs
AllocRegistryProofs          (INSTANCEs both)
  |                            ^ proofs
  +---- its lemmas ----> PointerParityProofs

VmRegions <-- VmRegionsProofs      Specializer <-- SpecializerProofs
VmFrames <-- VmFramesProofs        Linker <-- LinkerProofs

PackageBodies, PackageCache <-- PackageProofs  (EXTENDS both)

RegionTree <-- Lifetimes <-- DropElaboration <-- DropMachine
 (syntax)       (the scans)   (the rewriting)     (all of it, and the run)
```

`MC*` modules only define constants for TLC.

**AllocRegistry.** `records` is the table of `AllocationRecord`s. `blocks` is
the memory the system allocator has handed out (external: it may return any
aligned block that overlaps none in use, or null, which is how addresses come
to be recycled). A call of `mjrt_alloc` is `mjrt_alloc_system`, without the
lock, then `mjrt_alloc_record` or `mjrt_alloc_full`, under it; a call of
`mjrt_free` or `mjrt_dealloc` is `MarkFreed`, under the lock, then `release`
without it. `pending[t]` is the half-done call of a thread. A trap is a final
state, as `trap` exits the process. `handles` and `misused` are history: the
pointers the program was given, and whether it has broken a `# Safety`
contract.

**VmHeap** and **RawStorage.** `heap` is the VM's arena; one action per heap
operation, with the error each check reports in the order the code makes the
checks. `heap_destroy` moves the value out and starts its destructor
(`running`); any heap operation may follow before `drop_named_returns`, so
destructors re-enter the heap to any depth up to `MaxNesting`. `regs`,
`destroyed` and `leaked` follow where a value is. RawStorage is the contract
in terms of slots that are raw, taken or full, and of owners; VmHeap refines it
with each slot's state computed from the two vectors.

**PointerParity** runs one program on VmHeap and AllocRegistry at once. Its
actions are conjunctions of theirs, with the code's own guard in front: the
native subscript classifies the pointer before the index is added.

**VmRegions.** `body` is a function as a map from region paths to blocks;
`Verified` is the verifier's rules for region ops and terminators, translated
with its own search up the tree (`enclosing_loop`, `enclosing_case`,
`raise_target`). `levels` is `RegionCursor.levels`; `transfer` is one action per
terminator, translated with the cursor's own search down the levels. `moved`
records which list of registers the last move bound. Conditions are a
nondeterministic choice. Comptime regions are folded before the VM runs and are
left out, as are the values themselves.

**VmFrames.** `frames` is the VM's one stack, `activations` the calls of
`drive_frames` in progress on the host's stack, each with the frame it has
popped. A direct call pushes the caller and the callee; a synchronous one starts
an activation, and differs in what it pushes before: nothing (`call_frame`), a
copy of the caller (`call_mirrored`), or the moved variables of the caller and
of the frame just returned (`clone_value_with_reachable_frames`). `resume` is
the end of such a call: `call_frame_with_id` truncates after an error, the views
come off, the variables come back, and the calling instruction's raise edge
takes a raise or lets it out. What a frame does next is any step, so every
program over these calls is covered; its variables are a count of writes, with
the true count kept in `written`. The position inside a frame is VmRegions'
cursor; a reference into a frame that is not on the stack is an error.

**PackageCache.** One step per file-system call of `load_or_build` and `prune`,
a `Fault` for each that may fail. Files have an identity apart from their name,
so that a rename, a removal and a mapping of an open file mean what they mean
to the operating system. `Crash` kills a process and both its calls. `Age` lets
a lock grow older than `STALE`: always if its owner has ended, and while it
builds if `SlowBuilds`. `overruled` is history: a lock has been taken for
stale. `import` of a whole package is taken to succeed: the
path holds the build identifier.

**PackageBodies.** A package is a call graph of lowered bodies (`calls`), the
calls that finishing adds (`late`) and the rows that do not lower (`broken`);
`Init` chooses any. `decoded` is the OnceLock per row, `cycles` the memo of
`on_cycle`, whose walk is one step per body so that walks of several threads
interleave, `FINISHING` the thread-local. `ClosesCycle` tells the packages in
which finishing closes a cycle that the lowered bodies do not have.

**RegionTree, Lifetimes, DropElaboration, DropMachine.** RegionTree is the part
of MIR that drops depend on: slots of each kind (local, owned, `deinit`, `mut`
and `read` parameters, an initializer's receiver, the error a raise leaves
with), the instructions on them, and the six region ops with their terminators.
Lifetimes is the forward walk of `region_walk.rs` with the transfer functions of
its three clients in one state: the move states of the lifetime scan, what has
been ended, and what the verifier's `slot_ends` holds. DropElaboration is the
backward walk: one bit for a slot and one for each of its fields, `unify` where
arms meet, the fixpoint of a loop, and the drops that `Splice` places; the walk
and the splice are one recursion. DropMachine takes a function through the
passes in the order of `elaborate_drops_function` and then runs the result
along every path, with no more than the slots' contents: a drop of a hole, a
definition over a value and a value left at the exit are what its properties
exclude. A body is excluded where the code is known to disagree with itself
(`Admits`, and the `Decided` definitions; see below).

**Specializer.** `instances`, `states`, `queue` and `references` are the fields
of the struct. The recursion of `materialize` and `demand_application` is
`stack`, of two kinds of frame: a body being materialized, and a demand that
closes over the references of an instance before it runs it. `raised` is an
error on its way up by `?`; some demands drop it. A program gives each instance
what its template asks for before its types are known (`pass`) and while it is
rewritten (`rest`): calls, applications, applications whose error is dropped,
unrolled iterations, and what becomes of it. `enclosing` is whose bindings the
scratch state holds, put aside and brought back by `take_frame` and
`restore_frame`. `made` and `spent` are history.

**Linker.** `linker` is the struct's fields; the mutual recursion of
`load_module`, `resolve_pending` and `force_pending` is `stack`, each frame with
the stage it is to go on at, and `Raise` is `?`, with the one place that drops a
recursive reference. A program gives each module its declarations and its
imports: `from m import n as k`, `from m import *`, and `import m` with the
member its body reads. After a link that recorded, `LinkPackaged` starts another
that reads the records, entered by any module, with any one record torn.
`Denotes` says what each name stands for without any order: the declarations
reached along the imports. A statement is known by its position in its module,
and what a graph reaches is the least closed set (`Reached`), so that both can
be reasoned about.

## What the runs check

| Run | Instance | Shows |
|---|---|---|
| `registry` | 2 threads, 2 slots, 5 cells of memory, sizes 0, 1, 2 and one too large, a good and a bad alignment, 3 pointers beyond null, offsets to 2 | releases are sound and no block is lost; a lawful program meets no pointer trap and its memory is live; freed memory is detected until recycled |
| `vm_heap` | 2 values, 2 allocations, counts -1..2, offsets -1..1, largest integer 1, destructors nested twice | values are linear, freed stays dead; refinement of RawStorage |
| `pointer_parity` | 3 registry slots, memory to cell 8, counts 0..3, indices -1..1, 4 pointers | VM-accepted programs run natively; backends agree on what is alive; rejected uses trap until recycled |
| `vm_regions` | every nesting of three region ops in every region of each other, with every terminator in any region of the innermost | the cursor never loses its position, binds what the verifier checked, and every region starts with its arguments bound |
| `vm_frames` | 5 frames, 1 write to each, calls of every kind with and without a raise edge, errors anywhere | a frame is resumed by its own callee; an error leaves no frame or view behind; writes through references are seen, on raising paths too; none of the driver's internal errors is reached |
| `drop_machine` | one slot of two fields, seven kinds of slot, nine shapes of region tree, up to three instructions in any of their places | every use and every end finds its value; nothing is overwritten or left behind; the verifier's walk accepts the result |
| `specializer` | three instances and a fourth past the budget, up to three items, at most one instance that does not elaborate or run, 5 steps of fuel | the worklist, its states and its bodies agree; fragments are complete; bodies keep their bindings; the verdict is the program's; fuel bounds nested runs; every elaboration ends |
| `linker` | three modules, two names of which one is private, up to three imports and two declarations, then a link from the package with up to one torn record | names are bound to what they stand for; declarations in dependency order; a package stands for its source; every link ends |
| `package_cache` | 2 processes of one build and 1 of another, one death, slow builds, every call may fail | no reader ever finds a package that is being written; the lock excludes until one is broken |
| `package_served` | 3 processes of one build, one death, slow builds, every fault but a failed removal | every live call ends; only a death leaves a lock; mapped bytes never change |
| `package_bodies` | 2 threads, 3 rows, every graph of up to 3 calls, lowered or added by a finish, at most one row that does not lower | no thread re-enters a OnceLock; the cycle memo is right; while finishing closes no cycle, every request returns and bodies do not depend on the order of requests |

Why the bounds are enough. The registry's memory holds at most two blocks, so
every address is recycled, blocks overlap old ones in every way, and the table
fills. Two values tell a duplicated value from a lost one, and two destructors
let the inner one free what the outer one is in. Three nested region ops are
the smallest case in which an exit passes over a region of another kind to
reach the one it names, and in which labels shadow. Five frames let a call
made while a moved frame and the frame just returned are on the stack make a
call of its own that raises. Two waiters and a dead
owner are what it takes to race for a stale lock; `KeepOthers` is 0 (3 in the
code) so that pruning happens with two builds. Three rows give a cycle, a body
on it and a body outside it. One slot is enough for drops because, without
loans, no rule relates the bits of two slots except the order in which they die;
two fields tell a part from the whole, and three instructions give a
definition, a partial move and a use on either side of a join, a back edge or a
raise. Three instances give a call, a demand and the recursion of either
through the third; the fourth meets the budget. Three modules give a cycle and a
module outside it that both of its members import; three imports are a cycle
and a lookup through it.

Deadlock is not checked: each of these systems may legitimately stop (a trap,
the end of the program, all calls answered). That nobody waits for ever is
stated as liveness instead (`Served`, `Answered`, and `Terminates` of the
specialiser and of the linker, which also excludes that either stops halfway).

**Fairness.** `PackageCache`: weak fairness of each call's next step, since a
live process is scheduled and every turn of the loop ends (the wait is a sleep
of 100 ms), and of `Age`, since the clock advances. `PackageBodies`: weak
fairness of a thread's steps inside a call; that a thread makes a call is not
assumed. `Specializer` and `Linker`: weak fairness of the next step, since each
is one thread that waits for nobody. No strong fairness is used.

## What the source says and the code does not do

One is a run that TLC must find violated, with the sentence it is about quoted in
`findings`.

- `joined_holes`: `analysis/moves.rs:596` says that a field moved out of a value
  is written back before the function exits. The scan looks for the hole where
  the paths have met: with the value moved whole on one path, its field on a
  second and the value intact on a third, slot and field both join to maybe
  moved, the body is accepted, and the drop of the whole value on the second
  path meets the hole. The intact path is needed: without it the field joins to
  moved, which the scan sees. The repository keeps such a body in
  `conformance/probes/partial_move_join_imprecision.mojo`.

Other disagreements, seen while modelling and not made into runs.

In the linker (`mojito-module/src/module.rs`):

- `force_pending` (1617) keeps no list of what it is forcing: two modules that
  import everything from each other are forced without end. `Init` leaves out a
  cycle of wildcard imports alone.
- It drops the recursive reference met below one name (1645) wherever it was
  raised, also inside a `load_module` it had begun: that module stays in
  `loaded` and `pending`, is never finished, and its declarations are missing
  from a link that succeeds (`decls` is said, at 868, to hold those of all
  loaded modules). With `a`: from b import x, from c import y; `b`: from a import
  \*; `c`: from d import z, and a declaration of y; `d`: from c import z.
- With `a`: from b import \*, from c import \*; `b`: from a import y; and y declared
  by `c`, a program that enters by `b` links and one that enters by `a` fails,
  though `docs/architecture.md:969` says that a loading module's imports are
  resolved "whatever their order". `DirectLookups` leaves out the programs in which a lookup leads back to
  itself.
- Of two imports of one name, a lookup in a loading module takes the named one
  or the first wildcard and the finished module the last statement, so a peer on
  the cycle may bind another declaration than a later importer (`Unambiguous`).
  A package records either, and where one peer's record does not decode, the
  peer linked from source may then fail on a name imported twice. With `a`: from
  c import \*, from d import \*, import t; `b`: from c import x; `t`: from a
  import x, from b import x; and x declared by `c` and by `d`, the program links,
  and its package without the record of `t` does not.
- `import m as k` is not among the pending imports, so a peer's `from a import k`
  is refused while `a` loads and accepted afterwards.

In the specialiser (`mojito-native/src/native/mono/specializer.rs`), all three
behind an application whose error is dropped (1574); `VerdictExact` and
`FuelBound` are stated for programs without one:

- `demand` (161) is to elaborate all that its entries reach; an instance that
  failed under such an application is passed over by `drain` (769) although a
  call reaches it, and the elaboration succeeds without its body.
- A run that fails there is charged one step of fuel, though
  `mojito-vm/src/crossing.rs:15` calls the quota a hard bound: what was executed
  is taken off only when the run succeeds (1698).
- The failed instance stays among the references of the body that asked for it,
  so a later compile-time use of that body is refused.

In drop elaboration (`mojito-analysis/src/analysis`):

- A `deinit` parameter moved out whole on some of the paths to an exit is
  consumed there all the same (`drops.rs:363`), and the verifier rejects the
  result.
- The else arm that lowering adds to a comptime chain and that nothing reaches
  is given the drop of the whole value, which the verifier rejects
  (`verify/drops.rs:9`).
- A field of an initializer's receiver that only some paths have set is no drop's
  to end: at a raise it is left (`receiver_drops.rs:57`), and a later store
  overwrites it undestroyed (`store_drops.rs:146`), in a loop from the second
  turn on. `docs/roadmap.md:1707` (R1295) records the leak at a raise. Such
  bodies are run: `NothingLeaked` and `NothingOverwritten` except such a field
  and nothing else, and of the fields left at a raise only one that an access of
  the receiver also finds undecided, since otherwise the receiver is ended on
  each path before they meet.

In the cache, the packages and the registry:

- `src/package.rs:244`: of two waiters for a stale lock, the slower removes the
  lock the faster has just taken. By `CachedComplete`, nothing worse than a
  double build follows.
- `src/package.rs:252`: a stale lock that cannot be removed is retried for ever;
  `Served` is checked where locks can be.
- `mir/text/package.rs:195` and `pre_elaboration.rs:147`: two threads that enter
  a cycle closed by finishing at two of its bodies wait for each other for ever.
- A repeated free after the address was handed out again frees the new
  allocation, and traps nothing.

- `docs/native-abi.md:446` says an address within a freed allocation has status
  2; when a smaller allocation takes over the freed one's base, the addresses
  past its end have no record and status 0 (`FreedDetected` states what does
  hold).
- The zero-size pointer of an alignment of 65536 or more is no sentinel and has
  no record, so freeing it traps, though `mojito-runtime/src/lib.rs:145` says
  that every returned pointer is freeable. `LawfulNeverTraps` is about
  alignments below the limit.
- `vm.rs:191` says an in-arena but past-allocation access is permitted;
  `heap_index` refuses it.
- `runtime.rs:805` says that synthetic addresses of distinct provenances never
  collide; an element offset of 2^32 makes them.
- Freeing an interior pointer traps natively as a double free, where the VM
  says that it is no allocation base (`mojito-pliron/src/lib.rs:682`).
- `mojito-pliron/src/lower/pointers.rs:9` says that a native subscript is "the
  VM's unchecked heap read"; it may trap where the VM reads, because the guard
  classifies the pointer before the index is added (`AcceptedRunsNatively` is
  about pointers that stay inside their allocations).
- `package.rs:3` says that the library is compiled once per compiler build; a
  process that looked before the package was there and locked after it was
  builds it again.
- `docs/native-abi.md:456` on `read_line` at the end of input, and the comment
  near `crates/mojito-vm/src/backend/vm/invoke.rs:356` that a free is "a no-op
  in the arena model", are out of date.
- Two threads of one process with a build that outlasts `STALE` share a partial
  file name with no lock between them: `CacheAlwaysComplete` assumes
  identifiers to be distinct for that reason.

## What is proved

The proofs hold for every value of the constants that satisfies the named
assumptions, so for any number of threads, slots, processes or rows, and any
nesting. Of the 40 properties of the runs, theorems state 32.

- **AllocRegistryProofs.** `IInv`, that is `TypeOK`, `IdentityUnique`, and that
  blocks do not share a payload address (`BlocksDistinct`), every live record
  names a block (`LiveBacked`), so does every pending call (`CallsBacked`), no
  two calls have the same one and none has a live record's (`CallsDistinct`),
  and every block is held by one of them (`BlocksHeld`). `ReleaseSound` alone
  is not inductive: that a release is of a block handed out needs that the live
  record it came from named one, which needs that the pending record did.
  From `IInv`: `ReleaseSound`, `BlocksAccounted`, `IdentityUnique`, and the
  action property `IdentityKept`.
  `DetectInv` adds that records lie in memory and that the last pointer given
  out at an address has a record of its size: `FreedDetected`, also for
  programs that break their contracts. `OwnedInv` adds that what a lawful
  program owns is recorded live with its own layout and under one pointer:
  `LawfulNeverTraps` and `OwnedIsLive`. These two assume `SmallAligns`, that the
  alignments asked for are below the sentinel limit, 65536 in the code. The
  pointer of an empty allocation is its alignment, and only below the limit is
  it told from memory; an alignment of 65536 or more makes the free of an
  empty allocation a trap (see above). Every type's own alignment is below it; a
  program that asks for a larger one by name is what the hypothesis leaves out.
- **VmHeapProofs.** Types, `MarksInStep`, `FreedStaysDead`, and `ValueLinear`
  in the inductive form that each value is in at most one place of each kind
  and in exactly one kind of place. From these, `HeapImplementsRawStorage`:
  the computed owner of a value is the one kind of place it is in
  (`OwnerFacts`), the computed state of a slot is told by its mark and its
  value (`SlotFacts`), and so each operation changes the one slot and the one
  owner that its abstract step changes, or, if it fails, nothing.
- **PointerParityProofs.** `AgreeInv` holds until the program ends: what is
  known of the registry alone (`RegistryInv`), how the program's pointers lie
  in memory (`MemoryInv`: blocks do not overlap, a live record is of memory the
  program owns, a freed one is dead until its address is given out again, what
  is owned overlaps nothing given out later), and that each pointer has a VM
  allocation of its length that is live as long as it is owned (`Mirrored`).
  The registry's part is not proved again: the registry's lemmas are cited
  through an INSTANCE of AllocRegistryProofs with `misused <- FALSE`. A program
  that has not ended has broken no contract the registry can see, because the
  VM ends one that frees what it may not and an access changes no memory. The
  step that ends the program then ends it on both sides:
  `AcceptedRunsNatively`, `RejectedUsesTrap`, and `LivenessAgrees` in between.
  `ParityAssumption` asks for a sentinel limit above 1, the alignment used here.
- **VmRegionsProofs.** The invariant is that each prefix of the levels is a
  path of the verified tree and each level stands at the op that holds the
  next (`Positioned`). The searches of the verifier and of the cursor then find
  the same region (`Nearest` of a path against `Innermost` of the levels),
  which gives `NeverLost` and `BindsVerified`; `ArgumentsDefined` follows from
  what each move binds.
- **VmFramesProofs.** Two invariants, one on the other. `StackInv` is the shape:
  activations nest and each has its part of the stack (`Nested`), its root
  lowest and children on it (`Segment`), the frame it holds was the top of it
  (`HeldTop`), and each child lies on its caller (`OnCaller`). An unwinding cuts
  the stack at such a boundary, which gives `NoInternalError` and
  `CallersBelow`. `DataInv` is where the variables are: the frame that has a
  function's own variables is at one place, on the stack, in an activation's
  hands, or moved into a view, and there they are as last written
  (`OnePlace`, `UpToDate`): `WritesSeen`. That a copy may be written and the
  original must follow is why the place has to be unique.
- **SpecializerProofs.** `ElabInv` is four parts. `StackInv`: a body under a
  demand is in the middle of an item that makes that demand, and the scratch
  state is the bindings of the body on top, while an error unwinds as well
  (`OwnBindings`). `WorkInv`: an instance is active exactly if one body on the
  stack is its, pending only if queued, and written once it is neither
  (`WorklistSound`). `ClosureInv`: a body has the calls it has passed among its
  references, and what the members of an unfinished closure refer to is in it or
  to do; so a finished one is closed (`FragmentClosed`). `FuelInv`: until an
  error, what was executed is what was paid for (`FuelBound`).
  `VerdictInv` adds what `VerdictExact` needs, for programs that drop no error.
  Everything met is reached from the entry (`KnownInv`) and was met once
  (`Distinct`), so passing the budget exhibits too many instances. The bodies
  on the stack follow the program's edges, and an application that was passed
  was evaluated over a closed set that leads back to no body under way
  (`PathInv`); so an application that meets an active body is one the program
  makes of itself, and one that is met in order is not. An error is raised
  only for something of the reached program that is wrong (`ErrorInv`), and a
  completed body is sound (`DoneInv`). At a success all that was met is
  completed, hence closed under the program's edges, hence all that the entry
  reaches. Reachability is by closed sets, so none of this is an induction
  over paths, and the number of instances may be infinite.
- **LinkerProofs.** `LinkInv` holds for programs in which no lookup leads back
  to itself (`DirectLookups`). `TypeInv`: a frame has left to do only what its
  module says (`Fits`), a lookup that waits lies below the lookup of its source
  (`Follows`), and what a lookup says it has found is exported when it is read.
  `OrderInv` is the order of loads. The entry is at the bottom and each call is
  for a module that the calls below it depend on (`Grounded`, `Chain`). The
  lookups on the stack follow the program's lookup edges (`Walk`), so none meets
  itself and no recursive reference is raised or dropped. What is loaded has been
  hoisted or is being loaded, and not both (`Accounted`, `Apart`). A module being
  loaded has found loaded every import it is past (`Needs`), and it has a list
  of loads of its own in which they all are (`Listed`); so a record loads what its
  module imports and nothing it does not depend on (`Faithful`), and a replay
  of it meets the same order. A module that is hoisted (`Ordered`) has each
  import hoisted, or being loaded below it, and then that import depends on it.
  `DependencyFirst` is the sum of these, from source, from a package and from
  both. The hypothesis is needed for the types as well: an error that
  `force_pending` drops abandons the loads above it and leaves their lists
  behind, and the next module to end would record one that is not its own.
- **LinkerProofs**, on what the names stand for, where in addition no name is
  imported from two places (`Unambiguous`). `ExactInv` on top of `LinkInv` has
  two halves. The first holds of every such program, the wrong ones included:
  what is exported, bound, given to a namespace or recorded is a declaration the
  name stands for (`SoundAll`, `Brought`, `Exacted`), and a statement that a
  load is past names something (`PastRight`). The second holds where every import
  names something (`Good`), and says that nothing is lost. A finished
  module exports every name that stands for something (`Whole`). Every answer
  is right when it is read (`Answered`): a miss means that the name stands for
  nothing, and after a force the module exports all it will. What a waiting call
  still lacks is on its own list or is what the call above it was asked for
  (`Settled`, `Asked`, `Told`), and each call is the one that the call below
  waits for (`Awaits`). A lookup that runs out of sources has seen each of them
  stand for nothing, so the name does. No step then raises an error, so
  `Good` and `linked` are the same: a finished link from source has met every
  statement the roots reach, and a link from a package has a good program behind
  it. That gives `LinkExact`. For `PackageWhole`, what a link loads is closed
  under what its modules use, so what a name stands for is in a loaded module,
  and those are hoisted. A name stands for a set of declarations reached by
  closed sets, again without an induction over paths.
- **PackageProofs**, on the bodies. `FINISHING` covers every OnceLock a thread is
  initialising and `get` is entered outside it (`EntryInv`): `NoReentry`. What
  a walk has seen is reachable and what it is done with is closed (`MemoInv`):
  `MemoSound`. With both, each finish under way accounts for every callee it
  should read: read, still to ask for, or being asked for now (`Accounted`).
  The guard of `Callees::body` is what could drop one. It refuses a row this
  thread is finishing; the finishes of a thread lead from each row to those
  above it, so a refused row reaches itself and finishing closes a cycle
  (`ReadInv`): `OrderIndependent`.
- **PackageProofs**, on the cache. With processes of distinct identifiers
  (`DistinctProcesses`), a process writes only a file that no path names, and a
  named file is whole and past writing (`CacheInv`): `CachedComplete` and
  `MappedStable` under any faults, deaths and broken locks. Without that
  assumption, and until a lock is broken, whoever is between taking and
  removing a lock owns the lock file that is there (`LockInv`): `LockExcludes`.
  `LockHasHolder` is proved where removing a file does not fail
  (`"remove" \notin Faults`): the code ignores the error of `remove_file`, so
  a removal that fails leaves a lock until it is stale, and the run makes the
  same assumption.

The type invariants, `IdentityUnique`, `IdentityKept`, `MarksInStep` and
`CursorInTree` are stated by theorems alone: the runs are spent on what rests on
them.

Only model-checked:

- liveness (`Served`, `Answered`, and `Terminates` of Specializer and Linker),
  which is outside the prover;
- RegionTree, Lifetimes, DropElaboration and DropMachine, which recurse over the
  region tree with RECURSIVE operators: what a walk of a tree computes for every
  tree needs an induction over it.

## Not modelled, and why

The checker, HIR, MIR lowering, LLVM lowering and the values and builtins of
the VM are large sequential translations over recursive data; a bounded model
of them would say little that their tests do not. The driver is I/O, LLVM and
Pliron are external, and the standard library is a program that the system
runs. They are most of the repository's 294 000 lines, so the map covers a small
share of it. `PROJECT.json` gives the reason for each component.

Left out of the modelled components:

- drops: loans and the lives they extend, owned registers, fields of fields,
  trivial fields, parameter packs, and places reached through a reference;
- the specialiser: what a substitution, a rewriting or an inference computes,
  instance names and their collisions, edges of lifecycle methods, member tables
  and the verification of the finished program;
- the linker: how a dotted path is found in the file system, the dots-only
  `from . import`, imports inside function bodies, namespaces that a module
  exports in turn, the prelude and builtin bindings, several names in one
  statement, and the rewriting of bodies to linked names; an import binds one
  namespace, so the prefixes that an unaliased dotted import loads and binds
  (1372-1380) are imports of their own; the entry loads its roots and binds
  nothing: its name lookups and their errors (1052-1074) are the import code
  that a root module runs, and `Redefinition`, its error alone, for declaring a
  name it has imported (1082-1090), is left out; and `load_packaged`'s error for a
  module the package does not list (1318-1324), which no record that a link
  wrote can meet.

## Plan

Done, in this order: AllocRegistry, RawStorage and VmHeap, PointerParity,
VmRegions, PackageCache, PackageBodies; then VmFrames; then drop elaboration,
Specializer and Linker; proofs of all of them but drop elaboration.

Next, most important first:

1. Call-graph passes: components, dead symbols, duplicate functions, with their
   fixpoints against reference definitions.
2. The lexer's indentation stack, the interning of parameter expressions.
3. Loans in Lifetimes: a value must outlive the references into it.

Proofs to add: that no cycle of threads waits on OnceLocks when finishing closes
no cycle.
