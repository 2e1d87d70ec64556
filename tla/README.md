# Verification of evm.zig

TLA+ models of the parts of evm.zig whose correctness depends on the order in
which things happen, the TLC runs that check them on small instances, and the
theorems that TLAPS proves for every instance. `PROJECT.json` lists the
components, the runs, the mutants each property is known to reject, the source
lines each definition stands for, the hazards and the findings. Paths of Zig
files are relative to the library's `src/` directory; `bench/` and `eest/` are
the repository's.

    tlc -workers 2 -config MCBal.cfg BalDifferential   # a run: its cfg and module
    tlapm CallRuntimeProofs.tla                        # the proofs of a module

## 1. The system

evm.zig executes Ethereum transactions and blocks. The block state transition
(`eth/block_stf.zig`) admits a block, runs system calls and transactions through
a VM (`vm/block_execution.zig`, `transaction/*`, `executor.zig`, the
interpreter), and computes roots from the accepted changes. The library is
sequential but for one thing: a block access list (BAL) claim can be checked by
running the block's transactions as independent lanes on an `std.Io` runtime.
Around it are Python tools that drive the built program over conformance
fixtures and benchmarks; they run in pytest sessions and shells, over files that
earlier and killed runs left.

| Component | State it keeps | Operations | What makes it correct |
|---|---|---|---|
| World state `state/world_state.zig` | account and storage rows with stamps, flags and incarnations; the undo journal; change lists of the transaction and of the block; logs, warmth, transient storage, observations | begin/seal/retain/discard an attempt, sessions, checkpoints, account and storage access, create, self-destruct, finalize, branch snapshots, discardAccepted | every rollback is exact; the change lists are complete and free of repeats; the accepted branch is unaffected by an attempt in flight |
| Row store `state/OpenWorld.zig`, code `eth/bal/claim_artifacts.zig` | rows in admission order, introduced code | resolve, load, positional snapshot and restore, pop | snapshots restore the row they captured; code references stay valid |
| Closed world `eth/bal/ClosedWorld.zig` | rows admitted ahead from a claim | the same interface without admission | uncovered keys are reported |
| Executor `executor.zig`, `executor/*` | execution phase, scope tokens, the current attempt | root execution, system calls, EIP-7702, settlement | scopes nest; a failed call leaves the state as before it |
| Call runtime `executor.zig` (CallRuntime), frame store `executor/FrameStore.zig` | rows of control and frame, one shared stack array, memories kept between frames, checkpoints owned by rows | call, create, suspend, resume, finish, deliver, tear down; push, pop, grow | every call has a stack and a memory of its own; every checkpoint is kept or undone once, whatever fails |
| Transactions `transaction/*` | gas and fee accounting of one transaction | validate, prepare, execute, settle | gas is conserved; refunds are bounded |
| Block fold `eth/block_stf.zig`, `vm/block_execution.zig` | progress, receipts, requests, BAL observations | hooks, transactions, withdrawals, requests, roots | a refused transaction leaves nothing behind; totals stay within limits |
| BAL differential check `eth/bal/differential/*` | runner, schedule with its slots, accumulator, report | observer calls of the fold, stage, flush, accept | the report is that of a sequential check |
| Batch scheduler `io/batch_scheduler.zig` | an `std.Io.Group` | submit, cancel, await | control returns only when no task runs |
| BAL claim `eth/bal/*` | claim plan, positioned reader, shard fold | decode, read at an index, fold observations | reads see exactly the writes before their index |
| Prepared code `prepared_code/*` | cached bytecode, leases | get, prepare, begin/end execution | views outlive their use |
| Maps `state/sparse_hash_map.zig`, `ordered_map.zig` | probing tables | put, get, truncate | they are maps |
| Commit `state/StateDelta.zig`, `eth/commit.zig`, `eth/trie.zig`, `state/MemoryStore.zig` | the delta, the trie | apply, root | the delta is applied once, wipes before writes |
| Stateless `stateless/*`, interpreter, precompiles, packages | - | decoding, execution | pure data processing |
| t8n differential `eest/consume/evmz_differential.py`, `evmz_transition_tool.py` | the test and its call counter, the tools' answers, evmz's temporary directory, documents on disk | set up a test, evaluate with each tool, compare, classify, preserve, fail or answer | a test goes on only when evmz agrees with the authority; a disagreement leaves its documents |
| Fixture consumers `eest/consume/evmz_consumer*.py`, `evmz_zkevm_consumer.py` | a cache of runs per xdist worker | configure, collect, group, run a file, judge a test | a verdict comes from a run of the test's own file and subcommand |
| Corpus fetch `eest/scripts/fetch-devnet-batches.py`, `eest/consume/evmz_fixture_source.py` | the batches resolved, files under the output root, the manifest | read the catalog, download, verify, extract, write the manifest; describe a release | a corpus is published whole or not at all |
| Benchmark report `bench/scripts/report.py` | raw output, summaries, checkpoint, report | run the commands, vet, summarise, checkpoint, load the baseline, render | what is reported was vetted; a delta compares two runs |

How they interact: the executor calls the world state (never the reverse). The
state calls the reader to admit a row. Callers hold tokens: checkpoints must be
resolved innermost first, branch snapshots are owned values. The call runtime
owns one checkpoint per row but the root's. The block fold calls an observer at
five points, and the observer owns all concurrency: lanes share the
authenticated parent through a concurrent reader and write to their own slot
only. The tools meet the library through a process: they start it, read what it
prints or leaves in files, and are themselves run again over the same
directories.

What is hard in the library is not crashes or the network (it persists and sends
nothing). It is the long legal sequences of writes, nested scopes, reverts,
wipes, creations and snapshots that must leave stamps, flags and lists in
agreement; an allocation failing half-way through an operation; a buffer moving
under frames that point into it; and lanes that complete, fail or are cancelled
in any order. What is hard in the tools is what earlier runs left behind,
kills between two writes, a remote catalog that changes while it is read, and
answers of other programs that may be anything.

## 2. Modules

| Module | Models |
|---|---|
| `BranchStore` | What rollback promises: a mapping, a stack of full copies, branch copies. Abstract. |
| `UndoJournal` | The rollback algorithm for one kind of row: undo at most once per scope, stamps from one clock. Shown to implement `BranchStore`. |
| `UndoJournalProofs` | The proofs about `UndoJournal`. |
| `WorldRows` | `State` over `OpenWorld` as a record, each method as a function from records to records, composed as the methods call each other. |
| `WorldState` | The state machine over `WorldRows`: one action per public method, guarded by what the executor and the assertions demand. Also keeps history variables for the properties. |
| `WorldProperties` | The properties of the world state. It instantiates `BranchStore` twice: for what survives a retained attempt, and for what must unwind with a scope. |
| `WorldRowsProofs` | Lemmas about the methods of `WorldRows`: what each leaves alone, what it adds to the journal, and what undoing that gives back. |
| `WorldProofs` | The proofs about `WorldState`: rollback, snapshots, and the ends of attempts and roots. |
| `CallStacks` | What nested calls promise, without storage: each has its own stack and memory, and is kept or undone. Abstract. |
| `CallRuntime` | The iterative runtime over the frame store. Shown to implement `CallStacks`. |
| `CallRuntimeProofs` | The proofs about `CallRuntime`: its invariants, and that it implements `CallStacks`. |
| `ClaimCheck` | What a differential check promises: the transactions are judged in order; the first disagreement is the verdict. Abstract. |
| `BalDifferential` | Runner, schedule, accumulator, observer and batch scheduler, with the tasks as processes. Shown to implement `ClaimCheck`. |
| `BalDifferentialProofs` | The proofs about `BalDifferential`, the refinement included. |
| `T8nDifferential` | The t8n comparison in a filler session, over one output directory. |
| `T8nDifferentialProofs` | The proofs about `T8nDifferential`. |
| `FixtureConsumer` | Both consume-direct adapters over xdist's workers. |
| `CorpusPublication` | What a fetched corpus promises: whole or absent, and never changed. Abstract. |
| `CorpusFetch` | The fetch of a rolling corpus against its publisher, and the description of a released one. Shown to implement `CorpusPublication`. |
| `FixtureProofs` | The proofs about `FixtureConsumer` and `CorpusFetch`, the second's refinement included. |
| `BenchReport` | The benchmark driver over the files of several runs. |
| `BenchReportProofs` | The proofs about `BenchReport`. |
| `MCUndoJournal`, `MCWorld`, `MCCallRuntime`, `MCT8nDifferential`, `MCFixtureConsumer`, `MCCorpusFetch`, `MCBenchReport` | Constants for the runs. |

### World state

`state` is the Zig structure. Rows are identified by their keys, and the order
of admission is kept as a sequence because `OpenWorld.restoreSnapshot` works by
position. A row of a key that was not admitted holds what admission would give
it. An account is `[exists, balance, nonce, code]`; code bytes and their hash are
one value; `MissingRef` stands for code that was not bound. Stamps
(`journaled_scope`, `warm_transaction`, `dirty_transaction`, ...) are the clock
values of the code. Flags are sets. `lifecycle_accounts`, `changed_*`, `block_*`
and `dirty_storage` are sequences, with the duplicates and leftovers that the
code leaves in them until it compacts.

The journal holds the account, storage, warmth, transient and code entries
of the code, and `UndoEntry` undoes one of them as a branch of
`revertJournalTo`. `RevertJournalTo` and `FinalizeRows` walk the journal and the
lifecycle list as recursive functions of a length, so that they can be reasoned
about. `FinalizeLifecycle` finalizes the rows of the list inside its own
checkpoint; `FailFinalize` fails before any row of the list and reverts.

`execution_phase` restricts the operations that run code to sessions that were
not finalized, and `running_root` to the root that runs, in a session of several
(`beginRootSession`, `runRoot`). `RunRoot` clears transient storage without an
undo entry; between two roots a caller may open and resolve checkpoints of its
own. `Create` and `SelfDestruct` need an open checkpoint, which is how
`executor.zig` and `executor/host.zig` call them; the destination of a creation
has neither nonce nor code. `program` is chosen in the initial state and names
the accounts that take part in each operation and the bounds, so that one run
answers several questions, each with the operations that bear on it.

History variables: `root_values` (slots when the execution root was opened),
`copies` and `branch_copies` (full copies at each boundary). No guard reads them.

### Call runtime

`frames` are the rows with their window of the shared array: first word, length,
and whether the window's pointer is still the array's. `words` is the array up
to its capacity, of which `used` words are in use; growing may move it, copies
only the words in use and rebinds the suspended rows. `memories` outlive their
rows. `scopes` holds the states that open checkpoints saved, and a row names its
checkpoint by position. Every allocation on the way is a point of failure with
what was done before it: the four metadata lists reserved one by one, a push
before and after the row is exposed, an answer received half-way. `pc = "failed"`
tears the rows down, and the executor is used again afterwards.

Words carry the number of the row that wrote them, a memory is clear or holds
data, arguments are one word, gas only chooses between outcomes and is left out.
The return-data buffer is not kept apart from what is copied to memory. The
refinement maps a row to a call whose stack is its window of the array and
whose memory is that of its depth, so a window that overlaps another's, a stale
pointer or a memory that was not cleared is a step `CallStacks` does not have.
`FaultySpec` adds the failures inside `finishFrame` (finding 2).

### BAL differential check

The coordinator is one thread whose position is `pc`. A flush is several steps:
submissions one at a time, the wait, the hand-over slot by slot; the tasks run
between them in any order. `verdict` and `rejection` are inputs: what each lane
finds, and how the claim judges the transaction at which the fold stopped.
Block progress is counted in transactions, the two statuses for uncovered
accounts and slots are one, and the statuses of `report.zig` are otherwise kept.
`std.Io` is external: a task that was submitted may run at any time,
`Group.cancel` and a cancelled `Group.await` may drop tasks that did not start
and return when no task is left.

### Tools

`T8nDifferential`: a call moves through its phases (evmz, reference, arbiter,
compare, one document at a time, verdict). An answer is what consensus commits
to, the fields that vary between tools, and rejected transactions with the set of
exception names a mapper found and the tool's wording; two such sets agree when
they meet, which is not transitive. Sessions follow each other over `artifacts`
and may be killed while they write.

`FixtureConsumer`: a test is handed to a worker, by the group of its file when
`-n` was recognised; a run of evmz ends with any outcome of `Outcomes`; the
worker's cache keeps it by subcommand and file; the test is judged by its own
record. A worker that dies is started again with an empty cache.

`CorpusFetch`: the publisher (external) appends, replaces and expires batches
between any two steps of the script. Every check of the script is a guard, its
failure is an exit, and a kill leaves `disk` and `manifest` as they are, the
manifest torn if it was open. An archive's SHA-256 is the archive itself.

`BenchReport`: the commands run one by one, each writing its raw output; then
vetting, the summary, checkpoint, baseline and report, the files that are
truncated before they are written in two steps. What a run's commands print is
chosen once. A median is kept doubled to stay an integer.

## 3. Runs

| Run | Properties | What it shows |
|---|---|---|
| `MCUndoJournal` | `UndoInv`, `ImplementsBranchStore` | Two rows written together under nested scopes, finalization scopes and a snapshot: one undo record per row and scope suffices. |
| `MCWorldBlocks` | `TypeOK`, `BlockListsMatchFlags`, `BlockDeltaIsComplete`, `LifecycleEndsWithAttempt`, `ExecutionOriginalIsRootValue`, `PendingDeltaIsComplete`, `EffectsExplainChanges`, `RollbackIsExact`, `AcceptedViewIsStable` | Four programs over several transactions of a block: legacy self-destructs with the storage they wipe, creation over stale parent storage, balances and nonces around a creation under Amsterdam's rules, SLOAD and SSTORE over two roots. |
| `MCWorldScopes` | `HeldSnapshotsRestorable`, `CodeIsAvailable`, `TransientEndsWithRoot`, `RollbackIsExact`, `EffectsUnwind` | Three programs: warmth, transient storage and logs across three levels; code introduced and popped between two nested snapshots; several roots in a session, inside and outside a checkpoint around them. |
| `MCCallRuntime` | `TypeOK`, `MetadataStable`, `ScopesBalanced`, `ImplementsCallStacks` | Three frames over one array that grows and moves, every allocation failing somewhere, many runtimes on one executor. |
| `MCBal` | `TypeOK`, `BatchIsQuiescent`, `StagedFollowsFolded`, `EveryLaneRan`, `ImplementsClaimCheck`, `CheckEnds` | Four transactions, three slots, with and without system calls before them, every verdict, failures, refusal, cancellation. |
| `MCT8nDifferential` | `TypeOK`, `VerdictFollowsAuthority`, `DisagreementIsPreserved`, `EvidenceIsKept` | Two sessions over one directory, tools that disagree, raise or mislead, with and without an arbiter. |
| `MCFixtureConsumer` | `TypeOK`, `VerdictIsEarned`, `OneRunPerFile` | Four tests of two files over two workers, one of which may die, and evmz answering anything. |
| `MCCorpusFetch` | `FetchTypeOK`, `ReleaseCountsAreExact`, `SuccessMeansPublished`, `ImplementsCorpusPublication` | Three runs against a catalog that changes, each failing or killed at any step. |
| `MCBenchReport` | `TypeOK`, `ResultsAreVetted`, `DeltasCompareRuns` | Three runs in shared directories, failing or killed at any step. |
| `MCTouch` | `TouchMaterializes` (violated) | Finding 1. |
| `MCFinishFaults` | `RestoredOnce` (violated) | Finding 2. |
| `MCBenchDeltas` | `EveryDeltaReported` (violated) | Finding 3. |

**Bounds.** In the world state `MaxClock` bounds the stamps drawn between two
`discardAccepted` calls and so the length of a run: an attempt costs two, a
session two, a checkpoint, a root or a finalization one. Five allow two short
attempts around snapshots, six one attempt with three nested scopes, eight to ten
two attempts with a session and checkpoints each, or a session with two
roots in a checkpoint. `MaxDepth` bounds nesting: the algorithms compare a scope
with its parent only, the scope programs include one that is both, and rollback
at every depth is what the theorems are about. `Unpriced` names the slots that
`setStorage` writes without an access. `MaxJournal` bounds transient writes,
which journal every time; the other entries are bounded by the stamps. One
account with one slot is enough where rows do not interact; questions about
beneficiaries, code and admission order use two. `MaxSnapshots = 2` is the
smallest number with an earlier and a later one.

In `MCCallRuntime` three rows are the fewest with a suspended frame that is
neither the oldest nor the newest; a stack of two words lets a window be empty,
partly used and full, and four words are exactly what the deepest chain can
need, so the array grows several times and is also met at its limit. The two
states of the world are model values and symmetric: the runtime saves, restores
and replaces them and does nothing else with them. In `MCBal`,
four transactions over three slots give a full batch, a partial one and a
position before, inside and after each. In the tools' runs, two sessions or
three runs are the fewest in which one meets what another left and a third what
a failed one left; `MCAnswers`, `MCOutcomes`, `MCLines` and `SmallOutputs` name
the answers that the code tells apart. `MCBenchDeltas` uses the real numbers of
kernels, fixtures and rows.

**Fairness.** Only `BalDifferential` states any. The coordinator is a running
thread (`WF_vars(Coordinator)`), and the runtime runs every task it accepted
(`WF_vars(RunTask(i))`), which is what `Group.await` relies on. Nothing obliges
anyone to cancel the wait, to drop a task or to leave the fold. The world state
and the call runtime have no liveness of their own: they act when called. The
tools may be killed at any time.

**Deadlock** is checked in the runs of the world state, the journal and the call
runtime, where a caller can always go on; the differential check, the tools'
sessions and a runtime whose assertion failed end, so their runs do not check it.

## 4. Proofs

Every theorem holds for all values of the constants that satisfy the named
assumptions of the module, which TLC evaluates in the runs. Each component has
one inductive invariant `Inv` (`UndoInv`, `SafeInv` and `CountInv` where the
names differ), one lemma per action or group of actions that it is preserved,
and a last theorem per property.

| Module | Theorem | States |
|---|---|---|
| `UndoJournalProofs` | `UndoInvariant`, `JournalRefinement` | `UndoInv`, `ImplementsBranchStore` |
| `WorldProofs` | `TypeCorrect`, `RollbackExact`, `ScopesUnwind`, `SnapshotsRestorable`, `CodeFound`, `LifecycleEnds`, `TransientEnds` | `TypeOK`, `RollbackIsExact`, `EffectsUnwind`, `HeldSnapshotsRestorable`, `CodeIsAvailable`, `LifecycleEndsWithAttempt`, `TransientEndsWithRoot` |
| `CallRuntimeProofs` | `TypeCorrect`, `MetadataStays`, `ScopesMatchRows`, `ImplementsSeparateCalls` | `TypeOK`, `MetadataStable`, `ScopesBalanced`, `ImplementsCallStacks` |
| `BalDifferentialProofs` | `TypeCorrect`, `QuiescentOutsideRun`, `NothingIsLost`, `MatchedRanEveryLane`, `ImplementsSequentialCheck` | `TypeOK`, `BatchIsQuiescent`, `StagedFollowsFolded`, `EveryLaneRan`, `ImplementsClaimCheck` |
| `T8nDifferentialProofs` | `TypeCorrect`, `VerdictIsAuthoritys`, `DisagreementPreserved`, `EvidenceKept` | `TypeOK`, `VerdictFollowsAuthority`, `DisagreementIsPreserved`, `EvidenceIsKept` |
| `FixtureProofs` | `TypeCorrect`, `VerdictsAreEarned`, `FilesRunOnce` | `TypeOK`, `VerdictIsEarned`, `OneRunPerFile` |
| `FixtureProofs` | `FetchTypeCorrect`, `SuccessPublishes`, `PublishesWhole`, `ReleasesCounted` | `FetchTypeOK`, `SuccessMeansPublished`, `ImplementsCorpusPublication`, `ReleaseCountsAreExact` |
| `BenchReportProofs` | `TypeCorrect`, `ReportsAreVetted`, `DeltasCompared` | `TypeOK`, `ResultsAreVetted`, `DeltasCompareRuns` |

### The undo journal

Assumption: `UndoConstants` (finite `Ids`, `Parent \in [Ids -> Vals]`, natural
bounds).

A write skips the undo record when the row's stamp is that of the open scope.
That is safe only if such a record lies above the length at which the scope was
opened (`StampMeansUndo`). This is not inductive: a revert puts back the stamp
saved in a record, so the same must be known of saved stamps
(`SavedStampMeansUndo`: for a record whose saved stamp is that of an open scope
there is an older record of the row above that scope's length). New scopes must
not inherit old stamps: all stamps, in rows, records and snapshots, were issued
by the clock (`StampsIssued`), and open scopes carry increasing stamps over
increasing lengths (`ScopeChain`). `PhaseShape` ties these to the phases. Two
lemmas about `Undone` carry the proof: appending records of rows that a scope did
not hold changes what a revert gives for no row (`UndoneAppend`), and reverting
twice is reverting to the lower length (`UndoneTwice`).

The refinement maps the stack of copies to what each open scope would restore
(`SavedCopies`). Every write leaves these unchanged, because a row whose stamp
is current has a record and any other row gets one (`WriteKeepsCopies`); a
checkpoint adds the present values; commit and revert drop the top.

### The world state

Assumptions: `WorldConstants` (every slot has an owner; the parent's values are
accounts and numbers; an account that does not exist is null, and none that
exists is empty) and `ProgramsAssumption` (a program names a fork, numbers,
accounts and slots, and natural bounds).

`WorldProofs` proves of the full `State` what `UndoJournalProofs` proves of one
kind of row: reverting a checkpoint gives back every account, slot, warmth mark,
transient slot, log and code entry that the checkpoint held, whatever happened
since, creations, wipes, self-destructs, finalization and snapshots included.

The stamps alone are not inductive. A method skips an undo entry when the row's
stamp is that of the open scope, which is safe only if an older entry of the row
lies above the length at which the scope was opened; a revert puts back stamps
that entries saved; and a snapshot gives back rows with the stamps they had. The
invariant `WorldInv` therefore speaks of what undoing gives. It says that there
is, for the attempt and for every open checkpoint, a whole state in which it
began, whose lengths are those of the checkpoint's token, and that undoing the
journal leads back to that state's values (`Backed`, `Returns`); and for every
snapshot held, the settled state that was captured, whose rows are the first in
the order of admission (`Held`, `Captured`). A row whose stamp is that of the
current scope was journaled since every one of these states (`Unstamped`: none
of them bears the stamp), which is what allows a method to skip the entry.
`Sound` adds what holds of any single state, such as that a row that was not
admitted holds what the parent holds.

The argument has three layers. `UndoEntry` is undone one entry at a time, and
`RevertJournalTo` is a chain of such states, so that reverting to a length and
then to a lower one is reverting to the lower one. Each method of `WorldRows`
`Follows` its state: it only appends entries, and undoing what it appended gives
back the rows it changed; `WorldRowsProofs` shows it method by method, in the
order in which the methods call each other. So each action of `WorldState`
carries the boundaries of the open scopes with it, and each is a step or a
stutter of both instances of `BranchStore`, which is what `RollbackIsExact` and
`EffectsUnwind` say. Induction over the length of the journal is by the least
element of a set of naturals.

`WorldInv` quantifies over states and cannot be evaluated by TLC. What it
implies, the seven properties of the table, is what the runs check.

### The call runtime

Assumptions: `RuntimeConstants`, a stack of at least one word, at least one row,
and an array that may grow to what the deepest chain of calls needs. A suspended
frame keeps at least one word of its window free for the answer, so a chain needs
`StackCapacity - 1` words for each suspended frame and a full window for the
newest. `NoneIsNoWorld` tells the absence of a saved state from a state.

The invariant is `Types`, `Control` (which frames wait at each point of the
runtime; a suspended one has room for the answer), `Layout` and `Checkpoints`.
`Layout` is the heart: windows are in order, the live words of a frame lie below
the window of every newer one, all pointers are into the array as it is now, the
words in use end with the newest window, and the metadata lists are reserved once
a row exists. The last conjunct is about `LiveRows` and not about all rows,
because a parent receives its answer on top of its stack while the row of the
finished call is still there. `Checkpoints` numbers the checkpoints of the rows
consecutively from the first or second row and ties the number of open scopes to
the unresolved rows; that `finish` closes the newest scope, and only that one,
follows.

`ImplementsSeparateCalls` proves that every step is one of `CallStacks` or leaves
the calls as they are. The lemmas `StackPushed`, `StackPopped` and their like say
what a change of one word does to the stack a window stands for. From `Layout` it
follows that no other window changes; from the zeroing of a reused memory, that a
new call starts with a clear one. Growing copies the words in use, so every
window reads the same afterwards although the words behind them are undefined.

### The differential check

Assumption: `DifferentialConstants` (at least one slot, any number of
transactions, verdicts among those of the lanes).

`Types` bounds the counters. `Folding`: what was folded is a prefix of the block,
and the runner has a status exactly when it stopped. `Slots`: a slot is empty or
holds the transaction at its offset from the fold's position, and a task that
ended left one of its lane's outcomes there; no slot that is not waiting has an
outcome. `Positions` relates the fold, the batch and the accumulator at each
point of a flush, `Ending` says what may come after the last transaction, and
`Batches` counts lanes and batches. `Slots` and `Positions` need each other: a
slot is handed over with the right transaction because of the position, and the
position is right because every slot before it was handed over.

The refinement to `ClaimCheck` goes by action: submissions, tasks and joins are
stutters, since they change slots only; the hand-over of a slot judges one
transaction; every fallback gives up. So the order in which lanes end cannot be
seen in the report.

### The tools

`T8nDifferentialProofs` assumes that the bounds are natural, that a list of
rejected transactions is a sequence and that `None` is no context. `ToolOrder`
says which tools ran in each phase, `DirectoryAlive` that evmz's directory is
there when its allocation is read, `Evidence` what was written at each phase of
preserving, `DumpedEarlier` that documents belong to earlier calls of tests this
session began. `EvidenceKept` is an action property: it follows from
`DumpedEarlier`, as a call writes to its own place only. `EquivalentIsAgree`
shows that the code's comparison of canonical documents is the agreement the
properties speak of, for any answers.

The fixture consumers have two invariants. `SafeInv` (a cached answer belongs to
its key, a verdict is earned) gives `VerdictsAreEarned` for any invocation.
`CountInv` gives `FilesRunOnce`: pending tests of a file have one owner, and only
the owner has a cached answer, so the kept runs over a file number at most the
deaths and one. It is a theorem about `Invocations \subseteq {"none", "-n"}`,
because for `--numprocesses` it is false (section 5).

The corpus fetch assumes an integer `--latest-batches`, natural bounds, that the
numbers of a listed line are integers and the fixtures and roots of an archive
finite sets, with a root directory wherever there is a fixture, since fixtures are
found below one (`LinesAreTyped`), and that a release lists its cases and, for each
file, the blocks of its tests (`ReleasesAreTyped`). `FetchFiles` says what lies under the output root at each step: the batches fetched
so far, extracted from the archives that the list named, and what the current one
has added. It starts with the check that the root is empty, and the publisher
cannot touch it. `FetchRunning` says that a run that goes on has not reported anything
yet, so only writing the manifest can report success. Of two batches with one
range nothing need be known: `mkdir` refuses the second.

`PublishesWhole` needs more: that a manifest lists what was fetched.
`PublicationInv` adds `Resolution` (the batches chosen are valid lines of one
unbroken range), `Gathering` (the rows gathered are one for each fixture file
of the batches described so far, and their number is the sum of the counts in
the artifacts) and `Manifests` (a manifest on disk is whole, or torn, and torn
only while it is written or after a kill). That each batch is described from a
directory of its own follows by counting: the script requires as many
directories as batches. Sorting the rows is by rank and drops none (`SortKeeps`).
`ReleasesCounted` shows that the counts of a release, summed file by file, are
the numbers of its blocks and cases (`BlocksInFile`, `CountsAreExact`).

`BenchReportProofs` assumes a non-empty list of fixtures, and that runners print
lists of lines: rows that name their case and an integer, and, for evmz's
loops, integers (`OutputsAreNumbers`). `Progress` says that the raw output of
the commands run so far is this run's, `Vetting` that every document on disk
names a run whose kernels agreed. The step in which that is earned is
`RunKernel`, and it needs that combining the outputs loses no row: the number
of elements before an element, and one, is its place in the sorted sequence,
and that is a bijection (`Sorting`), so sorting drops none (`SummaryHolds`).

`DeltasCompared` is about numbers, from that invariant with two more parts.
`Measuring` says whose numbers the running script handles: the merged rows are
its own, every loop run so far printed times, and no checkpoint on disk is its
own until it writes one. `Recorded` says that checkpoints and reports hold
medians of what their runs printed. The argument is by counting. A sorted list
has as many elements on each side of its middle as a median needs
(`MiddleIsMedian`, where elements are counted along bijections, `CountThrough`),
and the samples taken out of merged and filtered rows are, again up to a
bijection, those of the lines printed (`SummaryNumbers`). `TableCompares` then
reads the two medians of a row off the two checkpoints.

### Only model-checked

- `CheckEnds`: liveness under fairness is out of the prover's reach.
- `BlockListsMatchFlags`, `BlockDeltaIsComplete`, `PendingDeltaIsComplete`,
  `EffectsExplainChanges`, `ExecutionOriginalIsRootValue` and
  `AcceptedViewIsStable` of the world state. They relate the change lists, with
  the duplicates and leftovers that rollbacks leave in them, to flags and to
  history variables; each needs an invariant of its own next to `WorldInv`.
- The runs that show a violation.

## 5. Findings

1. **A touch after destruction does not materialise the account**
   (`state/world_state.zig:1410`). `touchAccount` returns early when the row is
   marked touched. Nothing clears the mark when the account is deleted, so under
   the rules before Spurious Dragon, an account that was touched, created, and
   destroyed in an attempt stays absent after a later call touches it in the same
   attempt. `MCTouch` gives the sequence.
2. **A checkpoint is restored twice when finishing a frame fails**
   (`executor.zig:1756`). `finishFrame` hands the row's checkpoint to a guard and
   then calls code that can fail. The guard restores it, the row still names it,
   and the runtime's `deinit` restores it again, which trips the state's
   assertion. `MCFinishFaults` gives the sequence; `MCCallRuntime` shows that
   everything else survives the failures before `finishFrame`.
3. **The delta table is cut** (`bench/scripts/report.py:660`). It keeps 23 rows,
   kernels first, of 28 kernels and 14 fixtures, so no VM-loop delta is shown.
   `MCBenchDeltas` uses these numbers.

Behaviours worth knowing that no run reports:

- `BranchSnapshot`'s doc (`state/world_state.zig:781`) asks for the same State
  and epoch. The row store also requires that at least the captured rows are
  there (`state/OpenWorld.zig:272`), which restoring an earlier snapshot undoes:
  snapshots must be restored last-first. All callers do; `WorldState` models that.
- When a transaction has system calls before it, staged lanes are dropped before
  they run, so a disagreement among them is not reported. The status is a
  fallback, which `ClaimCheck` treats as no verdict; Ethereum has no such calls
  today.
- Files are grouped on one worker for `-n` but not for `--numprocesses`
  (`eest/consume/evmz_consumer_common.py:21`). Verdicts are the same and evmz
  runs more often, so `MCFixtureConsumer` asks for workers with `-n` only.
- A nonzero exit of evmz is cached for the file: every test of it fails alike.
- In the benchmark report the baseline is loaded after the run's own checkpoint
  was written. With one path for both the run is compared with itself, and a
  missing baseline fails the run after its checkpoint replaced the old one, next to
  the report of an earlier run. A baseline's parameters and environment are not
  compared with the run's.

## 6. Not modelled

- In the world state: `seedAccount` and `seedStorage`, the read bits of
  observations and `observed_attempt`, balance overflow, errors of the reader,
  allocation failure outside `finalizeLifecycle`, exhaustion of the 32-bit clock
  (the code documents that it has no policy).
- In the call runtime: native contracts, nested runtimes above `frame_base`, the
  contents of captures, `last_call_output`, a store without stable metadata
  capacity, gas.
- In the tools: the debug dump, version probes, number formats and table layout;
  curl's retries are external. `eest/scripts/generate-consensus-ssz-schemas.py`
  prints source code in one pass and keeps no state.
- `ClosedWorld`, transactions, the block fold beyond its observer calls, claims,
  maps, commit, prepared code: see the plan.
- Interpreter, precompiles, encodings, stateless decoding, zkVM guests, runners
  and examples: data processing on bytes and 256-bit words, and thin drivers.

## 7. Plan

1. *Done:* `BranchStore`, `UndoJournal`; `WorldRows`, `WorldState`,
   `WorldProperties`, with sessions of several roots; `ClaimCheck`,
   `BalDifferential`; `CallStacks`, `CallRuntime`; the tools; the proofs of
   section 4.
2. Proofs, next: the change lists of the world state (`BlockListsMatchFlags`
   first, on which the two deltas rest), as a further invariant next to
   `WorldInv`.
3. Block fold: hooks, refused transactions, gas totals in u64, system-call
   batches inside a snapshot, withdrawals, requests; as the environment of
   `BalDifferential`.
4. Attempt tokens of the executor (`Executed`, retain, discard, copies of a
   token); transaction gas and settlement arithmetic against a reference
   definition.
5. Claims: positioned reader and shard fold as functions against a reference;
   `ClosedWorld`.
6. `sparse_hash_map` and `ordered_map` against a map; prepared-code leases;
   `StateDelta` applied to `MemoryStore`.
