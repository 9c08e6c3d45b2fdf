# A TLA+ model of cpusbfl

cpusbfl localises faults in a CPU. It starts from one program (a RISC-V ELF)
that makes the simulated CPU fail, mutates it into many similar programs, lets
a simulator run each of them, and computes from the passing and the failing
runs which coverage points of the RTL are most suspicious. This directory holds
TLA+ models of the parts whose correctness is hard to see in the code or to
reach with a test, TLC configurations that check them on small instances, and
proofs, checked by TLAPS, that hold for every instance.

Paths such as `fuzzer.rs` are relative to the crate's `src/` directory. The
file `PROJECT.json` relates every definition of the models to lines of code.


## 1. The system

The program is one thread. It calls the simulator synchronously through a C
interface, so there is no concurrency of its own making: what makes it hard is
that the simulator may answer anything, that LibAFL calls back into schedulers,
mutators and feedbacks at moments the code does not control, and that later
stages rely on what earlier ones left in the corpus.

    input case --reduce--> failing case --campaign--> corpus --select--> cases
                                                                          |
                             RTL blocks <--map-- ranked points <--count---+

### Components

**Driver** (`lib.rs`, `_main`). Parses arguments; reduces the failing case if
told to; runs a campaign in one of three modes (`PSBFL`, `Random`, `WitHW`);
reports. It hands values from stage to stage and any error ends the process.
What matters: the order, and that each stage's output is a state the next one
was written for.

**Simulation harness** (`harness.rs`) with **coverage** (`coverage.rs`) and
**state trackers** (`state_tracker.rs`). State: `SIM_ARGS`, the global coverage
and tracker buffers filled over FFI, and accumulated coverage. Operations: run
an input from memory, under an instruction limit, or as LibAFL's harness
closure. A run yields an exit kind, the points covered and a trace: the PC, the
registers and the CSRs before each instruction. Hard: the result of a run has
to be read before the next run overwrites it; all stages share one list of
arguments, to which two of them append a limit, one for a run and one for good;
a run may time out.

**Observers** (`observer/`) keep the last `--tracker-window-size` entries of a
trace and hash what they see. **Feedbacks** (`feedback/`) decide whether a run
is interesting: whether it passed, whether its coverage hash or its trace hash
is new. They keep the metadata of the run *pending* between `is_interesting`
and `append_metadata`. Must hold: an entry carries its own run's metadata, and
a fingerprint is counted once.

**Campaign** (`fuzzer.rs`, `run_fuzzer`). The corpus, seeded with the failing
case; LibAFL's loop of schedule, stage, mutate, execute, judge, `post_exec`.
**Scheduler** (`scheduler/wit_scheduler.rs`, or LibAFL's queue): picks the
initial case or a passing one near to it; `on_add` records an entry's parent.
**Mutators** (`mutator/`): overwrite instructions of the failing trace (PSBFL,
WitHW) or any bytes (Random); remember in `MutationMetadata` which PCs an
entry's bytes differ at; `BoundedMutator` evicts passing cases beyond
`--max-corpus-size`, in the middle of a stage. Must hold: nothing aborts,
parents and histories are right whatever is evicted, the initial case stays the
anchor of every distance, the pool is bounded.

**Similarity** (`similarity.rs`). Raw distances in coverage and in state (DTW
over traces), turned into quantile ranks of the population and combined by a
weight. The rank depends on who else is in the population.

**Selection** (`fuzzer.rs`, `emit_top_passed_testcases`). Picks `--top-pass`
passing cases: shuffled, nearest first, or greedily diverse, the last with a
packed triangular matrix of distances and a running minimum. Must hold: the
matrix and the minima say the true distances, nobody is picked twice, no case
that is nearer both ways is left out.

**Coverage reduction** (`reduce/cover.rs`). Subtracts from a case's coverage
the coverage of a run known to be harmless: of the failing case without its
last instruction, of a passing case its longest prefix shared with the failing
one. Must hold: what is subtracted is common to both.

**Failing case reduction** (`reduce/mod.rs`, `nop.rs`, `strip_prefix.rs`,
`strip_suffix.rs`). Three searches over simulations (`nop` doubles and then
bisects, the strips bisect), each starting from the result of the one before
and each accepting a candidate only if it fails as its predecessor did. Must
hold: the reduced case fails where the original did, the bisections end on a
boundary and never lose it, nothing is simulated twice.

**Context restore** (`strip_prefix.rs`, `inst.rs`). To skip a prefix, the
reducer inserts code that restores the registers, the CSRs and the bytes the
prefix left behind, and enters a lower privilege by `mret`. It reconstructs the
memory from the trace, since memory is not traced, and gives up at an access it
cannot decode. Must hold: the suffix finds what it found in the traced run.

**Encoder and patches** (`inst.rs`, and the parts of the reducers that write into
a program). Loads 64-bit constants, encodes near and far jumps, overwrites what
is skipped with NOPs. Instructions are two or four bytes long and their lengths
are read from the bytes before the edit. Must hold: the register gets the
constant, the jump arrives, and what is still needed is not overwritten.

**ELF editing** (`elf.rs`). Finds room for the code among the LOAD segments and
inserts it. The code's size depends on its address and its address on its size;
`try_strip_prefix_at` iterates at most four times. Must hold: the code is put
where it was assembled for, and nothing else is there.

**Spectrum and report** (`spectrum/matrix.rs`, `bugloc.rs`). Four counters for
each point, nine metrics, a ranking, an assertion about each printed point, and
the mapping of the ranking to **RTL blocks**. Must hold: the report gets through,
and suspicion orders points as the counters say.

**RTL blocks** (`block/mgr.rs`, `block/dfb.rs`). A walk over the instances of the
design, breadth first, that builds an instance's scope from the labels of the
generate blocks around it and collects the ports, processes and assignments of
its module. State: a queue of instances, a stack of labels. Must hold: every
instance is found under its own scope, with its own blocks, and the walk ends.

**Not used by the program**: `mutator/selected_mutator.rs`, the single-name
feedbacks and observers, `reduce/trim.rs` (commented out as a whole).


## 2. The modules

| Module | Models | State and actions |
|---|---|---|
| `Similarity` | `similarity.rs`, the sort in `bounded_mutator.rs` | operators only: `QuantileRank`, `CombinedDistance`, `Precedes`, `Nearest` |
| `Campaign` | `run_fuzzer`, feedbacks, scheduler, mutators, LibAFL's loop | `pc` is where the driver stands: `Boot`, `ScheduleQueue` or `ScheduleWit`, `MutateGuided`, `MutateHavoc`, `SkipHavoc`, `FailHavoc`, `Execute`, `Timeout`, `PostExecNothing`/`Queue`/`Wit`, `EndStage` |
| `CampaignProof` | | type correctness, absence of aborts, the anchor; metadata, fingerprints, histories, ancestors; the pool and what it evicts |
| `Selection` | `emit_top_passed_testcases` | `Rank`, `SelectSort`, `SelectRandom`, `FillPool`, `ComparePairs`, `PickFirst`, `PickNext`, `PicksDone`, `Take` |
| `SelectionProof` | | the packed matrix, the running minima, the order of the picks, how many they are and who is left out |
| `Harness` | `harness.rs`, the `-I` of `run_fuzzer` | `simArgs`, `saved`, `trackers`: `Simulate`, `PushLimit`, `PopLimit`, `FixLimit` |
| `CoverReduce` | `reduce/cover.rs`, on top of `Harness`, after the stages before it | `Probe`/`ProbeRun`/`ProbeRead`, `EvaluateInit`, `RejectInit`, `StartCampaign`, `ExecutePass`, `EndCampaign` lead there; `InitSkip`, `InitUnbuilt`, `InitStart`, `InitRead`; `PassSkip`, `PassStart`, `Shorten`, `PassUnbuilt`, `PassProbe`, `PassRead`; `Run` |
| `CoverReduceProof` | | own limits, common prefixes, the longest one |
| `Report` | `matrix.rs`, `bugloc.rs` | `CountCase`, `RankPoints`, `PrintPoint`, `EndPoints`, `ConvertPoint`, `EndBlocks` |
| `ReportProof` | | counters, absence of panics, the order of points and of blocks; the walk over the design finds every instance with its own blocks |
| `Reduction` | `reduce/mod.rs` and the three searches | per search a start, growing or bisecting probes, an end |
| `BoundarySearch` | what a reduction promises | abstract: `Begin`, `Probe`, `Settle`, `Abort` |
| `ReductionProof` | | the failure is kept, the searches settle, panics are the input's; `Reduction` implements `BoundarySearch` |
| `Ordering` | | least naturals, recursion over the naturals, ranks in a finite strict order, the order and the ranks of `Similarity` |
| `ContextRestore` | `collect_memory_bytes`, `collect_context_restore_plan`, `append_context_restore`, the access decoder | `Execute` records the trace; `Skip`, `Replay`, `EndReplay`, `Scan`, `EndScan` plan; `Restart`, `WriteCsr`, `ReturnDown`, `StoreNeeded`, `LoadRegisters`, `Resume` run the restored program; `NotBuilt` drops the candidate, `Lost` is a run that meets what its mode must not execute |
| `ContextRestoreProof` | | the replayed memory, and that the suffix finds the registers, the privilege and the CSRs of the traced run |
| `Immediates` | `append_load_u64`, `encode_jmp` | `SplitOff`, `LoadWord`, `Combine`; `JumpNear`, `JumpFar`, `NoJump` |
| `Patching` | `try_jal_to_failure_site`, `nop_skipped_*_insts`, `build_nopped_input`, on top of `Immediates` | `Encode`, `WriteJump`; `NopSuffix`, `EndSuffix`; `NopPrefix`, `EndPrefix`; `NopUnexecuted`, `SweepPanics`; the run: `Retrace`, `TakeJump`, `Lose` |
| `CodeSegment` | `find_insert_vaddr`, `insert_code_segment`, the loop in `try_strip_prefix_at` | `Estimate`, `SkipSegment`, `Place`, `NoPlace`, `Assemble`, `GiveUp`, `Insert` |
| `ProgramProof` | | constants are loaded and jumps arrive, a patched program reaches its failure; the place of the code is free, first, and the code's own |
| `Blocks` | `BlockManager::new`, `parse_module_blocks` | `Pop`, `ParseNode`, `EndParse`, `OpenBlock`, `CloseBlock`, `EnterInstance`, `EndWalk`, `Done` |
| `MC*` | | instances of the modules above |

`Campaign` and `Selection` share `Similarity`, as the code does; `Patching`
composes the programs it edits with `Immediates`, which encodes the jumps it
writes; `CoverReduce` composes the stages that call the simulator with `Harness`,
whose arguments they share. Otherwise a module is a stage of the pipeline and
starts from every state its predecessor may hand over.

How the data is abstracted:

* In `Campaign` an input is the set of candidate instructions whose bytes were
  overwritten since the initial case, so that lineage and histories can be
  compared with the truth. A verdict, a coverage and a trace are any the
  simulator may answer. The ghost field `ran` holds the answer itself.
* Floats are exact: quantile ranks are kept as numerators of one denominator,
  scores as fractions. Rounding, infinities and NaN other than 0/0 are not
  represented; `GP19` is undefined where the code computes 0 * (1/0).
* A trace is a sequence of PCs (`CoverReduce`, `Patching`), of registers, CSRs and
  instructions (`ContextRestore`), or just its last PC (`Reduction`).
* In `Patching` a program is its halfwords, and what is written into it is known
  by which part of which jump or NOP a halfword holds; a run that meets a
  damaged instruction is lost. Of the CSRs, `ContextRestore` has `mstatus`, with
  MPP, MIE and MPIE, `mepc`, and `mscratch` and `sscratch` for the others of
  machine and of supervisor mode; the modes are user, supervisor and machine.
* In `Blocks` a module is the sequence of the events and nodes that `sv-parser`
  yields; a name is the position that introduces it, tagged as a label, an
  instance or the second instance of a statement.
* In `ContextRestore` a byte has one bit and a register four; in `Immediates`
  the widths 64/32/12/21 are parameters.
* Code outside the repository is modelled from its use: LibAFL's corpus,
  executor and stage (`First`, `QueueNext`, `Timeout`, `ExecutionDone`,
  `EndStage`), and the simulated program.
* Operators introduced by a comment "Faulty:" are used by no specification.
  Each is a plausible mistake that replaces a definition of the model, to see
  that some property notices it; `PROJECT.json` lists them under "mutants".

**Fairness.** `FairSpec` adds `WF_vars(Next)`, in `Reduction` and `CoverReduce`;
`WalkSpec` of `Blocks` includes it. The driver is one thread that
calls the simulator and returns from it: whenever a step is possible it is
eventually taken. Weak fairness of the whole next-state relation says just that;
no choice among steps is assumed to be fair. A run that never returns is what the
executor's timeout is for.

**Names.** Two proof modules extend two specifications each: `ProgramProof`, for
what is written into a program, extends `Patching` and `CodeSegment`, and
`ReportProof`, for what a report says, extends `Report` and `Blocks`. So
`Patching` has `EditInit`, `EditNext`, `EditSpec` and `Blocks` has `WalkInit`,
`WalkNext`, `WalkSpec` where the others have `Init`, `Next` and `Spec`.


## 3. What is checked with TLC

| Run | Instance | Shows |
|---|---|---|
| `campaign` | all three modes, two symmetric candidates, two coverages and four traces, a pool of one that evicts the scheduled seed in the middle of its stage, two iterations of up to two executions, `fastdtw` panics on an empty trace | types; nothing of the fuzzer's own aborts (`AbortsOnlyOutside`); entries carry their own run's metadata (`MetadataOfOwnRun`); without eviction histories have no gap (`HistoryUnbroken`); no two entries agree in both fingerprints; a recorded parent is an ancestor (`ParentIsAncestor`) |
| `campaign_withw` | WitHW with a pool of two among two coverages and four traces, weights 1:2, two iterations of up to two executions, so that the scheduled seed is evicted in the middle of its stage; symmetric candidates | the failing case stays the anchor of mutator and scheduler alike; histories claim nothing that is not so; the pool is bounded whenever the driver schedules; an evicted case never was nearer, in coverage and in state, than one that stays |
| `selection` | up to four cases, pools of three, all modes, diversity 0 and 2/5, all raw distances from small sets | the running minima are the distances read off the matrix; scores of picks fall; no case left out is nearer both ways; as many cases as wanted, none twice; weight 0 is `sort` |
| `report` | all metrics, four points, up to two passing cases, nested and missing blocks | the report gets through, under the metrics that weigh failures and under GP19 if some case executes each point, unless more points are wanted than the failing case executes (`ReportCompletes`); the sort panics under GP19 only, and for a point that no case executes only (`UndefinedOnlyUnexecuted`); fewer passing cases means more suspicious; blocks come once, in order of their best point |
| `report_barinel` | Barinel, two points, one passing case | **violated**, see section 5 |
| `reduction` | nine instructions, seven candidates, two failure sites, any ELF and trackers | the three searches implement `BoundarySearch` (`SettlesOnBoundaries`); the failure site is kept over the chain; no probe is repeated; panics only on inputs that lack an ELF, the executed code in it or a tracker, or that report a privilege mode that does not exist; termination |
| `cover_reduce` | traces of up to four instructions over three PCs, any mutation history, a window that holds the whole trace; up to two probes of the reducers before the campaign, with and without a limit of the user's | no stage runs under another's limit (`RunsUnderOwnLimit`); what is subtracted is common to both cases; no longer prefix would have worked, also if a run behind an overwritten instruction stops before its limit; termination |
| `cover_reduce_window` | the same with a window shorter than the trace | **violated**, see section 5 |
| `context_restore` | all programs of four instructions out of fifteen that access memory (loads, stores, swaps, atomic additions, SC with and without a result, a load and a store that the decoder refuses), and of four out of twelve that access CSRs and change the privilege (`csrrw`, `csrrs`, `mret`, `ecall`), entered in machine, supervisor or user mode; every prefix | the prefix's memory is reconstructed; the suffix finds every register, its privilege and its CSRs as they were, and is stopped by an instruction that its mode must not execute only if the program was entered below machine mode; nothing is restored that the suffix cannot notice |
| `patching` | 12-bit registers with 6-bit words and 3-bit immediates, all constants, jumps to all even addresses; all programs of five halfwords of mixed lengths with all traces of up to five instructions | constants are loaded (with one exception, section 5); jumps arrive and are refused only beyond reach; a patched program reaches its failure in exactly the instructions it is allowed, unless the jump lies on something needed |
| `blocks` | all designs of a top module with up to four events and a module below it with up to two, over a leaf; all sequences of up to three nodes | every instance is found under its own scope with its own blocks, no scope is made up; the walk ends unless a module contains itself |
| `code_segment` | all sorted layouts of up to three segments, empty and overlapping ones included, in 18 addresses; assemblers whose code grows or shrinks | the place is aligned, free, and the first; inserted code was assembled for its address |

**Why the bounds are enough.** They are chosen so that the case that could go
wrong occurs, and the mutants show that it does. A pool of one or two with two
executions a stage evicts the scheduled seed while children of it are still to
come, and a pool of two with four traces makes ties, shared ranks and choices of
whom to evict. Four cases and picks of three use a matrix of several rows and
make the minimum change more than once. Nine instructions let the doubling loop
of the NOP search overshoot the end, with a bisection of several rounds behind
it, and seven candidates give bisections of odd and even width. Four-instruction
traces over three PCs have loops, and prefixes that must shrink more than once;
two probes leave and re-enter the list of arguments before the campaign does.
Registers of a fifth of the real width still hold constants that are split
several times, and every carry occurs. Five halfwords hold jumps over compressed
candidates, loops that NOPs must spare, and sections that end within an
instruction. Four instructions go down to user or supervisor mode, trap back and
read what the trap wrote. Four events nest generate blocks and put an instance
behind, between and inside them. Three segments may be nested, overlapping,
adjacent and at the end of the address space.

Deadlock is checked in every run: each module has a `Finished` step (`Ended` in
`Patching`, `WalkFinished` in `Blocks`) for its end states only.


## 4. What is proved

All theorems hold for every value of the constants that satisfies the module's
assumptions: bounds are numbers, distances are naturals, `None` is none of the
values and no set of them, the weight of the coverage is a fraction with a
positive denominator, an immediate is narrower than a word and a word than a
register, sequences of events and nodes are finite and the modules are finitely
many, and the LOAD segments come sorted, as `elf.rs:206` sorts them before
`CodeSegment` begins.

**Campaign** (`CampaignProof`). `TypeCorrect`, `NoOwnAbort` and `InitialCaseStays`
state `TypeOK`, `AbortsOnlyOutside` and `InitialCaseAnchored`, in every mode. None
of them is inductive. The invariant `IInv` adds
  * `CountersOwed`: in which phase which loop counter is positive, so that none
    underflows;
  * `FreshBoot`: before the initial case is judged the corpus and the set of
    coverage hashes are empty, so that the case is interesting and gets id 0;
  * `ZeroIsInitial`: from then on entry 0 is the unmodified failing case, alive
    and the scheduler's initial one; since failing cases are never evicted it
    stays, and being the least id it is `corpus.first()`;
  * `CurrentAlive`: `corpus.current()` names an entry or nothing, in particular
    after an eviction;
  * `AddedIsChild`: between evaluation and `post_exec` the new entry exists, it is
    not the current one, and its parent is the current one: alive, or none.

A second invariant is built on the first, for what entries say of each other.
`CorpusInv` says of all entries that the initial one has nothing overwritten and
no parent, that the fingerprints of every passing entry are among those seen,
that parents are older, that the metadata is that of the entry's own run and
that histories are true. `SeedOfCurrent`, `ChildOfSeed` and `AddedIsMutant` carry
an entry through a stage: the seed is the entry the scheduler picked, even after
that entry was evicted, what is executed descends from it, and what was added is
what was executed. From it follow `MetadataBelongs` (`MetadataOfOwnRun`), `NoTwins`
(`FingerprintsDistinct`), `HistoriesSound` (`HistorySound`), `HistoriesComplete`
(`HistoryUnbroken`, by `QueueUnbroken`: without eviction the seed is the parent)
and `ParentsAreAncestors` (`ParentIsAncestor`). `PoolWithinLimit` (`PassPoolBounded`)
and `EvictionFair` (`EvictionKeepsDominating`) rest on lemmas of `Ordering`: ranks
in a strict total order count from zero without a gap, so that the nearest
`limit` entries are no more than `limit`, and they are closed under "precedes"; a
case that is nearer in coverage and in state has smaller quantile ranks, and
with a positive weight in either a smaller combined distance.

**Report** (`ReportProof`). `TypeCorrect` includes that the four counters of a
point add up to the cases counted; `FailureMetricsComplete` is `ReportCompletes`
and `SortPanicsForUnexecuted` is `UndefinedOnlyUnexecuted`. The invariant adds
that the failing case is the last of the list (`FailingCaseLast`), that counting
is over when the ranking begins (`CountedAll`), and what the one failing case
leaves in the counters of each point (`OneFailure`). The core are two lemmas:
under each of the five metrics a point that the failing case does not execute
scores zero (`UnexecutedScoresZero`) and one it executes scores more
(`ExecutedScoresMore`), and GP19 does the same as long as some case executes
each point; none of them divides zero by zero then (`NoNaN`), so that the
ranking lists all points of the failing case before the first other one. A
second invariant (`PassesCounted`, `PhasesInOrder`, `PrintedByRank`,
`BlocksByRank`, `ConvertedReported`) relates what has been printed and converted
to the ranking. `FewerPassesPrintedFirst` (`FewerPassesFirst`) adds that among
points the failing case executes the score falls strictly with the number of
passing cases that execute them (`FewerScoresMore`, for each metric);
`BlocksInOrder` (`BlocksByBestPoint`) that the first point of every block was
converted before those of the blocks behind it.

**Selection** (`SelectionProof`). All its properties are proved: `MinimaCurrent`
(`MinDistancesCurrent`), `GreedyScoresFall` (`ScoresFall`), `CloserCasesKept`
(`CloserKept`), `SelectsAsMany` (`SelectsEnough`) and `WeightlessSorts`
(`WeightlessIsSort`). The matrix of distances is a packed triangle that is filled
pair by pair; the arithmetic lemmas from `RowStart` to `GetIsPairDistance` show
that `PairNumber` counts the pairs in the order of the two loops, without gap or
collision, so that what `get` reads is what was computed for that pair. The
invariant (`TypeInv`, `PoolInv`, `PickInv`, `DecisionInv`, `Greedy`) says that the
minima are current (`MinCurrent`), never grow (`MinFrozen`), that the scores of
successive picks fall (`PicksFall`), and that among cases of one
distance to what is picked the nearest went first (`PickedNearest`). That
`is_better_diverse_candidate` is a strict total order (`BestExists`) makes each
pick well-defined. That weight 0 is `sort` is a pigeonhole argument: both pick
the same number of cases, and both sets are closed under "nearer".

**Encoder and patches** (`ProgramProof`). `LoadsUnlessCarryHolds`,
`JumpsArriveHolds` and `ReachesFailureHolds` state `LoadsUnlessCarry`, `JumpsArrive`
and `ReachesFailure`, for any widths, any program and any trace. The invariant
has two layers:
  * `GenInv`, of the encoder: while a constant is taken apart, the part that is
    left and the shifts and lower parts stacked so far build the constant again
    (`Building`: there is a sequence of register contents that leads from the
    one to the other), and while it is put together the register does the same,
    unless the first word has the carry that section 5 excepts. A jump that has
    landed takes one instruction, or two if it was a far one (`OneOrTwo`).
  * `Edited` and `SuffixInv`, `PrefixInv`, `NopInv`, of the three edits: which
    halfword holds what after each NOP (`SuffixLaid`, `PrefixLaid`), and where the
    run of the patched program can be with how many steps behind it
    (`SuffixPlace`, `PrefixPlace`): it retraces, and takes the jump only at the
    candidate or the entry. A run gets lost only at an instruction whose
    neighbour the jump covers, which is `JumpCollides`.

Its lemmas are about powers of two and about the sweep. `Pow2` is a recursive
function; that it exists and satisfies its equation is `Iterates` of `Ordering`,
which constructs the iterates of any function, and what holds for every exponent
is proved from the least exponent for which it would not. The same device shows
that the instructions that the NOP search meets from the start of the section on
do not overlap (`SweptApart`): of two that do, the first pair has a predecessor
that overlaps too.

**CodeSegment** (`ProgramProof`). `FoundPlaceIsFree`, `FoundPlaceIsFirst` and
`CodeInserted` state `PlaceIsFree`, `PlaceIsFirst` and `InsertedInPlace`;
`PlacingTypeCorrect` bounds the attempts. The invariant `PlacingInv` says that the
segments stay sorted (`StillSorted`), that the cursor is the largest end of the
segments left behind and no earlier address had room (`Occupied`), and that the
code at hand was assembled for the address at hand (`CodeAtHand`).

**RTL blocks** (`ReportProof`). `InstancesFoundHolds` states `InstancesFound`, for
every design whose modules have finitely many events and nodes.
`WalkInv` says, of a plain design (section 5):
  * `Parsing`: behind each node the direction in force is the last one stated
    (`Stated`), and the blocks found so far are those of the nodes behind
    (`Lists`);
  * `Prefixed`: at each event the prefix is the labels of the generate blocks that
    are open there (`Around`). The blocks open are a stack: `NetSplit` and the
    lemmas `OpenNextOpen`, `OpenNextClose`, `OpenNextOther` say which of them the
    next position leaves open, `NthElement` and `NthAdded` how that changes their
    order;
  * `Finding`: every scope filled in is one of the hierarchy and holds its
    module's blocks, and each instance inside it that the walk has passed is
    queued, at hand, or filled in as well.

That a scope has one instance only is `ScopesApart`: labels and instances are
told apart in it, and so the last step of a way is known from the scope. When
the queue is empty all of the hierarchy has been filled in: the least depth at
which an instance was missing would be that of the child of one that is there
(`AllFound`).

**Reduction** (`ReductionProof`). `FailureKept`, `Fresh` and `PanicsForInput` state
`ReductionKeepsFailure`, `ProbesAreFresh` and `PanicsOnlyOnInput`;
`SearchesSettle` says for each search that its result was accepted and the next
tighter candidate rejected; `TypeCorrect` includes that bounds never cross. The
invariant says that the case at hand fails as the original does or is the
original (`SameSite`), and for each search which candidates around `low` and
`high` have been accepted or rejected (`Searches`).

`KeepsPromise` is the refinement: every behaviour of
`Reduction` is, under the mapping at the end of that module, one of
`BoundarySearch`, in which a search only remembers what it accepted and
rejected, settles on an accepted candidate next to a rejected one, or on none if
the mildest candidate was rejected, and hands on a case that fails as before.
Each probe is a `Probe` (its candidate is new by `ProbesAreFresh`), the end of a
search a `Settle`, the start of one a `Begin`, a panic an `Abort`, the rest
stutters. It needs one more invariant, `NoneOfNone`: a strip search that ends has
candidates or has found nothing. That the simulator is monotone is not assumed,
and so a result is not the best there is: its neighbour was tried, that is all.

**Coverage reduction** (`CoverReduceProof`). `OwnLimit`, `SubtractedCommon` and
`LongestSubtracted` state `RunsUnderOwnLimit`, `SubtractedIsCommon` and
`LongestIsSubtracted`. The first two assume that the tracker window holds every
trace (`Window >= MaxTrace`); without it they are false, which is the second
violation of section 5. The third does not need the assumption. The invariant
has three parts, each built on those before it:
  * `ArgsInv` and `TraceInv`: between two stages the list of arguments holds the
    user's limit at most, after `run_fuzzer` that and the failing case's number
    of instructions, and during a simulation one more that is the prefix; so no
    passing case is longer than the failing one;
  * `SearchInv`: the prefix at hand is common, and every longer one is not
    common, not safe to cut off, or has crashed (`LongerFail`), which the choice
    of `common_prefix_len`, each round of shortening and each crash preserve;
  * `RunInv`: no overwritten instruction lies within the prefix
    (`NothingOverwritten`), so a simulation limited to it executes exactly what
    the failing case executes, whatever follows in the overwritten program.

**Context restore** (`ContextRestoreProof`). `MemoryReconstructed`,
`SuffixFindsRegisters`, `SuffixFindsPrivilege` and `OnlyReadBytesRestored` state
`ReplayedIsTraced`, `SuffixRepeats`, `PrivilegeRepeats` and `RestoredIsRead`, for any
number of registers, any program and any initial memory; the 4-bit addresses and
the set of instructions are those of the model. The proof is a simulation of the
traced run by the restored one. The invariant has a part for each phase:
  * `MachineInv`: the trace is a run of the machine, each entry with the memory
    that no tracker records leads to the next, each instruction is one its mode
    may execute (`Allowed`), and in a program entered in machine mode MPP is user
    mode whenever a lower mode runs (`MppClear`);
  * `ReplayInv`: before each instruction of the prefix the bytes replayed, over
    the initial memory, are the traced memory;
  * `ScanInv`: a byte is *dead* from an instruction on if everything that reads it
    from there finds it overwritten (`Dead`); bytes still looked for have been
    neither read nor overwritten, those found are alive, and what has been
    dropped is dead;
  * `RestoreInv`, `RegsInv`, `CsrsInv`: while the restoring code runs, bytes still to
    be stored have the traced value and all others have it too or are dead, only
    the two scratch registers differ from the start, and the CSRs up to `idx` are
    the target's;
  * `ResumeInv`: before every instruction of the suffix the registers are the
    traced ones, the CSRs are as far as the mode can tell (`SameTo`), and so is
    every byte that is not dead; and a run that is lost was entered below machine
    mode.

That a step of the suffix keeps `ResumeInv` is `EffectRepeats`: an instruction does
the same to two states that agree in what it reads. That reads are alive is the
point of `Dead`; that the decoder never claims a store that is not performed is
`FreshDecoded`, and the reason why stale accesses are excepted. Whether an SC
succeeds is no state of the machine that the trackers record, so `unseen` holds
it, and the restored run takes it from there.

`Ordering` holds what these proofs share: a non-empty set of naturals has a
least element (which `corpus.first()`, the first block of a point and the common
prefix rest on); functions defined by recursion over the naturals; ranks in a
finite strict total order; and the order by distance and id, the quantile ranks
and the combined distance of `Similarity`.

**Only model-checked**: termination (`Terminates` of `Reduction` and
`CoverReduce`, `WalkEnds` of `Blocks`), which is liveness under fairness and
needs ENABLED. The invariants and the action properties that the passing runs
check are all proved, as is the refinement of `BoundarySearch`.


## 5. Where the code and what it promises part

Two runs end with a violation on purpose:

* `report_barinel`. Barinel scores an executed point `1 - ef/(ef+nf)`
  (`spectrum/matrix.rs:124-128`). With the one failing case of a report, its
  points score 0 and points that only passing cases execute score 1. In the trace
  the failing case executes point 1 and one passing case point 2: point 2 is
  printed first, and the assertion in `bugloc.rs:64-72` ("point {} not in initial
  case") fails although every point is executed.
* `cover_reduce_window`. The length of the common prefix is computed from the
  trace in the corpus, of which the observer keeps the last window only
  (`observer/statetrackers_observer.rs`), and passed to the simulator as a number
  of instructions from the start of the program (`reduce/cover.rs:175`). For a
  trace longer than the window other instructions are run than were compared,
  and coverage is subtracted that is not common.

Further limits are written into the properties:

* `HistoryUnbroken` is claimed for PSBFL only. In WitHW an eviction of the
  scheduled seed clears `corpus.current()` (`bounded_mutator.rs:67`), the remaining
  children of the stage are added without a parent
  (`wit_scheduler.rs:30-35`), and their histories start from nothing
  (`withw_mutator.rs:246-253`).
* `FingerprintsDistinct` is about pairs of fingerprints. The corpus takes a case
  if its coverage *or* its trace is new, so passing cases may share a coverage;
  the message at `fuzzer.rs:435` speaks of "unique coverage".
* `ReportCompletes` is about five metrics, and about GP19 if some case executes
  each point. Under `GP19` a point that no case executes scores NaN
  (`matrix.rs:119`), on which the sort at `bugloc.rs:47` panics;
  `UndefinedOnlyUnexecuted` says that nothing else makes it panic. And under
  every metric it is conditional on the failing case executing at least
  `--top-sus` points, otherwise the same assertion fails.
* `LoadsUnlessCarry` excepts the 32-bit words from 0x7ffff800 to 0x7fffffff (and
  longer constants that come down to one): their rounded upper part is 0x80000,
  which LUI extends as negative, and the ADDIW that would truncate it is
  commented out (`inst.rs:217-218`).
* `ReplayedIsTraced`, `SuffixRepeats` and `PrivilegeRepeats` except traces with an
  atomic addition or a store-conditional that writes a register. Their decoding
  takes the old value, or the success, from `rd` in the registers *before* the
  instruction (`inst.rs:549`). The validation against the trace rejects such
  candidates later, so that reductions are lost, not wrong.
* `SuffixRepeats` and `PrivilegeRepeats` except entries into a lower mode whose
  `mret` changes an interrupt bit (`MretKeeps`). The restoring code writes the
  traced `mstatus` with another MPP (`strip_prefix.rs:259`), and the `mret`
  behind it copies MPIE into MIE and sets MPIE: the suffix runs with the traced
  bits only if both were set. A handler that reads `mstatus` after the next trap
  may tell.
* They also except traces that begin below machine mode and have changed mode at
  the candidate (`ModeInReach`): `mret` is used if the mode differs from the first
  entry's and is not machine mode (`strip_prefix.rs:240`), but nothing can take the
  restored program up. Such a program, or one that has to write a CSR its mode may
  not, is `Lost`; the validation rejects it, and the reduction is lost, not wrong.
* `ReachesFailure` excepts a jump that lies on something else (`JumpCollides`). In
  the suffix search a four-byte jump over a compressed candidate
  (`strip_suffix.rs:71`) covers the instruction behind it; only the failure itself
  is looked out for (`strip_suffix.rs:98`). If that instruction is executed before
  the candidate, the run meets the jump's second half there; if only after it, a
  NOP is written over that half. Either way the candidate is never accepted. In
  the prefix search the same happens if the suffix executes what follows the entry.
* `InstancesFound` is about plain designs. A label repeated after `end` is pushed
  like one in front (`mgr.rs:70-73`), and one label is popped for a block that has
  none (`mgr.rs:75-77`), so that the scope of the instances behind is too long or
  too short. Of a statement that makes several instances the first is found.
* `WalkEnds` excepts a module that contains itself: the queue has no guard.


## 6. What is not modelled

* The operands of compressed forms, the bit patterns of instructions, LIEF's
  serialisation, the SystemVerilog parser: data without control that a property
  could be about. Patching has the lengths of instructions and their overlaps.
* Atomic accesses other than swap, addition, LR and SC: the decoder treats them
  alike but for the arithmetic.
* `sret`, the delegation of traps to supervisor mode (`mideleg`, `medeleg`), address
  translation and interrupts: `ContextRestore` enters supervisor mode by `mret` and
  leaves it by a trap into machine mode.
* DTW and the entry distances: any non-negative numbers.
* Ticket counts and priorities that bias the mutators' and the scheduler's random
  choices: every choice of positive weight is allowed.
* Coverage counters: a case's coverage is a set of points or a fingerprint. Its
  accumulation over runs only feeds a log line.
* The Workload mode, argument parsing, files, times and logs.
* Two files that declare the same module (`mgr.rs:35-36` keeps the last), and the
  lines a node spans (`dfb.rs:209-226`).
* `reduce/trim.rs` is commented out; `mutator/selected_mutator.rs` and the
  single-name feedbacks and observers are constructed by nothing.


## 7. Plan

1. `Priorities`: the moving averages of the WitHW mutator, the reward of failures
   and the weighted draw without replacement.
2. `BoundedPool`: an abstract specification of the pool of passing cases (a set
   that grows by one and is cut to its nearest members), implemented by
   `Campaign` under a refinement mapping.
3. `Pipeline`: the remaining values the stages hand over, `CaseMetadata` above all.

`BoundedPool` and `Pipeline` are refinements to be proved step by step as that of
`BoundarySearch` is.
