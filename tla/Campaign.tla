------------------------------ MODULE Campaign ------------------------------
(***************************************************************************)
(* One fuzzing campaign of cpusbfl: run_fuzzer (src/fuzzer.rs) drives      *)
(* LibAFL's loop  schedule -> mutational stage -> execute -> judge ->      *)
(* post_exec  over a corpus seeded with one failing case.                  *)
(*                                                                         *)
(* A test case is abstracted to the set of candidate instructions whose    *)
(* bytes were overwritten since the initial case; the simulator is an      *)
(* oracle that answers any outcome: verdict, coverage fingerprint and      *)
(* (windowed) state trace.                                                 *)
(***************************************************************************)
EXTENDS Similarity

CONSTANTS
    Modes,            \* "PSBFL", "Random", "WitHW" (SBFLMode, lib.rs)
    Candidates,       \* PCs of the last window of the failing trace
    MutationCount,    \* instructions a guided mutator refills per mutation
    Covs, Trks,       \* coverage fingerprints, state traces
    EmptyTrk,         \* the state trace without entries
    CovDist, TrkDist, \* distances between two fingerprints / two traces
    CoverWeight, WeightScale,  \* cover_distance_weight as a fraction
    MaxCorpus,        \* max_corpus_size (WitHW)
    MaxIters,         \* max_iters, the bound of fuzz_loop_for
    MaxStageExecs,    \* StdMutationalStage draws 1..MaxStageExecs executions
    EmptyTraceAborts, \* does fastdtw panic on a trace without entries?
    None

ASSUME ModeAssumption == Modes \subseteq {"PSBFL", "Random", "WitHW"}
ASSUME CandidatesAssumption == IsFiniteSet(Candidates) /\ Candidates # {}
ASSUME MutationCountAssumption ==
    MutationCount \in 1..Cardinality(Candidates)
ASSUME TraceAssumption == EmptyTrk \in Trks
ASSUME DistanceAssumption == /\ CovDist \in [Covs \X Covs -> Nat]
                             /\ TrkDist \in [Trks \X Trks -> Nat]
ASSUME WeightAssumption ==
    WeightScale \in Nat \ {0} /\ CoverWeight \in 0..WeightScale
ASSUME BoundAssumption == /\ MaxCorpus \in Nat
                          /\ MaxIters \in Nat
                          /\ MaxStageExecs \in Nat \ {0}
ASSUME AbortAssumption == EmptyTraceAborts \in BOOLEAN
ASSUME NoneAssumption == /\ None \notin Nat
                         /\ None \notin BOOLEAN
                         /\ None \notin Covs
                         /\ None \notin Trks
                         /\ \A h \in SUBSET Candidates : h # None

VARIABLES
    mode,       \* --mode, fixed for a campaign
    pc,         \* where the single-threaded driver stands
    corpus,     \* id -> testcase with its metadata (InMemoryCorpus)
    nextId,     \* the corpus' progressive id counter
    current,    \* corpus.current(), which on_add takes as the parent
    initialId,  \* WitScheduler.initial_id
    seed,       \* the stage's clone of the scheduled input
    child,      \* the mutated input being executed
    mutatedPcs, \* mutator.mutated_pcs: what this mutation overwrote
    covSeen,    \* NewHashFeedback's set of coverage hashes
    trkSeen,    \* NewHashFeedback's set of state-trace hashes
    pending,    \* the feedbacks' pending metadata
    added,      \* the id the evaluation returned, for post_exec
    loops,      \* iterations fuzz_loop_for still owes
    execs       \* executions the stage still owes

vars == <<mode, pc, corpus, nextId, current, initialId, seed, child, mutatedPcs,
          covSeen, trkSeen, pending, added, loops, execs>>

Phases == {"boot", "schedule", "stage", "run", "evaluated"}
Ends   == {"emit", "rejected", "error", "havoc failed", "killed"}
Fuzzing == {"schedule", "stage", "run", "evaluated"}

Outcomes == [passed : BOOLEAN, cov : Covs, trk : Trks]
Guided   == mode \in {"PSBFL", "WitHW"}

\* ran is a ghost: what the simulator answered for this very input.
Testcases == [input   : SUBSET Candidates,
              passed  : BOOLEAN,
              cov     : Covs,
              trk     : Trks,
              parent  : Nat \cup {None},
              history : (SUBSET Candidates) \cup {None},
              ran     : Outcomes]

Ids == DOMAIN corpus

\* corpus.first()
First(c) == CHOOSE id \in DOMAIN c : \A other \in DOMAIN c : id <= other

(***************************************************************************)
(* Feedback: feedback_and_fast!(Passed, feedback_or!(Coverages, Trackers)) *)
(***************************************************************************)
NothingPending == [passed |-> None, cov |-> None, trk |-> None]

\* What the three feedbacks of a run leave pending for append_metadata.
PendingOf(out) == [passed |-> out.passed, cov |-> out.cov, trk |-> out.trk]

\* NewHashFeedback on the coverage: a hash that was never seen.
CoverageIsNew(out) == out.cov \notin covSeen

\* NewHashFeedback on the state trace, which must have entries besides.
TraceIsNew(out) == out.trk \notin trkSeen /\ out.trk # EmptyTrk

\* Faulty: feedback_or_fast! skips the trace feedback on new coverage.
JudgeFast(out) ==
    [interesting |-> CoverageIsNew(out) \/ TraceIsNew(out),
     covSeen     |-> covSeen \cup {out.cov},
     trkSeen     |-> IF CoverageIsNew(out) THEN trkSeen ELSE trkSeen \cup {out.trk},
     pending     |-> IF CoverageIsNew(out)
                     THEN [PendingOf(out) EXCEPT !.trk = pending.trk]
                     ELSE PendingOf(out)]

\* Faulty: a new coverage hash leaves the trace hash unrecorded.
JudgeOneHash(out) ==
    [interesting |-> CoverageIsNew(out) \/ TraceIsNew(out),
     covSeen     |-> covSeen \cup {out.cov},
     trkSeen     |-> IF CoverageIsNew(out) THEN trkSeen ELSE trkSeen \cup {out.trk},
     pending     |-> PendingOf(out)]

\* Faulty: pending metadata of a rejected run is not replaced.
JudgeStale(out) ==
    [interesting |-> CoverageIsNew(out) \/ TraceIsNew(out),
     covSeen     |-> covSeen \cup {out.cov},
     trkSeen     |-> trkSeen \cup {out.trk},
     pending     |-> IF pending = NothingPending THEN PendingOf(out)
                     ELSE [PendingOf(out) EXCEPT !.trk = pending.trk]]

\* Each feedback refills its pending metadata; each hash feedback inserts the
\* hash at once, wanted or not.  feedback_or! (unlike feedback_or_fast!) runs
\* the trace feedback whatever the coverage feedback says.
Judge(out) ==
    [interesting |-> CoverageIsNew(out) \/ TraceIsNew(out),
     covSeen     |-> covSeen \cup {out.cov},
     trkSeen     |-> trkSeen \cup {out.trk},
     pending     |-> PendingOf(out)]

\* append_metadata fails when a feedback has nothing pending.
Appendable(p) == p.passed # None /\ p.cov # None /\ p.trk # None

\* Faulty: metadata is taken from what was pending before this run.
NewTestcasePending(p, input, out) ==
    [input |-> input, passed |-> pending.passed, cov |-> pending.cov, trk |-> pending.trk,
     parent |-> current, history |-> None, ran |-> out]

\* append_metadata of the three feedbacks, Corpus::add and Scheduler::on_add:
\* the parent is the corpus' current entry.
NewTestcase(p, input, out) ==
    [input |-> input, passed |-> p.passed, cov |-> p.cov, trk |-> p.trk,
     parent |-> current, history |-> None, ran |-> out]

\* evaluate_input on an executed input with outcome out.
Evaluate(input, out, after) ==
    LET v     == Judge(out)
        ready == Appendable(v.pending)
    IN  /\ covSeen' = v.covSeen
        /\ trkSeen' = v.trkSeen
        /\ IF v.interesting /\ ready
           THEN /\ corpus' = [id \in Ids \cup {nextId} |->
                                IF id = nextId
                                THEN NewTestcase(v.pending, input, out)
                                ELSE corpus[id]]
                /\ nextId' = nextId + 1
                /\ added' = nextId
                /\ pending' = NothingPending
           ELSE /\ added' = None
                /\ pending' = v.pending
                /\ UNCHANGED <<corpus, nextId>>
        /\ pc' = IF v.interesting /\ ~ready THEN "error" ELSE after

(***************************************************************************)
(* The initial case                                                        *)
(***************************************************************************)
Init ==
    /\ mode \in Modes
    /\ pc = "boot"
    /\ corpus = [id \in {} |-> None]
    /\ nextId = 0
    /\ current = None
    /\ initialId = None
    /\ seed = {}
    /\ child = {}
    /\ mutatedPcs = {}
    /\ covSeen = {}
    /\ trkSeen = {}
    /\ pending = NothingPending
    /\ added = None
    /\ loops = MaxIters
    /\ execs = 0

\* Faulty: a passing initial case is not turned away.
BootAnyVerdict(out, built) ==
    /\ pc = "boot"
    /\ Evaluate({}, out,
                IF (Guided /\ out.trk = EmptyTrk) \/ ~built \/ MaxIters = 0
                THEN "rejected" ELSE "schedule")
    /\ initialId' = IF mode = "WitHW" THEN nextId ELSE initialId
    /\ UNCHANGED <<mode, current, seed, child, mutatedPcs, loops, execs>>

\* run_fuzzer up to fuzz_loop_for: the initial case must be accepted and must
\* fail, the guided mutators need a non-empty PC trace, and LibAFL refuses
\* zero iterations.  built: the ELF could be parsed, and every PC of the window
\* lies in it.
Boot(out, built) ==
    /\ pc = "boot"
    /\ Evaluate({}, out,
                IF \/ ~Judge(out).interesting
                   \/ out.passed
                   \/ Guided /\ out.trk = EmptyTrk
                   \/ ~built
                   \/ MaxIters = 0
                THEN "rejected" ELSE "schedule")
    /\ initialId' = IF mode = "WitHW" THEN nextId ELSE initialId
    /\ UNCHANGED <<mode, current, seed, child, mutatedPcs, loops, execs>>

(***************************************************************************)
(* Scheduling: fuzz_one, StdMutationalStage::perform                       *)
(***************************************************************************)
\* The stage clones the input of the scheduled test case once; what happens
\* to that test case later does not reach the clone.
EnterStage(id, n) ==
    /\ current' = id
    /\ seed' = IF id \in Ids THEN corpus[id].input ELSE {}
    /\ execs' = n
    /\ pc' = IF id \in Ids THEN "stage" ELSE "error"
    /\ UNCHANGED <<mode, corpus, nextId, initialId, child, mutatedPcs,
                   covSeen, trkSeen, pending, added, loops>>

\* QueueScheduler: the entry after the current one, or the first again.
QueueNext ==
    LET later == {id \in Ids : current # None /\ id > current}
    IN  IF later = {} THEN First(corpus)
        ELSE CHOOSE id \in later : \A other \in later : id <= other

ScheduleQueue(n) ==
    /\ pc = "schedule"
    /\ mode # "WitHW"
    /\ EnterStage(QueueNext, n)

\* ranked_passed_cases: every passing case but the initial one.
PassedCases(c, initial) == {id \in DOMAIN c : id # initial /\ c[id].passed}

\* Does ranking these cases panic in fastdtw?
RankingAborts(c, initial) ==
    /\ EmptyTraceAborts
    /\ \E id \in PassedCases(c, initial) : c[id].trk = EmptyTrk

\* WitScheduler::next: the initial case, or a passing case drawn with a
\* probability that is positive for each of them.
ScheduleWit(id, n) ==
    /\ pc = "schedule"
    /\ mode = "WitHW"
    /\ id \in {initialId} \cup PassedCases(corpus, initialId)
    /\ IF initialId \in Ids /\ ~RankingAborts(corpus, initialId)
       THEN EnterStage(id, n)
       ELSE /\ pc' = "error"
            /\ UNCHANGED <<mode, corpus, nextId, current, initialId, seed, child,
                           mutatedPcs, covSeen, trkSeen, pending, added,
                           loops, execs>>

(***************************************************************************)
(* Mutation and execution                                                  *)
(***************************************************************************)
\* PSBFL draws MutationCount tickets, with replacement.
TicketTargets == {S \in SUBSET Candidates : S # {} /\ Cardinality(S) <= MutationCount}

\* WitHW draws MutationCount distinct candidates.
DistinctTargets == {S \in SUBSET Candidates : Cardinality(S) = MutationCount}

\* Faulty: mutated_pcs is never cleared.
OverwrittenSoFar(S) == mutatedPcs \cup S

\* mutated_pcs.clear() comes first, then every refilled candidate is inserted.
Overwritten(S) == S

MutateGuided(S) ==
    /\ pc = "stage"
    /\ execs > 0
    /\ \/ mode = "PSBFL" /\ S \in TicketTargets
       \/ mode = "WitHW" /\ S \in DistinctTargets
    /\ child' = seed \cup S
    /\ mutatedPcs' = Overwritten(S)
    /\ pc' = "run"
    /\ UNCHANGED <<mode, corpus, nextId, current, initialId, seed, covSeen,
                   trkSeen, pending, added, loops, execs>>

\* ELFHavocScheduledMutator keeps no record of what it overwrites.
MutateHavoc(S) ==
    /\ pc = "stage"
    /\ execs > 0
    /\ mode = "Random"
    /\ child' = seed \cup S
    /\ pc' = "run"
    /\ UNCHANGED <<mode, corpus, nextId, current, initialId, seed, mutatedPcs,
                   covSeen, trkSeen, pending, added, loops, execs>>

\* A skipped havoc mutation uses up one execution of the stage.
SkipHavoc ==
    /\ pc = "stage"
    /\ execs > 0
    /\ mode = "Random"
    /\ execs' = execs - 1
    /\ UNCHANGED <<mode, pc, corpus, nextId, current, initialId, seed, child,
                   mutatedPcs, covSeen, trkSeen, pending, added, loops>>

\* A missing or oversized .text section or a grown ELF ends the campaign.
FailHavoc ==
    /\ pc = "stage"
    /\ execs > 0
    /\ mode = "Random"
    /\ pc' = "havoc failed"
    /\ UNCHANGED <<mode, corpus, nextId, current, initialId, seed, child,
                   mutatedPcs, covSeen, trkSeen, pending, added, loops, execs>>

Execute(out) ==
    /\ pc = "run"
    /\ Evaluate(child, out, "evaluated")
    /\ UNCHANGED <<mode, current, initialId, seed, child, mutatedPcs, loops, execs>>

\* The executor's timeout handler leaves the process from the signal handler.
Timeout ==
    /\ pc \in {"boot", "run"}
    /\ pc' = "killed"
    /\ UNCHANGED <<mode, corpus, nextId, current, initialId, seed, child,
                   mutatedPcs, covSeen, trkSeen, pending, added, loops, execs>>

(***************************************************************************)
(* Mutator::post_exec                                                      *)
(***************************************************************************)
\* Faulty: the parent's history is not merged.
NoInheritedHistory(id) == {}

\* The parent's recorded history; no parent or no metadata counts as empty.
InheritedHistory(id) ==
    LET parent == corpus[id].parent
    IN  IF parent \in Ids /\ corpus[parent].history # None
        THEN corpus[parent].history ELSE {}

\* state.testcase(parent_id)? fails when the parent has left the corpus, and
\* PSBFL's borrow of the parent panics when a case is its own parent.
ParentReadable(id) == corpus[id].parent \in (Ids \ {id}) \cup {None}

WithHistory ==
    IF Guided /\ mutatedPcs # {}
    THEN [corpus EXCEPT ![added].history = InheritedHistory(added) \cup mutatedPcs]
    ELSE corpus

\* BoundedMutator's ranking of the passing cases of corpus c around its
\* first entry.
RankedDistance(c) ==
    LET initial  == First(c)
        S        == PassedCases(c, initial)
        rawCover == [id \in S |-> CovDist[c[initial].cov, c[id].cov]]
        rawState == [id \in S |-> TrkDist[c[initial].trk, c[id].trk]]
    IN  [id \in S |-> CombinedDistance(QuantileRank(rawCover, S, id),
                                       QuantileRank(rawState, S, id),
                                       CoverWeight, WeightScale)]

\* Faulty: the pool may exceed its limit by one.
KeptOneMore(c) ==
    LET S == PassedCases(c, First(c))
    IN  IF Cardinality(S) > MaxCorpus + 1
        THEN (DOMAIN c \ S) \cup Nearest(RankedDistance(c), S, MaxCorpus)
        ELSE DOMAIN c

\* Faulty: the sorted list is split from the wrong end.
KeptFarthest(c) ==
    LET S == PassedCases(c, First(c))
        d == RankedDistance(c)
    IN  IF Cardinality(S) > MaxCorpus
        THEN (DOMAIN c \ S) \cup
             {id \in S : Cardinality({x \in S : Precedes(d, id, x)}) < MaxCorpus}
        ELSE DOMAIN c

\* The entries that survive the eviction.
Kept(c) ==
    LET S == PassedCases(c, First(c))
    IN  IF Cardinality(S) > MaxCorpus
        THEN (DOMAIN c \ S) \cup Nearest(RankedDistance(c), S, MaxCorpus)
        ELSE DOMAIN c

\* Faulty: current() falls back to the newest entry.
CurrentNewest(kept) ==
    IF current \in kept THEN current
    ELSE CHOOSE id \in kept : \A other \in kept : other <= id

\* Evicting the current entry leaves the corpus without one.
CurrentAfterEviction(kept) == IF current \in kept THEN current ELSE None

\* One execution of the stage is used up and its locals go out of scope.
ExecutionDone ==
    /\ execs' = execs - 1
    /\ child' = {}
    /\ added' = None

\* Nothing was added: BoundedMutator and its inner mutators return early.
PostExecNothing ==
    /\ pc = "evaluated"
    /\ added = None
    /\ pc' = "stage"
    /\ ExecutionDone
    /\ UNCHANGED <<mode, corpus, nextId, current, initialId, seed, mutatedPcs,
                   covSeen, trkSeen, pending, loops>>

\* PSBFL records the history of the new entry; Random records nothing.
PostExecQueue ==
    /\ pc = "evaluated"
    /\ added # None
    /\ mode # "WitHW"
    /\ corpus' = WithHistory
    /\ pc' = IF Guided /\ ~ParentReadable(added) THEN "error" ELSE "stage"
    /\ ExecutionDone
    /\ UNCHANGED <<mode, nextId, current, initialId, seed, mutatedPcs, covSeen,
                   trkSeen, pending, loops>>

\* WitHW records the history, ranks the passing cases and evicts the farthest
\* ones; evicting the scheduled entry clears corpus.current().
PostExecWit ==
    /\ pc = "evaluated"
    /\ added # None
    /\ mode = "WitHW"
    /\ IF ParentReadable(added) /\ ~RankingAborts(corpus, First(corpus))
       THEN LET kept == Kept(WithHistory)
            IN  /\ corpus' = [id \in kept |-> WithHistory[id]]
                /\ current' = CurrentAfterEviction(kept)
                /\ pc' = "stage"
       ELSE /\ pc' = "error"
            /\ UNCHANGED <<corpus, current>>
    /\ ExecutionDone
    /\ UNCHANGED <<mode, nextId, initialId, seed, mutatedPcs, covSeen, trkSeen,
                   pending, loops>>

\* The stage is over; fuzz_loop_for starts the next iteration or returns.
EndStage ==
    /\ pc = "stage"
    /\ execs = 0
    /\ loops' = loops - 1
    /\ pc' = IF loops = 1 THEN "emit" ELSE "schedule"
    /\ seed' = {}
    /\ UNCHANGED <<mode, corpus, nextId, current, initialId, child, mutatedPcs,
                   covSeen, trkSeen, pending, added, execs>>

Finished == pc \in Ends /\ UNCHANGED vars

Next ==
    \/ \E out \in Outcomes :
         \/ \E built \in BOOLEAN : Boot(out, built)
         \/ Execute(out)
    \/ \E n \in 1..MaxStageExecs :
         \/ ScheduleQueue(n)
         \/ \E id \in Ids : ScheduleWit(id, n)
    \/ \E S \in SUBSET Candidates : MutateGuided(S) \/ MutateHavoc(S)
    \/ SkipHavoc
    \/ FailHavoc
    \/ Timeout
    \/ PostExecNothing
    \/ PostExecQueue
    \/ PostExecWit
    \/ EndStage
    \/ Finished

Spec == Init /\ [][Next]_vars

(***************************************************************************)
(* Properties                                                              *)
(***************************************************************************)
\* Every variable keeps its shape; loop counters never go below zero, and a
\* test case in the corpus carries all three metadata of its feedbacks,
\* the initial one as well as those of any later run.
TypeOK ==
    /\ mode \in Modes
    /\ pc \in Phases \cup Ends
    /\ DOMAIN corpus \in SUBSET (0..(nextId - 1))
    /\ \A id \in Ids : corpus[id] \in Testcases
    /\ nextId \in Nat
    /\ current \in Nat \cup {None}
    /\ initialId \in Nat \cup {None}
    /\ seed \subseteq Candidates
    /\ child \subseteq Candidates
    /\ mutatedPcs \subseteq Candidates
    /\ covSeen \subseteq Covs
    /\ trkSeen \subseteq Trks
    /\ pending.passed \in BOOLEAN \cup {None}
    /\ pending.cov \in Covs \cup {None}
    /\ pending.trk \in Trks \cup {None}
    /\ added \in Nat \cup {None}
    /\ loops \in Nat
    /\ execs \in Nat

\* A campaign that got past its initial case never ends on one of the `?`s,
\* borrows or unwraps of the scheduler, the feedbacks or post_exec, in any
\* mode: ranking the passing cases with fastdtw is all that can end it there,
\* and only in WitHW and on an empty trace.
AbortsOnlyOutside ==
    pc = "error" => mode = "WitHW" /\ RankingAborts(corpus, First(corpus))

\* Whenever the driver schedules or emits, WitHW holds at most MaxCorpus
\* passing cases besides the failing ones.
PassPoolBounded ==
    (mode = "WitHW" /\ pc \in {"schedule", "stage", "emit"}) =>
        Cardinality(PassedCases(corpus, First(corpus))) <= MaxCorpus

\* The unmodified failing case stays the first entry of the corpus, and it is
\* the case the scheduler measures every distance from: BoundedMutator ranks
\* around corpus.first(), WitScheduler around its own initial_id.
InitialCaseAnchored ==
    pc \in Fuzzing =>
        /\ Ids # {}
        /\ ~corpus[First(corpus)].passed
        /\ corpus[First(corpus)].input = {}
        /\ corpus[First(corpus)].parent = None
        /\ mode = "WitHW" => initialId = First(corpus)

\* The metadata of an entry describes the run of that very entry, not an
\* earlier run whose pending metadata was left behind.
MetadataOfOwnRun ==
    \A id \in Ids : corpus[id].ran = [passed |-> corpus[id].passed,
                                      cov    |-> corpus[id].cov,
                                      trk    |-> corpus[id].trk]

\* A recorded history names only instructions that the input really had
\* overwritten, even though the mutator keeps one set for all mutations.
HistorySound ==
    \A id \in Ids :
        corpus[id].history # None => corpus[id].history \subseteq corpus[id].input

\* Without eviction the history of an entry names every instruction that was
\* overwritten on the way to it, over any number of generations:
\* reduce_pass_case_coverage takes it for the case's mutation history and
\* treats the rest as unmodified.
HistoryUnbroken ==
    mode = "PSBFL" =>
        \A id \in Ids :
            (id # First(corpus) /\ id # added) =>
                /\ corpus[id].history # None
                /\ corpus[id].input \subseteq corpus[id].history

\* An entry's input contains everything its recorded parent had overwritten,
\* as long as that parent is still in the corpus: on_add's parent is the case
\* the mutated clone came from.
ParentIsAncestor ==
    \A id \in Ids :
        corpus[id].parent \in Ids =>
            /\ corpus[id].parent < id
            /\ corpus[corpus[id].parent].input \subseteq corpus[id].input

\* No two entries agree on both fingerprints: a run whose coverage and trace
\* were seen before, even in a case that failed, adds nothing.
FingerprintsDistinct ==
    \A a, b \in Ids :
        (corpus[a].cov = corpus[b].cov /\ corpus[a].trk = corpus[b].trk) => a = b

CoverFrom(c, id) == CovDist[c[First(c)].cov, c[id].cov]
StateFrom(c, id) == TrkDist[c[First(c)].trk, c[id].trk]

\* Case a is at least as close to the failing case as b in coverage and in
\* state trace, and strictly closer in both or the older of the two.
Dominates(c, a, b) ==
    /\ CoverFrom(c, a) <= CoverFrom(c, b)
    /\ StateFrom(c, a) <= StateFrom(c, b)
    /\ \/ a < b
       \/ CoverFrom(c, a) < CoverFrom(c, b) /\ StateFrom(c, a) < StateFrom(c, b)

\* A step only ever drops passing cases, and never one that a surviving
\* passing case is dominated by, whatever the cover weight and although the
\* ranks are relative to a pool that changes with every entry.
EvictionKeepsDominating ==
    [][\A victim \in DOMAIN corpus \ DOMAIN corpus' :
         /\ victim \in PassedCases(corpus, First(corpus))
         /\ \A kept \in PassedCases(corpus', First(corpus')) :
               ~Dominates(corpus, victim, kept)]_vars
=============================================================================
