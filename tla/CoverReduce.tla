---------------------------- MODULE CoverReduce ----------------------------
(***************************************************************************)
(* --reduce-cover (src/reduce/cover.rs): before the spectrum is built, the *)
(* coverage that a case shares with a run proven harmless is subtracted    *)
(* from it,                                                                *)
(*   from the failing case the run of all but its last instruction         *)
(*   (reduce_init_case_coverage),                                          *)
(*   from a passing case the run of the longest common prefix of both      *)
(*   traces that a run survives (reduce_pass_case_coverage).               *)
(* Instructions that must not run are overwritten with NOPs and the        *)
(* simulator is limited to the number of instructions.                     *)
(*                                                                         *)
(* The searches read the traces in the corpus metadata, of which           *)
(* StateTrackersObserver keeps the last Window entries only; a simulation  *)
(* starts at the beginning.                                                *)
(*                                                                         *)
(* What comes before it is modelled as far as it drives the simulator: the *)
(* probes of --reduce-insts, the evaluation of the failing case, the limit *)
(* taken from it and the execution of a passing case.                      *)
(***************************************************************************)
EXTENDS Harness, FiniteSets

CONSTANTS
    Window,    \* --tracker-window-size
    MaxProbes  \* runs of the reducer before the campaign

ASSUME WindowAssumption == Window \in Nat
ASSUME ProbesAssumption == MaxProbes \in Nat

VARIABLES
    pc,
    job,      \* the case whose coverage is reduced: "init" or "pass"
    full,     \* all instructions the failing and the passing case execute
    mutated,  \* MutationMetadata of the passing case
    probes,   \* runs the reducer may still make
    prefix,   \* the prefix to be simulated
    nopped,   \* the PCs overwritten in the simulated input
    ran,      \* the instructions the last simulation executed
    crashed,  \* the prefixes whose simulation crashed
    reduced   \* what happened to the coverage of the case

search == <<prefix, nopped, ran, crashed, reduced>>
vars == <<harness, pc, job, full, mutated, probes, search>>

PcsOf(s) == {s[i] : i \in DOMAIN s}

\* StateTrackersObserver::get_state_tracker.
Windowed(s) ==
    IF Len(s) > Window THEN SubSeq(s, Len(s) - Window + 1, Len(s)) ELSE s

InitTrace == Windowed(full.init)

PassTrace == Windowed(full.pass)

Init ==
    /\ HarnessInit
    /\ pc = "reduce"
    /\ job = "init"
    /\ full \in [init : Traces, pass : {<<>>}]
    /\ mutated = {}
    /\ probes = MaxProbes
    /\ prefix = 0
    /\ nopped = {}
    /\ ran = <<>>
    /\ crashed = {}
    /\ reduced = "no"

Unchanged == UNCHANGED <<job, full, mutated, probes>>

(***************************************************************************)
(* Before the reduction: _main and run_fuzzer                              *)
(***************************************************************************)
\* run_and_collect of the instruction reducers, with whatever limit they
\* choose for a candidate.
Probe(n) ==
    /\ pc = "reduce" /\ probes > 0
    /\ PushLimit(n)
    /\ probes' = probes - 1
    /\ pc' = "probing"
    /\ UNCHANGED <<job, full, mutated, search>>

ProbeRun ==
    /\ pc = "probing"
    /\ Simulate(full.init)
    /\ pc' = "probed"
    /\ UNCHANGED search
    /\ Unchanged

ProbeRead ==
    /\ pc = "probed"
    /\ PopLimit
    /\ pc' = "reduce"
    /\ UNCHANGED search
    /\ Unchanged

\* The failing case as it comes out of the reducers; under a limit of the
\* user's it may not get to its failure, and is turned away.
EvaluateInit ==
    /\ pc = "reduce"
    /\ Simulate(full.init)
    /\ pc' = "evaluated"
    /\ UNCHANGED search
    /\ Unchanged

RejectInit ==
    /\ pc = "evaluated"
    /\ trackers # full.init
    /\ pc' = "end"
    /\ UNCHANGED <<harness, search>>
    /\ Unchanged

StartCampaign ==
    /\ pc = "evaluated"
    /\ trackers = full.init
    /\ FixLimit
    /\ pc' = "campaign"
    /\ UNCHANGED search
    /\ Unchanged

\* A mutated case that would execute trace.  Its mutation history may be
\* incomplete, so that the traces may differ anywhere behind the reset vector.
ExecutePass(trace, pcs) ==
    /\ pc = "campaign" /\ job = "init"
    /\ trace[1] = full.init[1]
    /\ Simulate(trace)
    /\ full' = [full EXCEPT !.pass = trackers']
    /\ mutated' = pcs
    /\ job' = "pass"
    /\ UNCHANGED <<pc, probes, search>>

EndCampaign ==
    /\ pc = "campaign"
    /\ pc' = "start"
    /\ UNCHANGED <<harness, search>>
    /\ Unchanged

\* What the simulator executes of an input whose PCs in nops are overwritten:
\* the instructions of the trace until the first overwritten one; from there on
\* anything may follow, and the simulation may stop before its limit.
Executes(trace, nops, run) ==
    LET same == {i \in 1..Least(Limit, Len(trace)) :
                     \A j \in 1..i - 1 : trace[j] \notin nops}
    IN  /\ Len(run) <= Limit
        /\ \A i \in same : i <= Len(run) /\ run[i] = trace[i]

(***************************************************************************)
(* reduce_init_case_coverage                                               *)
(***************************************************************************)
\* pc_appears_more_than_once
LastPcRepeats ==
    \E i \in 1..Len(InitTrace) - 1 : InitTrace[i] = InitTrace[Len(InitTrace)]

InitSkip ==
    /\ pc = "start" /\ job = "init"
    /\ Len(InitTrace) <= 1 \/ LastPcRepeats
    /\ pc' = "end"
    /\ UNCHANGED <<harness, prefix, nopped, ran, crashed, reduced>>
    /\ Unchanged

\* The last instruction may lie outside the ELF.
InitUnbuilt ==
    /\ pc = "start" /\ job = "init"
    /\ Len(InitTrace) > 1 /\ ~LastPcRepeats
    /\ pc' = "end"
    /\ reduced' = "unbuilt"
    /\ UNCHANGED <<harness, prefix, nopped, ran, crashed>>
    /\ Unchanged

InitStart ==
    /\ pc = "start" /\ job = "init"
    /\ Len(InitTrace) > 1 /\ ~LastPcRepeats
    /\ prefix' = Len(InitTrace) - 1
    /\ nopped' = {InitTrace[Len(InitTrace)]}
    /\ PushLimit(prefix')
    /\ pc' = "run"
    /\ UNCHANGED <<ran, crashed, reduced>>
    /\ Unchanged

\* The simulation of either case.
Run(trace) ==
    /\ pc = "run"
    /\ Executes(full[job], nopped, trace)
    /\ Simulate(trace)
    /\ pc' = "read"
    /\ UNCHANGED search
    /\ Unchanged

\* A crash replaces the coverage, a passing run is subtracted from it.
InitRead ==
    /\ pc = "read" /\ job = "init"
    /\ ran' = trackers
    /\ PopLimit
    /\ reduced' \in {"replaced", "subtracted"}
    /\ pc' = "end"
    /\ UNCHANGED <<prefix, nopped, crashed>>
    /\ Unchanged

(***************************************************************************)
(* reduce_pass_case_coverage                                               *)
(***************************************************************************)
PassSkip ==
    /\ pc = "start" /\ job = "pass"
    /\ mutated = {}
    /\ pc' = "end"
    /\ UNCHANGED <<harness, prefix, nopped, ran, crashed, reduced>>
    /\ Unchanged

\* Faulty: mutated instructions count as common.
CommonAnyway(n) == \A i \in 1..n : InitTrace[i] = PassTrace[i]

Common(n) ==
    \A i \in 1..n : InitTrace[i] = PassTrace[i] /\ PassTrace[i] \notin mutated

\* common_prefix_len
CommonPrefix ==
    CHOOSE n \in 0..Len(PassTrace) :
        /\ n <= Len(InitTrace) /\ Common(n)
        /\ (n < Len(InitTrace) /\ n < Len(PassTrace)) => ~Common(n + 1)

PassStart ==
    /\ pc = "start" /\ job = "pass"
    /\ mutated # {}
    /\ prefix' = CommonPrefix
    /\ pc' = "shorten"
    /\ UNCHANGED <<harness, nopped, ran, crashed, reduced>>
    /\ Unchanged

SuffixPcs == PcsOf(SubSeq(PassTrace, prefix + 1, Len(PassTrace)))

\* Instructions of the prefix that the overwritten suffix would change.
Conflicts == {i \in 1..prefix : PassTrace[i] \in SuffixPcs}

\* One round of max_prefix_len_preserving_suffix_nop.
Shorten ==
    /\ pc = "shorten"
    /\ IF Conflicts # {}
       THEN /\ prefix' = (CHOOSE i \in Conflicts : \A j \in Conflicts : i <= j) - 1
            /\ UNCHANGED pc
       ELSE /\ pc' = IF prefix = 0 THEN "end" ELSE "probe"
            /\ UNCHANGED prefix
    /\ UNCHANGED <<harness, nopped, ran, crashed, reduced>>
    /\ Unchanged

\* Some PC of the suffix lies outside the ELF.
PassUnbuilt ==
    /\ pc = "probe"
    /\ pc' = "end"
    /\ reduced' = "unbuilt"
    /\ UNCHANGED <<harness, prefix, nopped, ran, crashed>>
    /\ Unchanged

\* Faulty: the next shorter prefix is passed over.
ShorterByTwo == IF prefix > 1 THEN prefix - 2 ELSE 0

\* Faulty: the prefix that crashed is tried again.
ShorterNot == prefix

Shorter == prefix - 1

PassProbe ==
    /\ pc = "probe"
    /\ nopped' = SuffixPcs
    /\ PushLimit(prefix)
    /\ pc' = "run"
    /\ UNCHANGED <<prefix, ran, crashed, reduced>>
    /\ Unchanged

PassRead ==
    /\ pc = "read" /\ job = "pass"
    /\ ran' = trackers
    /\ PopLimit
    /\ \/ /\ reduced' = "subtracted"
          /\ pc' = "end"
          /\ UNCHANGED <<prefix, crashed>>
       \/ /\ crashed' = crashed \cup {prefix}
          /\ prefix' = Shorter
          /\ pc' = "shorten"
          /\ UNCHANGED reduced
    /\ UNCHANGED nopped
    /\ Unchanged

Finished == pc = "end" /\ UNCHANGED vars

Next ==
    \/ \E n \in 1..MaxTrace : Probe(n)
    \/ ProbeRun \/ ProbeRead
    \/ EvaluateInit \/ RejectInit \/ StartCampaign
    \/ \E trace \in Traces, pcs \in SUBSET PCs : ExecutePass(trace, pcs)
    \/ EndCampaign
    \/ InitSkip \/ InitUnbuilt \/ InitStart \/ InitRead
    \/ PassSkip \/ PassStart \/ Shorten \/ PassUnbuilt \/ PassProbe \/ PassRead
    \/ \E trace \in Traces : Run(trace)
    \/ Finished

Spec == Init /\ [][Next]_vars

\* The program runs on one thread, one simulation after the other.
FairSpec == Spec /\ WF_vars(Next)

(***************************************************************************)
(* Properties                                                              *)
(***************************************************************************)
\* What is subtracted from a passing case was executed by the failing case as
\* well, from its first instruction on, and no mutation touched it.
SubtractedIsCommon ==
    (job = "pass" /\ reduced = "subtracted") =>
        /\ ran = SubSeq(full.init, 1, prefix)
        /\ PcsOf(ran) \cap mutated = {}

\* Every run stops where its own caller wants it to, though all share one
\* list of arguments and two stages append to it: the failing case is
\* evaluated under no limit but the user's, no case of the campaign runs
\* longer than it did, a prefix is simulated to its end, and the failing case
\* to just before its last instruction.
RunsUnderOwnLimit ==
    /\ pc = "evaluated" =>
            /\ Len(simArgs) <= 1
            /\ trackers = SubSeq(full.init, 1, Least(Limit, Len(full.init)))
    /\ (pc = "start" /\ job = "pass") => Len(full.pass) <= Len(full.init)
    /\ pc = "read" => Len(trackers) = prefix
    /\ (pc = "read" /\ job = "init") =>
            trackers = SubSeq(full.init, 1, Len(full.init) - 1)
    /\ pc = "end" => saved = None /\ Len(simArgs) <= 2

\* A prefix is safe to be cut off if its instructions do not occur behind it.
Safe(n) ==
    \A i \in 1..n, j \in n + 1..Len(PassTrace) : PassTrace[i] # PassTrace[j]

\* The longest possible prefix is subtracted: every longer one is not common,
\* or cannot be cut off, or its simulation crashed.
LongestIsSubtracted ==
    (job = "pass" /\ pc = "end" /\ mutated # {} /\ reduced # "unbuilt") =>
        \A n \in prefix + 1..Len(PassTrace) :
            n <= Len(InitTrace) /\ Common(n) /\ Safe(n) => n \in crashed

\* The search for a prefix comes to an end whatever the simulator answers.
Terminates == <>(pc = "end")
=============================================================================
