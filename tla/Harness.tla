------------------------------- MODULE Harness -------------------------------
(***************************************************************************)
(* The simulator as the program drives it (src/harness.rs): one list of    *)
(* arguments and one set of trackers, both global, shared by every stage.  *)
(*   SIM_ARGS           the user's arguments; sim_with_max_inst appends -I *)
(*                      for one run and puts the list back, run_fuzzer     *)
(*                      appends -I once for all that follows,              *)
(*   trackers()         what the last run executed, refilled by each run.  *)
(*                                                                         *)
(* Of the arguments only the limits given with -I are kept; the simulator  *)
(* obeys the last one.                                                     *)
(***************************************************************************)
EXTENDS Integers, Sequences

CONSTANTS
    PCs,        \* addresses of instructions
    MaxTrace,   \* instructions a run executes at most
    UserLimits, \* limits the user may pass with -I
    None

ASSUME TraceAssumption == MaxTrace \in Nat
ASSUME LimitAssumption == UserLimits \subseteq Nat

VARIABLES
    simArgs,  \* SIM_ARGS: the limits in it
    saved,    \* original_args of sim_with_max_inst, None outside it
    trackers  \* the instructions the last run executed

harness == <<simArgs, saved, trackers>>

Traces == UNION {[1..n -> PCs] : n \in 1..MaxTrace}

Least(a, b) == IF a < b THEN a ELSE b

\* Without -I a run ends by itself.
Limit == IF simArgs = <<>> THEN MaxTrace ELSE simArgs[Len(simArgs)]

HarnessInit ==
    /\ simArgs \in {<<>>} \cup {<<n>> : n \in UserLimits}
    /\ saved = None
    /\ trackers = <<>>

\* A run of an input that would execute trace, fuzz_harness.
Simulate(trace) ==
    /\ trackers' = SubSeq(trace, 1, Least(Limit, Len(trace)))
    /\ UNCHANGED <<simArgs, saved>>

\* The two halves of sim_with_max_inst, around the run.
PushLimit(n) ==
    /\ saved = None
    /\ saved' = simArgs
    /\ simArgs' = Append(simArgs, n)
    /\ UNCHANGED trackers

\* Faulty: the limit of one run stays in force.
PopNothing ==
    /\ saved # None
    /\ saved' = None
    /\ UNCHANGED <<simArgs, trackers>>

PopLimit ==
    /\ saved # None
    /\ simArgs' = saved
    /\ saved' = None
    /\ UNCHANGED trackers

\* run_fuzzer: the campaign and all after it run no longer than this run did.
FixLimit ==
    /\ simArgs' = Append(simArgs, Len(trackers))
    /\ UNCHANGED <<saved, trackers>>
=============================================================================
