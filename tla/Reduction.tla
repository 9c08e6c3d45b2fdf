------------------------------ MODULE Reduction ------------------------------
(***************************************************************************)
(* Reducing the failing case before the campaign: reduce_fault_case        *)
(* (src/reduce/mod.rs) runs three searches, one after the other, over the  *)
(* output of the one before:                                               *)
(*   nop     nop_unexecuted_insts: the smallest window of instructions     *)
(*           around the executed ones that has to be kept,                 *)
(*   prefix  strip_irrelevant_prefix: the latest instruction to jump to,   *)
(*   suffix  strip_irrelevant_suffix: the earliest one to jump from.       *)
(* Every probe of a search is one simulation, validated by                 *)
(* validate_exact_trace; the simulator may answer anything.                *)
(***************************************************************************)
EXTENDS Integers, FiniteSets, Sequences

CONSTANTS
    Insts,          \* instructions in the executable sections
    MaxCandidates,  \* instructions of the trace a strip search may consider
    Sites,          \* PCs a run can end at
    None

ASSUME InstAssumption == Insts \in Nat
ASSUME CandidateAssumption == MaxCandidates \in Nat
ASSUME NoneAssumption == None \notin Sites /\ None \notin Nat

VARIABLES
    pc,         \* the search and the loop it is in
    elf,        \* what the ELF parser makes of the case
    tracked,    \* what the trackers --state selects show
    original,   \* what the run of the original case showed
    shown,      \* what the run of the case at hand showed
    count,      \* candidates of a strip search
    lastFailed, \* the largest window known to fail while it grows
    low, high,  \* the bounds of the search
    best,       \* the last accepted probe and what its run showed
    accepted,   \* the probes of this search that kept the failure
    rejected,   \* the ones that did not
    kept        \* the probe each finished search settled on

vars == <<pc, elf, tracked, original, shown, count, lastFailed, low, high,
          best, accepted, rejected, kept>>

Ends == {"done", "panic"}

\* LIEF rejects the file; or some executed PC has no offset in it, or some
\* section does not end with an instruction; or neither.
Elfs == {"rejected", "partial", "mapped"}

\* Every tracker is selected; or one is missing; or the trace holds a privilege
\* mode other than 0, 1 and 3.
Tracked == {"all", "no PCs", "no registers", "no CSRs", "unknown mode"}

\* A run's exit kind and the last PC of its trace.
Runs == [kind : {"Crash", "Ok"}, last : Sites \cup {None}]

\* A candidate for which no ELF can be built is not simulated.
Unbuilt == [kind |-> "Unbuilt", last |-> None]

\* What a search remembers of its last accepted probe.
Bests == [at : Nat, run : Runs]

ASSUME BestAssumption == None \notin Bests

\* Faulty: the verdict of the run is ignored.
SameFailureAnyVerdict(out) == out.last # None /\ out.last = shown.last

\* is_same_failure_site against the case at hand.
SameFailureSite(out) ==
    /\ out.kind = "Crash"
    /\ out.last # None
    /\ out.last = shown.last

Init ==
    /\ pc = "nop"
    /\ elf \in Elfs
    /\ tracked \in Tracked
    /\ original \in Runs
    /\ (tracked = "no PCs") <=> (original.last = None)
    /\ shown = original
    /\ count = 0
    /\ lastFailed = 0
    /\ low = 0
    /\ high = 0
    /\ best = None
    /\ accepted = {} /\ rejected = {}
    /\ kept = <<>>

Accepted(out) == SameFailureSite(out)

\* What the simulator may answer: without tracked PCs no run shows any, and a
\* probe that was simulated before is answered as before.
Answers(probe, out) ==
    /\ out.last # None => tracked # "no PCs"
    /\ probe \in accepted => Accepted(out)
    /\ probe \in rejected => ~Accepted(out)

Record(probe, out) ==
    /\ Answers(probe, out)
    /\ IF Accepted(out)
       THEN /\ accepted' = accepted \cup {probe}
            /\ best' = [at |-> probe, run |-> out]
            /\ UNCHANGED rejected
       ELSE /\ rejected' = rejected \cup {probe}
            /\ UNCHANGED <<accepted, best>>

\* The result of a search becomes the case at hand; a search without a result
\* leaves it alone.
HandOver(result, next) ==
    /\ kept' = Append(kept, IF result = None THEN None ELSE result.at)
    /\ shown' = IF result = None THEN shown ELSE result.run
    /\ pc' = next
    /\ UNCHANGED <<elf, tracked, original, count, lastFailed, low, high,
                   best, accepted, rejected>>

Unchanged == UNCHANGED <<elf, tracked, original, shown, count, kept>>

Mid == low + (high - low) \div 2

\* Faulty: a rejected probe stays among the candidates.
AtMid == Mid

AfterMid == Mid + 1

(***************************************************************************)
(* nop_unexecuted_insts                                                    *)
(***************************************************************************)
\* No window at all: keep the executed instructions only.
NopNoWindow(out) ==
    /\ pc = "nop"
    /\ elf # "rejected"
    /\ Record(0, out)
    /\ pc' = IF Accepted(out) THEN "nop end" ELSE "nop grow"
    /\ lastFailed' = 0
    /\ low' = 0
    /\ high' = 1
    /\ Unchanged

\* LIEF failing on the input was only logged before, and a section may end
\* in the middle of what its last bytes decode to.
NopPanic ==
    /\ pc = "nop"
    /\ elf # "mapped"
    /\ pc' = "panic"
    /\ UNCHANGED <<elf, tracked, original, shown, count, lastFailed, low,
                   high, best, accepted, rejected, kept>>

Doubled == IF 2 * high < Insts THEN 2 * high ELSE Insts

LowAfterFailed == lastFailed + 1

NopGrow(out) ==
    /\ pc = "nop grow"
    /\ Record(high, out)
    /\ IF Accepted(out)
       THEN pc' = "nop bisect" /\ low' = LowAfterFailed
            /\ UNCHANGED <<lastFailed, high>>
       ELSE IF high >= Insts
       THEN pc' = "nop end" /\ UNCHANGED <<lastFailed, low, high>>
       ELSE lastFailed' = high /\ high' = Doubled /\ UNCHANGED <<pc, low>>
    /\ Unchanged

\* Smaller windows are tried next to the accepted one.
BisectDown(out, end) ==
    /\ low < high
    /\ Record(Mid, out)
    /\ IF Accepted(out) THEN high' = Mid /\ UNCHANGED low
       ELSE low' = AfterMid /\ UNCHANGED high
    /\ pc' = IF low' < high' THEN pc ELSE end
    /\ UNCHANGED lastFailed
    /\ Unchanged

NopBisect(out) == pc = "nop bisect" /\ BisectDown(out, "nop end")

\* The loop is not entered at all.
NopNoBisect ==
    /\ pc = "nop bisect"
    /\ low >= high
    /\ pc' = "nop end"
    /\ UNCHANGED <<elf, tracked, original, shown, count, lastFailed, low,
                   high, best, accepted, rejected, kept>>

NopEnd == pc = "nop end" /\ HandOver(best, "prefix")

(***************************************************************************)
(* strip_irrelevant_prefix                                                 *)
(***************************************************************************)
\* Faulty: the last of no candidates is taken for granted.
PrefixFirstUnwrapped(n) == IF n = 0 THEN "panic" ELSE "prefix last"

PrefixFirst(n) ==
    IF n = 0 THEN "prefix end"
    ELSE IF tracked \in {"no registers", "no CSRs"} THEN "panic" ELSE "prefix last"

\* n instructions of the trace follow its first SKIP_START_INST_NUM ones.
PrefixStart(n) ==
    /\ pc = "prefix"
    /\ tracked = "no PCs" => n = 0
    /\ count' = n
    /\ low' = 0
    /\ high' = n
    /\ best' = None
    /\ accepted' = {} /\ rejected' = {}
    /\ pc' = PrefixFirst(n)
    /\ UNCHANGED <<elf, tracked, original, shown, lastFailed, kept>>

\* The last candidate, the shortest case, comes first.
PrefixLast(out) ==
    /\ pc = "prefix last"
    /\ Record(count - 1, out)
    /\ high' = count - 1
    /\ pc' = IF Accepted(out) \/ count = 1 THEN "prefix end" ELSE "prefix bisect"
    /\ UNCHANGED <<low, lastFailed>>
    /\ Unchanged

\* Faulty: a failing probe is excluded like an accepted one.
BoundAfterFailed == Mid - 1

BoundAtFailed == Mid

\* Later candidates are tried next to the accepted one.
PrefixBisect(out) ==
    /\ pc = "prefix bisect"
    /\ low < high
    /\ Record(Mid, out)
    /\ IF Accepted(out) THEN low' = AfterMid /\ UNCHANGED high
       ELSE high' = BoundAtFailed /\ UNCHANGED low
    /\ pc' = IF low' < high' THEN pc ELSE "prefix end"
    /\ UNCHANGED lastFailed
    /\ Unchanged

PrefixEnd == pc = "prefix end" /\ HandOver(best, "suffix")

(***************************************************************************)
(* strip_irrelevant_suffix                                                 *)
(***************************************************************************)
\* Distinct PCs of the trace that can reach the failing one by a jump.
SuffixStart(n) ==
    /\ pc = "suffix"
    /\ tracked = "no PCs" => n = 0
    /\ count' = n
    /\ low' = 0
    /\ high' = n
    /\ best' = None
    /\ accepted' = {} /\ rejected' = {}
    /\ pc' = IF tracked = "no PCs" THEN "panic"
             ELSE IF n = 0 THEN "suffix end" ELSE "suffix bisect"
    /\ UNCHANGED <<elf, tracked, original, shown, lastFailed, kept>>

SuffixBisect(out) == pc = "suffix bisect" /\ BisectDown(out, "suffix end")

SuffixEnd == pc = "suffix end" /\ HandOver(best, "done")

\* A strip search looks up the file offsets of the executed PCs.
StripPanic ==
    /\ pc \in {"prefix last", "prefix bisect", "suffix bisect"}
    /\ elf = "partial"
    /\ pc' = "panic"
    /\ UNCHANGED <<elf, tracked, original, shown, count, lastFailed, low,
                   high, best, accepted, rejected, kept>>

\* mstatus_with_mpp, if the candidate's mode is the unknown one.
ModePanic ==
    /\ pc \in {"prefix last", "prefix bisect"}
    /\ tracked = "unknown mode"
    /\ pc' = "panic"
    /\ UNCHANGED <<elf, tracked, original, shown, count, lastFailed, low,
                   high, best, accepted, rejected, kept>>

Finished == pc \in Ends /\ UNCHANGED vars

Next ==
    \/ \E out \in Runs : NopNoWindow(out) \/ NopGrow(out) \/ NopBisect(out)
    \/ NopPanic
    \/ StripPanic
    \/ ModePanic
    \/ NopNoBisect
    \/ NopEnd
    \/ \E n \in 0..MaxCandidates : PrefixStart(n) \/ SuffixStart(n)
    \/ \E out \in Runs \cup {Unbuilt} :
         PrefixLast(out) \/ PrefixBisect(out) \/ SuffixBisect(out)
    \/ PrefixEnd
    \/ SuffixEnd
    \/ Finished

Spec == Init /\ [][Next]_vars

\* The searches run on one thread, one simulation after the other.
FairSpec == Spec /\ WF_vars(Next)

(***************************************************************************)
(* Properties                                                              *)
(***************************************************************************)
Steps == {"nop", "nop grow", "nop bisect", "nop end", "prefix", "prefix last",
          "prefix bisect", "prefix end", "suffix", "suffix bisect", "suffix end"}

Bisecting == {"nop bisect", "prefix bisect", "suffix bisect"}

\* Every variable keeps its shape, and the bounds of a bisection stay within
\* its candidates.
TypeOK ==
    /\ pc \in Steps \cup Ends
    /\ elf \in Elfs
    /\ tracked \in Tracked
    /\ original \in Runs /\ shown \in Runs
    /\ count \in 0..MaxCandidates
    /\ lastFailed \in Nat /\ low \in Nat /\ high \in Nat
    /\ best \in Bests \cup {None}
    /\ accepted \subseteq Nat /\ rejected \subseteq Nat
    /\ kept \in Seq(Nat \cup {None})
    /\ pc \in Bisecting => low <= high

\* A case that some search reduced still crashes, and at the PC the original
\* case crashed at, although each search only compares with the one before.
ReductionKeepsFailure ==
    (\E i \in DOMAIN kept : kept[i] # None) =>
        shown.kind = "Crash" /\ shown.last = original.last /\ shown.last # None

\* No search simulates a candidate twice.
ProbesAreFresh ==
    /\ (pc \in Bisecting /\ low < high) => Mid \notin accepted \cup rejected
    /\ pc = "nop grow" => high \notin accepted \cup rejected

\* A reduction panics only if the ELF cannot be read or does not hold all of
\* the executed code, --state leaves out a tracker the strip searches need, or
\* the trace shows a privilege mode that they do not know.
PanicsOnlyOnInput == pc = "panic" => elf # "mapped" \/ tracked # "all"

(***************************************************************************)
(* The promise: between two searches nothing is searched for, and a search *)
(* shows its probes.                                                       *)
(***************************************************************************)
NopSearch == {"nop", "nop grow", "nop bisect", "nop end"}

PrefixSearch == {"prefix last", "prefix bisect", "prefix end"}

SuffixSearch == {"suffix bisect", "suffix end"}

InSearch == pc \in NopSearch \cup PrefixSearch \cup SuffixSearch

Goal ==
    IF pc = "panic" THEN "aborted"
    ELSE IF ~InSearch THEN "idle"
    ELSE IF pc \in PrefixSearch THEN "greatest" ELSE "least"

LastCandidate ==
    IF ~InSearch THEN -1 ELSE IF pc \in NopSearch THEN Insts ELSE count - 1

AcceptedNow == IF InSearch THEN accepted ELSE {}

RejectedNow == IF InSearch THEN rejected ELSE {}

Promise == INSTANCE BoundarySearch WITH
    state <- Goal, last <- LastCandidate, accepted <- AcceptedNow,
    rejected <- RejectedNow, run <- shown, results <- kept

\* However the windows grow and the bounds move, each of the three searches
\* only ever settles on an accepted candidate whose neighbour was simulated and
\* rejected (on none only if the mildest candidate was rejected), and hands on
\* a case that fails where its predecessor failed; it does not assume that the
\* simulator is monotone.
SettlesOnBoundaries == Promise!Spec

\* Every reduction comes to an end.
Terminates == <>(pc \in Ends)
=============================================================================
