------------------------------ MODULE Patching ------------------------------
(***************************************************************************)
(* The reducers edit a program in place and run what is left of it:        *)
(*   strip_suffix.rs  a jump over the first visit of a candidate to the    *)
(*                    failure, then NOPs over what is skipped,             *)
(*   strip_prefix.rs  NOPs over what precedes the candidate, then a jump   *)
(*                    over the entry to the code that restores the context,*)
(*   nop.rs           NOPs over what is not executed.                      *)
(* Instructions are two or four bytes long and may start at any halfword;  *)
(* their lengths are always read from the program before the edit.         *)
(*                                                                         *)
(* The program is its halfwords: each would begin an instruction of some   *)
(* length, and holds what it held or a part of something written.  What an *)
(* instruction does is its place in the trace; a run that meets a damaged  *)
(* one is lost.                                                            *)
(***************************************************************************)
EXTENDS Immediates, FiniteSets, SequencesExt

CONSTANTS
    Halfwords,    \* halfwords of the code section
    MaxTrace,     \* longest trace
    SkipStart,    \* SKIP_START_INST_NUM
    Windows,      \* windows that nop.rs keeps around executed instructions
    ContextPcs,   \* where the code that restores the context may be placed
    ContextInsts, \* its instructions, the jump back included
    None

ASSUME ProgramAssumption ==
    /\ Halfwords \in Nat \ {0} /\ MaxTrace \in Nat
    /\ SkipStart \in Nat \ {0} /\ ContextInsts \in Nat \ {0}
\* Addresses fit a register.
ASSUME RegisterAssumption ==
    /\ 2 * Halfwords <= Pow2[Width]
    /\ ContextPcs \subseteq 0..Pow2[Width] - 1
ASSUME WindowAssumption == Windows \subseteq Nat \cup {None}

VARIABLES
    op,    \* "suffix", "prefix", "nop", or "none" for generated code alone
    size,  \* bytes of the instruction each halfword would begin
    trace, \* halfwords at which the traced run executed, the failure last
    cand,  \* candidate's place in the trace, or nop.rs' window
    patch, \* what each halfword holds
    phase, \* "encode", "nops", "run", "reached", "lost" or "panic"
    at,    \* place in the trace, of the next NOP or of the run
    steps  \* instructions the run has executed

edit == <<op, size, trace, cand, patch, phase, at, steps>>
all == <<generated, edit>>

Code == 0..Halfwords - 1
Kept == <<"kept", 1, 1>>

\* A jump of eight bytes may reach beyond the last instruction.
Image == 0..Halfwords + 2

Failure == Len(trace)
Address(h) == 2 * h
Footprint(h) == h..h + size[h] \div 2 - 1

Executed == ToSet(trace)
Visited(from, to) == {trace[k] : k \in from..to}

(***************************************************************************)
(* The programs and traces to be reduced                                   *)
(***************************************************************************)
Traces == UNION {[1..n -> Code] : n \in 2..MaxTrace}

\* first_dynamic_entries
IsFirstVisit(k) == \A j \in 1..k - 1 : trace[j] # trace[k]

\* Neither the failure itself nor, as the jump has four bytes, just before it.
SuffixCandidate(k) ==
    /\ k \in 1..Failure
    /\ IsFirstVisit(k)
    /\ trace[k] # trace[Failure]
    /\ trace[k] + 1 # trace[Failure]

PrefixCandidate(k) == k \in SkipStart + 1..Failure

Unpatched ==
    /\ patch = [h \in Image |-> Kept]
    /\ at = 0
    /\ steps = 0

EditInit ==
    /\ NothingYet
    /\ Unpatched
    /\ \/ /\ op = "none" /\ phase = "encode"
          /\ size = <<>> /\ trace = <<>> /\ cand = None
          /\ \/ \E v \in Values : LoadOf(v)
             \/ \E o \in Origins, t \in Targets, l \in BOOLEAN : JumpFrom(o, t, l)
       \/ /\ size \in [Code -> {2, 4}]
          /\ trace \in Traces
          /\ \A h \in Executed : Footprint(h) \subseteq Code
          /\ \/ /\ op = "suffix" /\ phase = "encode"
                /\ cand \in 1..Failure /\ SuffixCandidate(cand)
                /\ JumpFrom(Address(trace[cand]), Address(trace[Failure]), FALSE)
             \/ /\ op = "prefix" /\ phase = "nops"
                /\ cand \in 1..Failure /\ PrefixCandidate(cand)
                /\ \E c \in ContextPcs : JumpFrom(Address(trace[1]), c, TRUE)
             \/ /\ op = "nop" /\ phase = "nops"
                /\ cand \in Windows
                /\ stage = "none" /\ value = 0 /\ rest = 0 /\ far = FALSE

(***************************************************************************)
(* Writing                                                                 *)
(***************************************************************************)
Written(what, h, n) ==
    [x \in Image |-> IF x \in h..h + n - 1 THEN <<what, x - h + 1, n>> ELSE patch[x]]

Encode ==
    /\ phase = "encode"
    /\ Generate
    /\ UNCHANGED edit

\* encode_jmp has answered: over the candidate, or over the entry.
WriteJump ==
    /\ phase = "encode" /\ op \in {"suffix", "prefix"}
    /\ stage = "landed"
    /\ patch' = Written("jump", trace[IF op = "suffix" THEN cand ELSE 1], 2 * insts)
    /\ phase' = IF op = "suffix" THEN "nops" ELSE "run"
    /\ at' = IF op = "suffix" THEN cand + 1 ELSE 1
    /\ UNCHANGED <<generated, op, size, trace, cand, steps>>

\* Faulty: instructions the prefix executes too are overwritten.
SkippedBySuffixAnywhere(k) ==
    trace[k] # trace[Failure] /\ trace[k] \notin Visited(cand + 1, k - 1)

\* Visited only after the candidate, and for the first time.
SkippedBySuffix(k) ==
    /\ trace[k] # trace[Failure]
    /\ trace[k] \notin Visited(1, cand)
    /\ trace[k] \notin Visited(cand + 1, k - 1)

\* nop_skipped_suffix_insts
NopSuffix ==
    /\ phase = "nops" /\ op = "suffix"
    /\ at < Failure
    /\ patch' = IF SkippedBySuffix(at)
                THEN Written("nop", trace[at], size[trace[at]] \div 2)
                ELSE patch
    /\ at' = at + 1
    /\ UNCHANGED <<generated, op, size, trace, cand, phase, steps>>

EndSuffix ==
    /\ phase = "nops" /\ op = "suffix"
    /\ at >= Failure
    /\ phase' = "run" /\ at' = 1
    /\ UNCHANGED <<generated, op, size, trace, cand, patch, steps>>

SkippedByPrefix(k) ==
    trace[k] \notin Visited(cand, Failure) /\ trace[k] \notin Visited(2, k - 1)

\* nop_skipped_prefix_insts; the entry is left to the jump.
NopPrefix ==
    /\ phase = "nops" /\ op = "prefix"
    /\ LET k == at + 2
       IN  /\ k < cand
           /\ patch' = IF SkippedByPrefix(k)
                       THEN Written("nop", trace[k], size[trace[k]] \div 2)
                       ELSE patch
    /\ at' = at + 1
    /\ UNCHANGED <<generated, op, size, trace, cand, phase, steps>>

EndPrefix ==
    /\ phase = "nops" /\ op = "prefix"
    /\ at + 2 >= cand
    /\ phase' = "encode"
    /\ UNCHANGED <<generated, op, size, trace, cand, patch, at, steps>>

\* collect_code_insts reads the section from its start, instruction after
\* instruction, whatever is executed.
Swept ==
    LET upTo[n \in Nat] ==
            IF n = 0 THEN {0}
            ELSE LET s == upTo[n - 1]
                 IN  s \cup {h + size[h] \div 2 : h \in s \cap Code}
    IN  upTo[Halfwords] \cap Code

\* Its place among the swept instructions.
Index(h) == Cardinality({x \in Swept : x < h})

\* In the window around an executed instruction.
Near(h, w) ==
    \E x \in Swept \cap Executed : Index(h) - Index(x) \in -w..w

KeptByWindow == {h \in Swept : h \in Executed \/ (cand # None /\ Near(h, cand))}

\* build_nopped_input
NopUnexecuted ==
    /\ phase = "nops" /\ op = "nop"
    /\ \A h \in Swept : Footprint(h) \subseteq Code
    /\ patch' = [x \in Image |->
                   IF \E h \in Swept \ KeptByWindow : x \in Footprint(h)
                   THEN LET h == CHOOSE y \in Swept : x \in Footprint(y)
                        IN  <<"nop", x - h + 1, size[h] \div 2>>
                   ELSE patch[x]]
    /\ phase' = "run" /\ at' = 1
    /\ UNCHANGED <<generated, op, size, trace, cand, steps>>

\* The section ends within what reads as an instruction: an assertion.
SweepPanics ==
    /\ phase = "nops" /\ op = "nop"
    /\ \E h \in Swept : ~(Footprint(h) \subseteq Code)
    /\ phase' = "panic"
    /\ UNCHANGED <<generated, op, size, trace, cand, patch, at, steps>>

(***************************************************************************)
(* Running what was written                                                *)
(***************************************************************************)
\* The limit the candidate is run with.
Budget ==
    CASE op = "suffix" -> cand + 1
      [] op = "prefix" -> insts + ContextInsts + Failure - cand + 1
      [] op = "nop" -> Failure

Intact(h) == \A x \in Footprint(h) : patch[x] = Kept

JumpAt(h) ==
    \A i \in 1..2 * insts : patch[h + i - 1] = <<"jump", i, 2 * insts>>

Retrace ==
    /\ phase = "run" /\ steps < Budget
    /\ Intact(trace[at])
    /\ steps' = steps + 1
    /\ phase' = IF at = Failure THEN "reached" ELSE "run"
    /\ at' = IF at = Failure THEN at ELSE at + 1
    /\ UNCHANGED <<generated, op, size, trace, cand, patch>>

\* The jump lands on the failure, or on the code that leads to the candidate.
TakeJump ==
    /\ phase = "run" /\ steps < Budget
    /\ op # "nop" /\ JumpAt(trace[at])
    /\ reg = rest
    /\ IF op = "suffix"
       THEN at' = Failure /\ steps' = steps + insts
       ELSE at' = cand /\ steps' = steps + insts + ContextInsts
    /\ UNCHANGED <<generated, op, size, trace, cand, patch, phase>>

\* Anything may happen from here; the validation decides.
Lose ==
    /\ phase = "run"
    /\ \/ steps >= Budget
       \/ ~Intact(trace[at]) /\ ~(op # "nop" /\ JumpAt(trace[at]))
    /\ phase' = "lost"
    /\ UNCHANGED <<generated, op, size, trace, cand, patch, at, steps>>

Ended ==
    /\ \/ phase \in {"reached", "lost", "panic"}
       \/ phase = "encode" /\ stage = "none"
       \/ op = "none" /\ stage \in {"loaded", "landed"}
    /\ UNCHANGED all

EditNext ==
    \/ Encode \/ WriteJump
    \/ NopSuffix \/ EndSuffix
    \/ NopPrefix \/ EndPrefix
    \/ NopUnexecuted \/ SweepPanics
    \/ Retrace \/ TakeJump \/ Lose
    \/ Ended

EditSpec == EditInit /\ [][EditNext]_all

(***************************************************************************)
(* Properties                                                              *)
(***************************************************************************)
\* No traced run executes the halves of another instruction, and nop.rs sees
\* the instructions that were executed.
Separate ==
    /\ \A g, h \in Executed : g = h \/ Footprint(g) \cap Footprint(h) = {}
    /\ op = "nop" => Executed \subseteq Swept

\* The jump lies on something else that is executed or written later: behind
\* a compressed candidate, or on the entry's neighbours.
JumpCollides ==
    \/ /\ op = "suffix"
       /\ size[trace[cand]] = 2
       /\ trace[cand] + 1 \in Executed
    \/ /\ op = "prefix"
       /\ \E h \in Visited(cand, Failure) :
            Footprint(h) \cap (trace[1]..trace[1] + 2 * insts - 1) # {}

\* A reduced program runs through what was kept of it to the failure with
\* exactly the instructions it is allowed, unless the jump collides, in which
\* case it cannot: no NOP ever hits what is still needed, though lengths are
\* read from the old program and written over the new one.
ReachesFailure ==
    /\ phase = "reached" => steps = Budget
    /\ (phase \in {"reached", "lost"} /\ Separate) =>
            (phase = "reached" <=> ~JumpCollides)
=============================================================================
