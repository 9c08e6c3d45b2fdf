-------------------------- MODULE CoverReduceProof --------------------------
(***************************************************************************)
(* What the coverage reduction and the stages before it promise, for every *)
(* set of instructions, every length of a trace and every limit the user   *)
(* passes.                                                                 *)
(*                                                                         *)
(* The invariant has three parts, each using those before it: the list of  *)
(* arguments every stage shares (ArgsInv), the prefix searched for         *)
(* (SearchInv), and what a simulation limited to it executes (RunInv).     *)
(***************************************************************************)
EXTENDS CoverReduce, SequenceTheorems, Ordering

(***************************************************************************)
(* The invariant                                                           *)
(***************************************************************************)
Early == {"reduce", "probing", "probed", "evaluated"}
Searching == {"shorten", "probe"}
Simulating == {"run", "read"}
Phases == Early \cup Searching \cup Simulating \cup {"campaign", "start", "end"}

UserArgs(args) == args \in Seq(Nat) /\ Len(args) <= 1

\* run_fuzzer has appended the number of instructions of the failing case.
FixedArgs(args) ==
    /\ args \in Seq(Nat)
    /\ Len(args) \in 1..2
    /\ args[Len(args)] = Len(full.init)

ArgsInv ==
    /\ pc \in Phases
    /\ pc \in {"reduce", "evaluated"} => saved = None /\ UserArgs(simArgs)
    /\ pc \in {"probing", "probed"} => UserArgs(saved)
    /\ pc \in Searching \cup {"campaign", "start"} =>
            saved = None /\ FixedArgs(simArgs)
    /\ pc \in Simulating =>
            /\ FixedArgs(saved)
            /\ prefix \in Nat
            /\ simArgs = Append(saved, prefix)
    /\ pc = "end" => saved = None /\ Len(simArgs) <= 2

\* The passing case ran under the limit taken from the failing one.
TraceInv ==
    /\ job \in {"init", "pass"}
    /\ pc \in Early => job = "init"
    /\ full = [init |-> full.init, pass |-> full.pass]
    /\ full.init \in Seq(PCs) /\ Len(full.init) \in 1..MaxTrace
    /\ full.pass \in Seq(PCs) /\ Len(full.pass) <= Len(full.init)

EvaluatedInv ==
    pc = "evaluated" =>
        trackers = SubSeq(full.init, 1, Least(Limit, Len(full.init)))

\* No prefix longer than the one at hand could be subtracted.
LongerFail ==
    \A n \in prefix + 1..Len(PassTrace) :
        n <= Len(InitTrace) /\ Common(n) /\ Safe(n) => n \in crashed

PrefixInv ==
    /\ prefix \in 0..Len(PassTrace) /\ prefix <= Len(InitTrace)
    /\ Common(prefix)
    /\ LongerFail

SearchInv ==
    /\ pc \in Searching => job = "pass"
    /\ pc # "end" => reduced = "no"
    /\ (pc \in Searching \cup Simulating /\ job = "pass") => PrefixInv
    /\ (pc \in {"probe"} \cup Simulating /\ job = "pass") =>
            prefix > 0 /\ Conflicts = {}
    /\ (pc \in Simulating /\ job = "pass") => nopped = SuffixPcs
    /\ (pc \in Simulating /\ job = "init") =>
            /\ prefix = Len(InitTrace) - 1
            /\ nopped = {InitTrace[Len(InitTrace)]}
            /\ ~LastPcRepeats

RunInv ==
    /\ (pc = "read" /\ Window >= MaxTrace) =>
            trackers = SubSeq(full.init, 1, prefix) /\ Len(trackers) = prefix
    /\ Window >= MaxTrace => SubtractedIsCommon

Inv == ArgsInv /\ TraceInv /\ EvaluatedInv /\ SearchInv /\ LongestIsSubtracted
            /\ RunInv

(***************************************************************************)
(* Traces and limits                                                       *)
(***************************************************************************)
LEMMA TracesType ==
    ASSUME NEW trace \in Traces
    PROVE  trace \in Seq(PCs) /\ Len(trace) \in 1..MaxTrace
BY TraceAssumption DEF Traces

\* A run of a trace is as long as its limit or the trace.
LEMMA CutType ==
    ASSUME NEW trace \in Seq(PCs), NEW n \in Nat
    PROVE  LET cut == SubSeq(trace, 1, Least(n, Len(trace)))
           IN  /\ cut \in Seq(PCs)
               /\ Len(cut) = Least(n, Len(trace))
               /\ \A i \in 1..Least(n, Len(trace)) : cut[i] = trace[i]
<1>1. Len(trace) \in Nat /\ \A i \in 1..Len(trace) : trace[i] \in PCs
  BY LenProperties, ElementOfSeq
<1>2. Least(n, Len(trace)) \in 0..Len(trace)
  BY <1>1 DEF Least
<1>3. \A i \in 1..Least(n, Len(trace)) : trace[i] \in PCs
  BY <1>1, <1>2
<1> QED BY <1>2, <1>3, SubSeqProperties

LEMMA WindowedType ==
    ASSUME NEW trace \in Seq(PCs)
    PROVE  Windowed(trace) \in Seq(PCs) /\ Len(Windowed(trace)) <= Len(trace)
<1>1. CASE Len(trace) > Window
  <2>1. Len(trace) \in Nat /\ \A i \in 1..Len(trace) : trace[i] \in PCs
    BY LenProperties, ElementOfSeq
  <2>2. \A i \in Len(trace) - Window + 1..Len(trace) : trace[i] \in PCs
    BY <2>1, <1>1, WindowAssumption
  <2>3. /\ SubSeq(trace, Len(trace) - Window + 1, Len(trace)) \in Seq(PCs)
        /\ Len(SubSeq(trace, Len(trace) - Window + 1, Len(trace))) =
              IF Len(trace) - Window + 1 <= Len(trace)
              THEN Len(trace) - (Len(trace) - Window + 1) + 1 ELSE 0
    BY <2>1, <2>2, WindowAssumption, SubSeqProperties
  <2> QED BY <2>1, <2>3, <1>1, WindowAssumption DEF Windowed
<1>2. CASE ~(Len(trace) > Window)
  BY <1>2, LenProperties DEF Windowed
<1> QED BY <1>1, <1>2

\* A window no trace is longer than hides nothing.
LEMMA NothingHidden ==
    ASSUME TraceInv, Window >= MaxTrace
    PROVE  InitTrace = full.init /\ PassTrace = full.pass
BY WindowAssumption, TraceAssumption, LenProperties
   DEF TraceInv, InitTrace, PassTrace, Windowed

LEMMA TraceTypes ==
    ASSUME TraceInv
    PROVE  /\ InitTrace \in Seq(PCs) /\ Len(InitTrace) \in Nat
           /\ PassTrace \in Seq(PCs) /\ Len(PassTrace) \in Nat
<1>1. InitTrace \in Seq(PCs) /\ PassTrace \in Seq(PCs)
  BY WindowedType DEF TraceInv, InitTrace, PassTrace
<1> QED BY <1>1, LenProperties

\* The simulator obeys the limit given last.
LEMMA LimitPushed ==
    ASSUME NEW args \in Seq(Nat), NEW n \in Nat, simArgs = Append(args, n)
    PROVE  /\ simArgs \in Seq(Nat) /\ Len(simArgs) = Len(args) + 1
           /\ simArgs[Len(simArgs)] = n
           /\ Limit = n
<1>1. /\ simArgs \in Seq(Nat) /\ simArgs # <<>>
      /\ Len(simArgs) = Len(args) + 1 /\ simArgs[Len(args) + 1] = n
  BY AppendProperties
<1> QED BY <1>1, LenProperties DEF Limit

LEMMA LimitType ==
    ASSUME simArgs \in Seq(Nat)
    PROVE  Limit \in Nat
<1>1. CASE simArgs = <<>>
  BY <1>1, TraceAssumption DEF Limit
<1>2. CASE simArgs # <<>>
  <2>1. Len(simArgs) \in 1..Len(simArgs)
    BY <1>2, LenProperties, EmptySeq
  <2> QED BY <1>2, <2>1, ElementOfSeq DEF Limit
<1> QED BY <1>1, <1>2

(***************************************************************************)
(* The initial states                                                      *)
(***************************************************************************)
LEMMA InitInv == Init => Inv
<1> SUFFICES ASSUME Init PROVE Inv
  OBVIOUS
<1>1. UserArgs(simArgs)
  <2>1. <<>> \in Seq(Nat) /\ Len(<<>>) = 0
    BY EmptySeq
  <2>2. \A n \in UserLimits : <<n>> \in Seq(Nat) /\ Len(<<n>>) = 1
    BY LimitAssumption
  <2>3. CASE simArgs = <<>>
    BY <2>1, <2>3 DEF UserArgs
  <2>4. CASE simArgs \in {<<n>> : n \in UserLimits}
    <3>1. simArgs \in Seq(Nat) /\ Len(simArgs) = 1
      BY <2>2, <2>4
    <3> QED BY <3>1 DEF UserArgs
  <2> QED BY <2>3, <2>4 DEF Init, HarnessInit
<1>2. ArgsInv
  BY <1>1 DEF Init, HarnessInit, ArgsInv, Phases, Early, Searching, Simulating
<1>3. PICK trace \in Traces : full = [init |-> trace, pass |-> <<>>]
  BY DEF Init
<1>4. full.init \in Seq(PCs) /\ Len(full.init) \in 1..MaxTrace
  BY <1>3, TracesType
<1>5. full.pass \in Seq(PCs) /\ Len(full.pass) <= Len(full.init)
  <2>1. full.pass \in Seq(PCs) /\ Len(full.pass) = 0
    BY <1>3, EmptySeq
  <2> QED BY <2>1, <1>4, TraceAssumption
<1>6. TraceInv
  BY <1>3, <1>4, <1>5 DEF Init, TraceInv
<1>7. EvaluatedInv /\ SearchInv /\ LongestIsSubtracted /\ RunInv
  BY DEF Init, EvaluatedInv, SearchInv, LongestIsSubtracted, RunInv,
         SubtractedIsCommon, Searching, Simulating
<1> QED BY <1>2, <1>6, <1>7 DEF Inv

(***************************************************************************)
(* The arguments                                                           *)
(***************************************************************************)
\* The passing case runs no longer than the failing one.
LEMMA TraceStep == ArgsInv /\ TraceInv /\ [Next]_vars => TraceInv'
<1> SUFFICES ASSUME ArgsInv, TraceInv, [Next]_vars PROVE TraceInv'
  OBVIOUS
<1> USE DEF Unchanged
<1>1. CASE \E trace \in Traces, pcs \in SUBSET PCs : ExecutePass(trace, pcs)
  <2> PICK trace \in Traces, pcs \in SUBSET PCs : ExecutePass(trace, pcs)
    BY <1>1
  <2>1. full' = [full EXCEPT !.pass = trackers'] /\ job' = "pass"
        /\ pc = "campaign" /\ pc' = pc
    BY DEF ExecutePass
  <2>2. full'.init = full.init /\ full'.pass = trackers'
        /\ full' = [init |-> full'.init, pass |-> full'.pass]
    BY <2>1 DEF TraceInv
  <2>3. FixedArgs(simArgs)
    BY <2>1 DEF ArgsInv
  <2>4. Limit = Len(full.init)
    <3>1. Len(<<>>) = 0
      BY EmptySeq
    <3>2. Len(simArgs) \in 1..2 /\ simArgs[Len(simArgs)] = Len(full.init)
      BY <2>3 DEF FixedArgs
    <3>3. Len(simArgs) # 0
      BY <3>2
    <3>4. simArgs # <<>>
      BY <3>1, <3>3, Zenon
    <3> QED BY <3>2, <3>4 DEF Limit
  <2>5. trackers' = SubSeq(trace, 1, Least(Limit, Len(trace)))
    BY DEF ExecutePass, Simulate
  <2>6. trace \in Seq(PCs) /\ Len(trace) \in Nat /\ Len(full.init) \in Nat
    BY TracesType, LenProperties DEF TraceInv
  <2>7. trackers' \in Seq(PCs) /\ Len(trackers') = Least(Len(full.init), Len(trace))
    BY <2>4, <2>5, <2>6, CutType
  <2>8. Len(trackers') <= Len(full.init)
    BY <2>6, <2>7 DEF Least
  <2>9. job' \in {"init", "pass"} /\ (pc' \in Early => job' = "init")
    BY <2>1 DEF Early
  <2> QED BY <2>2, <2>7, <2>8, <2>9 DEF TraceInv
<1>2. CASE UNCHANGED <<full, job>> /\ (pc' \in Early => pc \in Early)
  BY <1>2 DEF TraceInv
<1>3. CASE ~ \E trace \in Traces, pcs \in SUBSET PCs : ExecutePass(trace, pcs)
  <2>1. UNCHANGED <<full, job>>
    BY <1>3 DEF Next, vars, Probe, ProbeRun, ProbeRead, EvaluateInit,
       RejectInit, StartCampaign, EndCampaign, InitSkip, InitUnbuilt, InitStart,
       InitRead, PassSkip, PassStart, Shorten, PassUnbuilt, PassProbe, PassRead,
       Run, Finished
  <2>2. pc' \in Early => pc \in Early
    BY <1>3 DEF Next, vars, Probe, ProbeRun, ProbeRead, EvaluateInit,
       RejectInit, StartCampaign, EndCampaign, InitSkip, InitUnbuilt, InitStart,
       InitRead, PassSkip, PassStart, Shorten, PassUnbuilt, PassProbe, PassRead,
       Run, Finished, Early
  <2> QED BY <2>1, <2>2, <1>2
<1> QED BY <1>1, <1>3

\* An evaluation is limited by the arguments of the user.
LEMMA EvaluatedStep == [Next]_vars /\ EvaluatedInv => EvaluatedInv'
<1> SUFFICES ASSUME [Next]_vars, EvaluatedInv PROVE EvaluatedInv'
  OBVIOUS
<1>1. CASE EvaluateInit
  BY <1>1 DEF EvaluateInit, Simulate, EvaluatedInv, Limit, Unchanged
<1>2. CASE UNCHANGED vars
  BY <1>2 DEF vars, harness, EvaluatedInv, Limit
<1>3. CASE ~EvaluateInit /\ ~UNCHANGED vars
  <2> pc' # "evaluated"
    BY <1>3 DEF Next, vars, Probe, ProbeRun, ProbeRead,
       RejectInit, StartCampaign, EndCampaign, InitSkip, InitUnbuilt, InitStart,
       InitRead, PassSkip, PassStart, Shorten, PassUnbuilt, PassProbe, PassRead,
       Run, Finished, ExecutePass
  <2> QED BY DEF EvaluatedInv
<1> QED BY <1>1, <1>2, <1>3

\* Every limit pushed is popped again, but for the one run_fuzzer leaves.
LEMMA ArgsStep ==
    ArgsInv /\ TraceInv /\ SearchInv /\ [Next]_vars => ArgsInv'
<1> SUFFICES ASSUME ArgsInv, TraceInv, SearchInv, [Next]_vars PROVE ArgsInv'
  OBVIOUS
<1> USE DEF Unchanged, Phases, Early, Searching, Simulating
<1>1. CASE \E n \in 1..MaxTrace : Probe(n)
  BY <1>1 DEF Probe, PushLimit, ArgsInv
<1>2. CASE ProbeRun
  BY <1>2 DEF ProbeRun, Simulate, ArgsInv
<1>3. CASE ProbeRead
  BY <1>3 DEF ProbeRead, PopLimit, ArgsInv
<1>4. CASE EvaluateInit
  BY <1>4 DEF EvaluateInit, Simulate, ArgsInv
<1>5. CASE RejectInit
  <2>1. pc = "evaluated" /\ pc' = "end" /\ UNCHANGED harness
    BY <1>5 DEF RejectInit
  <2>2. Len(simArgs) <= 2
    BY <2>1, LenProperties DEF ArgsInv, UserArgs
  <2> QED BY <2>1, <2>2 DEF ArgsInv, harness
<1>6. CASE StartCampaign
  <2>1. /\ saved = None /\ simArgs \in Seq(Nat) /\ Len(simArgs) <= 1
        /\ pc' = "campaign" /\ saved' = saved /\ full' = full
        /\ simArgs' = Append(simArgs, Len(full.init))
    BY <1>6 DEF StartCampaign, FixLimit, ArgsInv, UserArgs
  <2>2. Len(full.init) \in Nat /\ Len(simArgs) \in Nat
    BY <2>1, LenProperties DEF TraceInv
  <2>3. /\ simArgs' \in Seq(Nat) /\ Len(simArgs') = Len(simArgs) + 1
        /\ simArgs'[Len(simArgs')] = Len(full.init)
    BY <2>1, <2>2, AppendProperties
  <2>4. Len(simArgs') \in 1..2
    BY <2>1, <2>2, <2>3
  <2>5. FixedArgs(simArgs)'
    BY <2>1, <2>3, <2>4 DEF FixedArgs
  <2> QED BY <2>1, <2>5 DEF ArgsInv
<1>7. CASE \E trace \in Traces, pcs \in SUBSET PCs : ExecutePass(trace, pcs)
  <2>1. /\ pc = "campaign" /\ UNCHANGED <<pc, simArgs, saved>>
        /\ full'.init = full.init
    BY <1>7 DEF ExecutePass, Simulate, TraceInv
  <2>2. FixedArgs(simArgs)'
    BY <2>1 DEF ArgsInv, FixedArgs
  <2> QED BY <2>1, <2>2 DEF ArgsInv
<1>8. CASE EndCampaign \/ PassStart \/ (Shorten /\ pc' # "end")
  <2>1. /\ pc \in {"campaign", "start", "shorten"} /\ pc' \in {"start", "shorten", "probe"}
        /\ UNCHANGED <<harness, full>>
    BY <1>8 DEF EndCampaign, PassStart, Shorten
  <2> QED BY <2>1 DEF ArgsInv, FixedArgs, harness
<1>9. CASE InitSkip \/ InitUnbuilt \/ PassSkip \/ PassUnbuilt \/ (Shorten /\ pc' = "end")
  <2>1. /\ pc \in {"start", "shorten", "probe"} /\ pc' = "end"
        /\ UNCHANGED harness
    BY <1>9 DEF InitSkip, InitUnbuilt, PassSkip, PassUnbuilt, Shorten
  <2>2. saved = None /\ Len(simArgs) \in 1..2
    BY <2>1 DEF ArgsInv, FixedArgs
  <2> QED BY <2>1, <2>2 DEF ArgsInv, harness
<1>10. CASE InitStart \/ PassProbe
  <2>1. pc \in {"start", "probe"} /\ pc' = "run" /\ UNCHANGED full
    BY <1>10 DEF InitStart, PassProbe
  <2>2. PushLimit(prefix') /\ prefix' \in Nat
    <3>1. CASE InitStart
      BY <3>1, TraceTypes DEF InitStart
    <3>2. CASE PassProbe
      <4>1. prefix' = prefix /\ prefix \in 0..Len(PassTrace) /\ PushLimit(prefix)
        BY <3>2 DEF PassProbe, SearchInv, PrefixInv
      <4> QED BY <4>1, TraceTypes
    <3> QED BY <1>10, <3>1, <3>2
  <2>3. FixedArgs(simArgs) /\ saved' = simArgs /\ simArgs' = Append(simArgs, prefix')
    BY <2>1, <2>2 DEF ArgsInv, PushLimit
  <2>4. FixedArgs(saved)'
    BY <2>1, <2>3 DEF FixedArgs
  <2> QED BY <2>1, <2>2, <2>3, <2>4 DEF ArgsInv
<1>11. CASE \E trace \in Traces : Run(trace)
  <2>1. /\ pc = "run" /\ pc' = "read"
        /\ UNCHANGED <<simArgs, saved, full, prefix>>
    BY <1>11 DEF Run, Simulate, search
  <2> QED BY <2>1 DEF ArgsInv, FixedArgs
<1>12. CASE InitRead \/ PassRead
  <2>1. /\ pc = "read" /\ pc' \in {"end", "shorten"}
        /\ simArgs' = saved /\ saved' = None /\ UNCHANGED full
    BY <1>12 DEF InitRead, PassRead, PopLimit
  <2>2. FixedArgs(saved)
    BY <2>1 DEF ArgsInv
  <2>3. FixedArgs(simArgs)' /\ Len(simArgs') <= 2
    BY <2>1, <2>2 DEF FixedArgs
  <2> QED BY <2>1, <2>3 DEF ArgsInv
<1>13. CASE Finished \/ UNCHANGED vars
  BY <1>13 DEF Finished, vars, harness, search, ArgsInv, FixedArgs
<1> QED BY <1>1, <1>2, <1>3, <1>4, <1>5, <1>6, <1>7, <1>8, <1>9, <1>10, <1>11,
           <1>12, <1>13 DEF Next

(***************************************************************************)
(* The prefix                                                              *)
(***************************************************************************)
\* The choice of common_prefix_len exists and is the longest common prefix.
LEMMA CommonPrefixLongest ==
    ASSUME TraceInv
    PROVE  /\ CommonPrefix \in 0..Len(PassTrace) /\ CommonPrefix <= Len(InitTrace)
           /\ Common(CommonPrefix)
           /\ \A n \in CommonPrefix + 1..Len(PassTrace) :
                 n <= Len(InitTrace) => ~Common(n)
<1> DEFINE Ends(n) == n < Len(InitTrace) /\ n < Len(PassTrace) => ~Common(n + 1)
           S == {n \in 0..Len(PassTrace) : n <= Len(InitTrace) /\ Ends(n)}
<1>1. Len(InitTrace) \in Nat /\ Len(PassTrace) \in Nat
  BY TraceTypes
<1>2. Least(Len(InitTrace), Len(PassTrace)) \in S
  BY <1>1 DEF Least
<1>3. PICK m \in S : \A n \in S : m <= n
  <2>1. S \in SUBSET Nat /\ S # {}
    BY <1>1, <1>2
  <2> HIDE DEF S
  <2> QED BY <2>1, LeastNatural
<1>4. Common(m)
  <2>1. CASE m = 0
    BY <2>1 DEF Common
  <2>2. CASE m # 0
    <3>1. m \in Nat /\ m - 1 \in 0..Len(PassTrace) /\ m - 1 < Len(InitTrace)
          /\ m - 1 < Len(PassTrace)
      BY <1>1, <2>2
    <3>2. m - 1 \notin S
      BY <1>3, <3>1
    <3>3. Common((m - 1) + 1)
      BY <3>1, <3>2
    <3>4. (m - 1) + 1 = m
      BY <3>1
    <3> QED BY <3>3, <3>4
  <2> QED BY <2>1, <2>2
<1>5. /\ CommonPrefix \in 0..Len(PassTrace)
      /\ CommonPrefix <= Len(InitTrace)
      /\ Common(CommonPrefix)
      /\ Ends(CommonPrefix)
  <2>1. m \in 0..Len(PassTrace) /\ m <= Len(InitTrace) /\ Common(m) /\ Ends(m)
    BY <1>4
  <2> QED BY <2>1 DEF CommonPrefix
<1>6. ASSUME NEW n \in CommonPrefix + 1..Len(PassTrace), n <= Len(InitTrace), Common(n)
      PROVE  FALSE
  <2>1. Common(CommonPrefix + 1)
    BY <1>1, <1>5, <1>6 DEF Common
  <2>2. CommonPrefix < Len(InitTrace) /\ CommonPrefix < Len(PassTrace)
    BY <1>1, <1>5, <1>6
  <2> QED BY <1>5, <2>1, <2>2
<1> QED BY <1>5, <1>6

\* The prefix stays what it is while nothing it depends on changes.
LEMMA LongerUnchanged ==
    ASSUME LongerFail, UNCHANGED <<full, mutated, prefix, crashed>>
    PROVE  LongerFail'
<1>1. InitTrace' = InitTrace /\ PassTrace' = PassTrace
  BY DEF InitTrace, PassTrace, Windowed
<1>2. \A n : (Common(n)' => Common(n)) /\ (Safe(n)' => Safe(n))
  BY <1>1 DEF Common, Safe
<1> QED BY <1>1, <1>2 DEF LongerFail

LEMMA PrefixUnchanged ==
    ASSUME PrefixInv, UNCHANGED <<full, mutated, prefix, crashed>>
    PROVE  PrefixInv'
<1>1. InitTrace' = InitTrace /\ PassTrace' = PassTrace
  BY DEF InitTrace, PassTrace, Windowed
<1>2. LongerFail'
  BY LongerUnchanged DEF PrefixInv
<1> QED BY <1>1, <1>2 DEF PrefixInv, Common

\* A prefix is cut back to before the first instruction that occurs behind it.
LEMMA ShortenKeepsPrefix ==
    ASSUME TraceInv, PrefixInv, Shorten
    PROVE  PrefixInv' /\ (pc' = "probe" => prefix' > 0 /\ Conflicts' = {})
<1> USE DEF Unchanged
<1>1. UNCHANGED <<full, mutated, crashed>>
  BY DEF Shorten
<1>2. InitTrace' = InitTrace /\ PassTrace' = PassTrace
  BY <1>1 DEF InitTrace, PassTrace, Windowed
<1>3. Len(InitTrace) \in Nat /\ Len(PassTrace) \in Nat
  BY TraceTypes
<1>4. CASE Conflicts = {}
  <2>1. prefix' = prefix /\ (pc' = "probe" => prefix # 0)
    BY <1>4 DEF Shorten
  <2>2. Conflicts' = Conflicts
    BY <1>2, <2>1 DEF Conflicts, SuffixPcs
  <2>3. PrefixInv'
    BY <1>1, <2>1, PrefixUnchanged
  <2> QED BY <1>3, <1>4, <2>1, <2>2, <2>3 DEF PrefixInv
<1>5. CASE Conflicts # {}
  <2>1. prefix' = (CHOOSE i \in Conflicts : \A j \in Conflicts : i <= j) - 1
        /\ pc' = "shorten"
    BY <1>5 DEF Shorten
  <2>2. prefix \in Nat /\ prefix <= Len(PassTrace) /\ prefix <= Len(InitTrace)
    BY <1>3 DEF PrefixInv
  <2>3. Conflicts \subseteq 1..prefix
    BY DEF Conflicts
  <2>4. Conflicts \in SUBSET Nat
    BY <2>2, <2>3
  <2>5. \E i \in Conflicts : \A j \in Conflicts : i <= j
    BY <1>5, <2>4, LeastNatural
  <2>6. PICK i \in Conflicts : prefix' = i - 1
    BY <2>1, <2>5
  <2>7. prefix' \in Nat /\ prefix' < prefix
    BY <2>2, <2>3, <2>6
  <2>8. PICK j \in DOMAIN SubSeq(PassTrace, prefix + 1, Len(PassTrace)) :
            SubSeq(PassTrace, prefix + 1, Len(PassTrace))[j] = PassTrace[i]
    BY DEF Conflicts, SuffixPcs, PcsOf
  <2>9. PICK k \in prefix + 1..Len(PassTrace) : PassTrace[k] = PassTrace[i]
    <3> DEFINE suffix == SubSeq(PassTrace, prefix + 1, Len(PassTrace))
    <3>1. \A l \in prefix + 1..Len(PassTrace) : PassTrace[l] \in PCs
      BY <1>3, <2>2, TraceTypes, ElementOfSeq
    <3>2. /\ suffix \in Seq(PCs)
          /\ Len(suffix) = IF prefix + 1 <= Len(PassTrace)
                           THEN Len(PassTrace) - (prefix + 1) + 1 ELSE 0
          /\ \A l \in 1..Len(PassTrace) - (prefix + 1) + 1 :
                suffix[l] = PassTrace[(prefix + 1) + l - 1]
      BY <1>3, <2>2, <3>1, SubSeqProperties
    <3>3. DOMAIN suffix = 1..Len(suffix)
      BY <3>2, LenProperties
    <3> HIDE DEF suffix
    <3>4. j \in 1..Len(PassTrace) - prefix
      BY <1>3, <2>2, <2>8, <3>2, <3>3 DEF suffix
    <3>5. suffix[j] = PassTrace[prefix + j] /\ prefix + j \in prefix + 1..Len(PassTrace)
      BY <1>3, <2>2, <3>2, <3>4
    <3> QED BY <2>8, <3>5 DEF suffix
  <2>10. ASSUME NEW n \in prefix' + 1..Len(PassTrace), n <= Len(InitTrace),
                Common(n), Safe(n)
         PROVE  n \in crashed
    <3>1. CASE n \in prefix + 1..Len(PassTrace)
      BY <2>10, <3>1 DEF PrefixInv, LongerFail
    <3>2. CASE n \notin prefix + 1..Len(PassTrace)
      <4>1. i \in 1..n /\ k \in n + 1..Len(PassTrace)
        BY <1>3, <2>2, <2>3, <2>6, <2>9, <3>2
      <4> QED BY <2>9, <2>10, <4>1 DEF Safe
    <3> QED BY <3>1, <3>2
  <2>11. LongerFail'
    <3>1. \A n : (Common(n)' => Common(n)) /\ (Safe(n)' => Safe(n))
      BY <1>1, <1>2 DEF Common, Safe
    <3> QED BY <1>1, <1>2, <2>10, <3>1 DEF LongerFail
  <2>12. Common(prefix)'
    <3>1. \A l \in 1..prefix' : InitTrace[l] = PassTrace[l] /\ PassTrace[l] \notin mutated
      BY <2>2, <2>7 DEF PrefixInv, Common
    <3> QED BY <1>1, <1>2, <3>1 DEF Common
  <2>13. prefix' \in 0..Len(PassTrace) /\ prefix' <= Len(InitTrace)
    BY <1>3, <2>2, <2>7
  <2>14. pc' # "probe"
    BY <2>1
  <2> QED BY <1>2, <2>11, <2>12, <2>13, <2>14 DEF PrefixInv
<1> QED BY <1>4, <1>5

\* A prefix that crashed is not the prefix looked for.
LEMMA ReadKeepsPrefix ==
    ASSUME TraceInv, PrefixInv, prefix > 0, UNCHANGED <<full, mutated>>,
           crashed' = crashed \cup {prefix}, prefix' = Shorter
    PROVE  PrefixInv'
<1>1. InitTrace' = InitTrace /\ PassTrace' = PassTrace
  BY DEF InitTrace, PassTrace, Windowed
<1>2. Len(InitTrace) \in Nat /\ Len(PassTrace) \in Nat
  BY TraceTypes
<1>3. prefix \in 1..Len(PassTrace) /\ prefix' = prefix - 1
  BY <1>2 DEF PrefixInv, Shorter
<1>4. prefix' \in 0..Len(PassTrace) /\ prefix' <= Len(InitTrace)
  BY <1>2, <1>3 DEF PrefixInv
<1>5. Common(prefix)'
  <2>1. \A l \in 1..prefix' : InitTrace[l] = PassTrace[l] /\ PassTrace[l] \notin mutated
    BY <1>2, <1>3 DEF PrefixInv, Common
  <2> QED BY <1>1, <2>1 DEF Common
<1>6. ASSUME NEW n \in prefix' + 1..Len(PassTrace), n <= Len(InitTrace),
             Common(n), Safe(n)
      PROVE  n \in crashed'
  <2>1. CASE n = prefix
    BY <2>1
  <2>2. CASE n # prefix
    <3>1. n \in prefix + 1..Len(PassTrace)
      BY <1>2, <1>3, <2>2
    <3> QED BY <1>6, <3>1 DEF PrefixInv, LongerFail
  <2> QED BY <2>1, <2>2
<1>7. LongerFail'
  <2>1. \A n : (Common(n)' => Common(n)) /\ (Safe(n)' => Safe(n))
    BY <1>1 DEF Common, Safe
  <2> QED BY <1>1, <1>6, <2>1 DEF LongerFail
<1> QED BY <1>1, <1>4, <1>5, <1>7 DEF PrefixInv

LEMMA SearchStep ==
    TraceInv /\ SearchInv /\ [Next]_vars => SearchInv'
<1> SUFFICES ASSUME TraceInv, SearchInv, [Next]_vars PROVE SearchInv'
  OBVIOUS
<1> USE DEF Unchanged, Searching, Simulating
\* Outside the search nothing is claimed but that no result exists.
<1>1. CASE \/ \E n \in 1..MaxTrace : Probe(n)
           \/ ProbeRun \/ ProbeRead \/ EvaluateInit \/ StartCampaign
           \/ \E trace \in Traces, pcs \in SUBSET PCs : ExecutePass(trace, pcs)
           \/ EndCampaign
  <2>1. pc' \notin Searching \cup Simulating /\ pc' # "end"
        /\ pc # "end" /\ reduced' = reduced
    BY <1>1 DEF Probe, ProbeRun, ProbeRead, EvaluateInit, StartCampaign,
                ExecutePass, EndCampaign, search
  <2> QED BY <2>1 DEF SearchInv
<1>2. CASE \/ RejectInit \/ InitSkip \/ InitUnbuilt \/ InitRead
           \/ PassSkip \/ PassUnbuilt
  <2>1. pc' = "end"
    BY <1>2 DEF RejectInit, InitSkip, InitUnbuilt, InitRead, PassSkip, PassUnbuilt
  <2> QED BY <2>1 DEF SearchInv
<1>3. CASE PassStart
  <2>1. /\ pc = "start" /\ pc' = "shorten" /\ job = "pass"
        /\ prefix' = CommonPrefix
        /\ UNCHANGED <<full, mutated, crashed, job, reduced>>
    BY <1>3 DEF PassStart
  <2>2. InitTrace' = InitTrace /\ PassTrace' = PassTrace
    BY <2>1 DEF InitTrace, PassTrace, Windowed
  <2>3. /\ prefix' \in 0..Len(PassTrace) /\ prefix' <= Len(InitTrace)
        /\ Common(prefix')
        /\ \A n \in prefix' + 1..Len(PassTrace) :
              n <= Len(InitTrace) => ~Common(n)
    BY <2>1, CommonPrefixLongest
  <2>4. Common(prefix)'
    BY <2>1, <2>2, <2>3 DEF Common
  <2>5. LongerFail'
    BY <2>1, <2>2, <2>3 DEF LongerFail, Common
  <2>6. PrefixInv'
    BY <2>2, <2>3, <2>4, <2>5 DEF PrefixInv
  <2> QED BY <2>1, <2>6 DEF SearchInv
<1>4. CASE Shorten
  <2>1. /\ pc = "shorten" /\ pc' \in {"shorten", "probe", "end"}
        /\ UNCHANGED <<job, reduced>>
    BY <1>4 DEF Shorten
  <2>2. job = "pass" /\ PrefixInv /\ reduced = "no"
    BY <2>1 DEF SearchInv
  <2>3. PrefixInv' /\ (pc' = "probe" => prefix' > 0 /\ Conflicts' = {})
    BY <1>4, <2>2, ShortenKeepsPrefix
  <2> QED BY <2>1, <2>2, <2>3 DEF SearchInv
<1>5. CASE PassProbe
  <2>1. /\ pc = "probe" /\ pc' = "run" /\ nopped' = SuffixPcs
        /\ UNCHANGED <<full, mutated, crashed, job, reduced, prefix>>
    BY <1>5 DEF PassProbe
  <2>2. job = "pass" /\ PrefixInv /\ reduced = "no" /\ prefix > 0 /\ Conflicts = {}
    BY <2>1 DEF SearchInv
  <2>3. PrefixInv'
    BY <2>1, <2>2, PrefixUnchanged
  <2>4. Conflicts' = Conflicts /\ nopped' = SuffixPcs'
    BY <2>1 DEF Conflicts, SuffixPcs, PassTrace, Windowed
  <2> QED BY <2>1, <2>2, <2>3, <2>4 DEF SearchInv
<1>6. CASE InitStart
  <2>1. /\ pc = "start" /\ pc' = "run" /\ job = "init" /\ ~LastPcRepeats
        /\ prefix' = Len(InitTrace) - 1
        /\ nopped' = {InitTrace[Len(InitTrace)]}
        /\ UNCHANGED <<full, job, reduced>>
    BY <1>6 DEF InitStart
  <2>2. InitTrace' = InitTrace /\ ~LastPcRepeats'
    BY <2>1 DEF InitTrace, LastPcRepeats, Windowed
  <2> QED BY <2>1, <2>2 DEF SearchInv
<1>7. CASE (\E trace \in Traces : Run(trace)) \/ UNCHANGED vars \/ Finished
  <2>1. UNCHANGED <<full, mutated, crashed, job, reduced, prefix, nopped>>
    BY <1>7 DEF Run, search, vars, Finished
  <2>2. pc' = pc \/ (pc = "run" /\ pc' = "read")
    BY <1>7 DEF Run, vars, Finished
  <2>3. PrefixInv => PrefixInv'
    BY <2>1, PrefixUnchanged
  <2>4. /\ Conflicts' = Conflicts /\ SuffixPcs' = SuffixPcs
        /\ InitTrace' = InitTrace /\ (~LastPcRepeats => ~LastPcRepeats')
    BY <2>1 DEF Conflicts, SuffixPcs, PassTrace, InitTrace, Windowed, LastPcRepeats
  <2> QED BY <2>1, <2>2, <2>3, <2>4 DEF SearchInv
<1>8. CASE PassRead
  <2>1. /\ pc = "read" /\ job = "pass" /\ pc' \in {"shorten", "end"}
        /\ UNCHANGED <<full, mutated, job>>
        /\ pc' = "shorten" => /\ crashed' = crashed \cup {prefix}
                              /\ prefix' = Shorter /\ reduced' = reduced
    BY <1>8 DEF PassRead
  <2>2. PrefixInv /\ prefix > 0 /\ reduced = "no"
    BY <2>1 DEF SearchInv
  <2>3. pc' = "shorten" => PrefixInv'
    BY <2>1, <2>2, ReadKeepsPrefix
  <2> QED BY <2>1, <2>2, <2>3 DEF SearchInv
<1> QED BY <1>1, <1>2, <1>3, <1>4, <1>5, <1>6, <1>7, <1>8 DEF Next

\* The search ends with a prefix only if nothing longer could be subtracted.
LEMMA LongestStep ==
    /\ TraceInv /\ SearchInv /\ LongestIsSubtracted
    /\ [Next]_vars
    => LongestIsSubtracted'
<1> SUFFICES ASSUME TraceInv, SearchInv, LongestIsSubtracted, [Next]_vars,
                    (job = "pass" /\ pc = "end" /\ mutated # {}
                        /\ reduced # "unbuilt")'
             PROVE  LongerFail'
  BY DEF LongestIsSubtracted, LongerFail
<1> USE DEF Unchanged, Searching, Simulating, Early
<1>1. CASE PassRead
  <2>1. pc = "read" /\ job = "pass" /\ UNCHANGED <<full, mutated, prefix, crashed>>
    BY <1>1 DEF PassRead
  <2>2. PrefixInv'
    BY <2>1, PrefixUnchanged DEF SearchInv
  <2> QED BY <2>2 DEF PrefixInv
<1>2. CASE Shorten
  <2>1. pc = "shorten" /\ job = "pass"
    BY <1>2 DEF Shorten, SearchInv
  <2>2. PrefixInv'
    BY <1>2, <2>1, ShortenKeepsPrefix DEF SearchInv
  <2> QED BY <2>2 DEF PrefixInv
<1>3. CASE Finished \/ UNCHANGED vars
  <2>1. UNCHANGED vars
    BY <1>3 DEF Finished
  <2>2. UNCHANGED <<full, mutated, prefix, crashed, job, pc, reduced>>
    BY <2>1 DEF vars, search
  <2>3. job = "pass" /\ pc = "end" /\ mutated # {} /\ reduced # "unbuilt"
    BY <2>2
  <2>4. LongerFail
    BY <2>3 DEF LongestIsSubtracted, LongerFail
  <2> QED BY <2>2, <2>4, LongerUnchanged
<1>4. CASE ~PassRead /\ ~Shorten /\ ~Finished /\ ~UNCHANGED vars
  BY <1>4 DEF Next, Probe, ProbeRun, ProbeRead, EvaluateInit, RejectInit,
     StartCampaign, ExecutePass, EndCampaign, InitSkip, InitUnbuilt, InitStart,
     InitRead, PassSkip, PassStart, PassUnbuilt, PassProbe, Run, TraceInv
<1> QED BY <1>1, <1>2, <1>3, <1>4

(***************************************************************************)
(* The simulations                                                         *)
(***************************************************************************)
\* Nothing an overwritten instruction could change lies within the prefix.
LEMMA NothingOverwritten ==
    ASSUME SearchInv, TraceInv, pc = "run", Window >= MaxTrace
    PROVE  /\ prefix \in Nat /\ prefix <= Len(full[job])
           /\ prefix <= Len(full.init)
           /\ \A i \in 1..prefix : full[job][i] = full.init[i]
           /\ \A i \in 1..prefix : full[job][i] \notin nopped
<1> USE DEF Simulating
<1>1. InitTrace = full.init /\ PassTrace = full.pass
  BY NothingHidden
<1>2. Len(full.init) \in Nat /\ Len(full.init) >= 1 /\ Len(full.pass) \in Nat
  BY LenProperties DEF TraceInv
<1>3. CASE job = "init"
  <2>1. /\ prefix = Len(full.init) - 1 /\ nopped = {full.init[Len(full.init)]}
        /\ ~LastPcRepeats
    BY <1>1, <1>3 DEF SearchInv
  <2>2. \A i \in 1..prefix : full.init[i] # full.init[Len(full.init)]
    BY <1>1, <2>1 DEF LastPcRepeats
  <2>3. prefix \in Nat /\ prefix <= Len(full.init)
    BY <1>2, <2>1
  <2>4. full[job] = full.init
    BY <1>3
  <2> QED BY <2>1, <2>2, <2>3, <2>4
<1>4. CASE job = "pass"
  <2>1. PrefixInv /\ Conflicts = {} /\ nopped = SuffixPcs
    BY <1>4 DEF SearchInv
  <2>2. prefix \in Nat /\ prefix <= Len(full.pass) /\ prefix <= Len(full.init)
    BY <1>1, <1>2, <2>1 DEF PrefixInv
  <2>3. \A i \in 1..prefix : full.init[i] = full.pass[i]
    BY <1>1, <2>1 DEF PrefixInv, Common
  <2>4. \A i \in 1..prefix : full.pass[i] \notin nopped
    BY <1>1, <2>1 DEF Conflicts
  <2>5. full[job] = full.pass
    BY <1>4
  <2> QED BY <2>2, <2>3, <2>4, <2>5
<1> QED BY <1>3, <1>4 DEF TraceInv

\* If nothing is hidden, a simulation executes what the failing case executes,
\* up to its limit.
LEMMA RunReads ==
    ASSUME ArgsInv, TraceInv, SearchInv, Window >= MaxTrace,
           NEW trace \in Traces, Run(trace)
    PROVE  /\ trackers' = SubSeq(full.init, 1, prefix)
           /\ Len(trackers') = prefix
<1> USE DEF Simulating
<1>1. pc = "run" /\ Executes(full[job], nopped, trace)
      /\ trackers' = SubSeq(trace, 1, Least(Limit, Len(trace)))
  BY DEF Run, Simulate
<1>2. FixedArgs(saved) /\ prefix \in Nat /\ simArgs = Append(saved, prefix)
  BY <1>1 DEF ArgsInv
<1>3. Limit = prefix
  BY <1>2, LimitPushed DEF FixedArgs
<1>4. trace \in Seq(PCs) /\ Len(trace) \in Nat
  BY TracesType, LenProperties
<1>5. /\ prefix <= Len(full[job]) /\ prefix <= Len(full.init)
      /\ \A i \in 1..prefix : full[job][i] = full.init[i]
      /\ \A i \in 1..prefix : full[job][i] \notin nopped
  BY <1>1, NothingOverwritten
<1>6. Len(full[job]) \in Nat /\ Len(full.init) \in Nat
  BY LenProperties DEF TraceInv
<1>7. Least(Limit, Len(full[job])) = prefix
  BY <1>2, <1>3, <1>5, <1>6 DEF Least
<1>8. Len(trace) <= prefix
  BY <1>1, <1>3 DEF Executes
<1>9. ASSUME NEW i \in 1..prefix
      PROVE  i <= Len(trace) /\ trace[i] = full.init[i]
  <2>1. \A j \in 1..i - 1 : full[job][j] \notin nopped
    BY <1>2, <1>5
  <2>2. i <= Len(trace) /\ trace[i] = full[job][i]
    BY <1>1, <1>7, <2>1 DEF Executes
  <2> QED BY <1>5, <2>2
<1>10. Len(trace) = prefix
  <2>1. CASE prefix = 0
    BY <1>4, <1>8, <2>1
  <2>2. CASE prefix > 0
    <3>1. prefix \in 1..prefix
      BY <1>2, <2>2
    <3>2. prefix <= Len(trace)
      BY <1>9, <3>1
    <3> QED BY <1>2, <1>4, <1>8, <3>2
  <2> QED BY <1>2, <2>1, <2>2
<1>11. Least(Limit, Len(trace)) = prefix
  BY <1>2, <1>3, <1>10 DEF Least
<1>12. /\ trackers' \in Seq(PCs) /\ Len(trackers') = prefix
       /\ \A i \in 1..prefix : trackers'[i] = trace[i]
  BY <1>1, <1>2, <1>3, <1>4, <1>10, <1>11, CutType
<1>13. Least(prefix, Len(full.init)) = prefix
  BY <1>2, <1>5, <1>6 DEF Least
<1>14. /\ SubSeq(full.init, 1, prefix) \in Seq(PCs)
       /\ Len(SubSeq(full.init, 1, prefix)) = prefix
       /\ \A i \in 1..prefix : SubSeq(full.init, 1, prefix)[i] = full.init[i]
  BY <1>2, <1>13, CutType DEF TraceInv
<1> QED BY <1>9, <1>12, <1>14, SeqEqual

LEMMA RunStep ==
    ArgsInv /\ TraceInv /\ SearchInv /\ RunInv /\ SearchInv' /\ [Next]_vars
        => RunInv'
<1> SUFFICES ASSUME ArgsInv, TraceInv, SearchInv, RunInv, SearchInv', [Next]_vars
             PROVE  RunInv'
  OBVIOUS
<1> USE DEF Unchanged, Simulating, Searching, Early
<1>1. CASE \E trace \in Traces : Run(trace)
  <2> PICK trace \in Traces : Run(trace)
    BY <1>1
  <2>1. pc' = "read" /\ UNCHANGED <<full, prefix>>
    BY DEF Run, search
  <2>2. SubtractedIsCommon'
    BY <2>1 DEF SearchInv, SubtractedIsCommon
  <2> QED BY <2>1, <2>2, RunReads DEF RunInv
<1>2. CASE PassRead
  <2>1. /\ pc = "read" /\ job = "pass" /\ pc' \in {"end", "shorten"}
        /\ pc' = "end" => prefix' = prefix
        /\ ran' = trackers /\ UNCHANGED <<full, mutated>>
    BY <1>2 DEF PassRead
  <2>2. ASSUME Window >= MaxTrace, pc' = "end"
        PROVE  SubtractedIsCommon'
    <3>1. ran' = SubSeq(full.init, 1, prefix)
      BY <2>1, <2>2 DEF RunInv
    <3>2. PrefixInv
      BY <2>1 DEF SearchInv
    <3>3. InitTrace = full.init /\ PassTrace = full.pass
      BY <2>2, NothingHidden
    <3>4. Len(full.init) \in Nat /\ Len(full.pass) \in Nat
      BY LenProperties DEF TraceInv
    <3>5. /\ prefix \in Nat /\ prefix <= Len(full.init)
          /\ \A i \in 1..prefix : full.init[i] \notin mutated
      BY <3>2, <3>3, <3>4 DEF PrefixInv, Common
    <3>6. Least(prefix, Len(full.init)) = prefix
      BY <3>4, <3>5 DEF Least
    <3>7. /\ ran' \in Seq(PCs) /\ Len(ran') = prefix
          /\ \A i \in 1..prefix : ran'[i] = full.init[i]
      BY <3>1, <3>5, <3>6, CutType DEF TraceInv
    <3>8. DOMAIN ran' = 1..prefix
      BY <3>7, LenProperties
    <3>9. PcsOf(ran)' \cap mutated' = {}
      BY <2>1, <3>5, <3>7, <3>8 DEF PcsOf
    <3> QED BY <2>1, <2>2, <3>1, <3>9 DEF SubtractedIsCommon
  <2>3. pc' # "end" => SubtractedIsCommon'
    BY DEF SearchInv, SubtractedIsCommon
  <2> QED BY <2>1, <2>2, <2>3 DEF RunInv
<1>3. CASE Finished \/ UNCHANGED vars
  BY <1>3 DEF Finished, vars, search, harness, RunInv, SubtractedIsCommon, PcsOf
<1>4. CASE /\ ~PassRead /\ ~Finished /\ ~UNCHANGED vars
           /\ ~ \E trace \in Traces : Run(trace)
  <2>1. pc' # "read"
    BY <1>4 DEF Next, Probe, ProbeRun, ProbeRead, EvaluateInit, RejectInit,
       StartCampaign, ExecutePass, EndCampaign, InitSkip, InitUnbuilt, InitStart,
       InitRead, PassSkip, PassStart, Shorten, PassUnbuilt, PassProbe, SearchInv
  <2>2. pc # "end"
    BY <1>4 DEF Next, Probe, ProbeRun, ProbeRead, EvaluateInit, RejectInit,
       StartCampaign, ExecutePass, EndCampaign, InitSkip, InitUnbuilt, InitStart,
       InitRead, PassSkip, PassStart, Shorten, PassUnbuilt, PassProbe
  <2>3. job' = "pass" => reduced' # "subtracted"
    <3>1. CASE InitRead
      BY <3>1 DEF InitRead
    <3>2. CASE ~InitRead
      <4>1. reduced' = reduced \/ reduced' = "unbuilt"
        BY <1>4, <3>2 DEF Next, Probe, ProbeRun, ProbeRead, EvaluateInit,
           RejectInit, StartCampaign, ExecutePass, EndCampaign, InitSkip,
           InitUnbuilt, InitStart, PassSkip, PassStart, Shorten,
           PassUnbuilt, PassProbe, search
      <4> QED BY <2>2, <4>1 DEF SearchInv
    <3> QED BY <3>1, <3>2
  <2> QED BY <2>1, <2>3 DEF RunInv, SubtractedIsCommon
<1> QED BY <1>1, <1>2, <1>3, <1>4

(***************************************************************************)
(* The theorems                                                            *)
(***************************************************************************)
LEMMA Invariant == Spec => []Inv
<1>1. Inv /\ [Next]_vars => Inv'
  <2> SUFFICES ASSUME Inv, [Next]_vars PROVE Inv'
    OBVIOUS
  <2>1. TraceInv' /\ EvaluatedInv' /\ SearchInv'
    BY TraceStep, EvaluatedStep, SearchStep DEF Inv
  <2>2. ArgsInv' /\ LongestIsSubtracted'
    BY ArgsStep, LongestStep DEF Inv
  <2>3. RunInv'
    BY <2>1, RunStep DEF Inv
  <2> QED BY <2>1, <2>2, <2>3 DEF Inv
<1> QED BY <1>1, InitInv, PTL DEF Spec

\* Whatever the window hides, the search ends with the longest prefix that
\* can be subtracted: max_prefix_len_preserving_suffix_nop and the retries of
\* reduce_pass_case_coverage pass over none.
THEOREM LongestSubtracted == Spec => []LongestIsSubtracted
<1>1. Inv => LongestIsSubtracted
  BY DEF Inv
<1> QED BY <1>1, Invariant, PTL

\* If --tracker-window-size hides nothing, what is subtracted from a passing
\* case was executed by the failing case as well.
THEOREM SubtractedCommon ==
    ASSUME Window >= MaxTrace
    PROVE  Spec => []SubtractedIsCommon
<1>1. Inv => SubtractedIsCommon
  BY DEF Inv, RunInv
<1> QED BY <1>1, Invariant, PTL

\* If it hides nothing, every simulation stops where its caller wants it to,
\* with whatever limit the user passes.
THEOREM OwnLimit ==
    ASSUME Window >= MaxTrace
    PROVE  Spec => []RunsUnderOwnLimit
<1>1. Inv => RunsUnderOwnLimit
  <2> SUFFICES ASSUME Inv PROVE RunsUnderOwnLimit
    OBVIOUS
  <2>1. pc = "evaluated" =>
            /\ Len(simArgs) <= 1
            /\ trackers = SubSeq(full.init, 1, Least(Limit, Len(full.init)))
    BY DEF Inv, ArgsInv, UserArgs, EvaluatedInv
  <2>2. (pc = "start" /\ job = "pass") => Len(full.pass) <= Len(full.init)
    BY DEF Inv, TraceInv
  <2>3. pc = "read" => Len(trackers) = prefix
    BY DEF Inv, RunInv
  <2>4. ASSUME pc = "read", job = "init"
        PROVE  trackers = SubSeq(full.init, 1, Len(full.init) - 1)
    <3>1. InitTrace = full.init
      BY NothingHidden DEF Inv
    <3>2. prefix = Len(full.init) - 1
      BY <2>4, <3>1 DEF Inv, SearchInv, Simulating
    <3> QED BY <2>4, <3>2 DEF Inv, RunInv
  <2>5. pc = "end" => saved = None /\ Len(simArgs) <= 2
    BY DEF Inv, ArgsInv
  <2> QED BY <2>1, <2>2, <2>3, <2>4, <2>5 DEF RunsUnderOwnLimit
<1> QED BY <1>1, Invariant, PTL
=============================================================================
