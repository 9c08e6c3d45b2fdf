--------------------------- MODULE ReductionProof ---------------------------
(***************************************************************************)
(* The searches of Reduction for every number of instructions, candidates  *)
(* and failure sites, and for every simulator.                             *)
(***************************************************************************)
EXTENDS Reduction, SequenceTheorems, TLAPS

(***************************************************************************)
(* The inductive invariant: what each search settles on, and what it knows *)
(* before it settles.                                                      *)
(***************************************************************************)
\* The window the nop search settles on was accepted, and the next smaller
\* one was simulated and rejected; without a result, all instructions were
\* kept and that run was rejected as well.
NopIsMinimal ==
    pc = "nop end" =>
        IF best # None
        THEN best.at \in accepted /\ (best.at > 0 => best.at - 1 \in rejected)
        ELSE accepted = {} /\ \E w \in rejected : w >= Insts

\* The prefix search settles on a candidate whose successor was rejected, the
\* last one having no successor, and on none only if it rejected the first.
PrefixIsMaximal ==
    (pc = "prefix end" /\ count > 0) =>
        IF best # None
        THEN best.at \in accepted
             /\ (best.at + 1 < count => best.at + 1 \in rejected)
        ELSE 0 \in rejected

\* The suffix search settles on a candidate whose predecessor was rejected,
\* and on none only if it rejected the last.
SuffixIsMinimal ==
    (pc = "suffix end" /\ count > 0) =>
        IF best # None
        THEN best.at \in accepted /\ (best.at > 0 => best.at - 1 \in rejected)
        ELSE count - 1 \in rejected

BestIs(p) == best # None /\ best.at = p /\ p \in accepted

Unprobed == \A p \in accepted \cup rejected : p < low \/ high <= p

\* No probe was made, or all were rejected and lastFailed is the largest.
Growing ==
    /\ pc = "nop" => best = None /\ accepted = {} /\ rejected = {}
    /\ pc = "nop grow" =>
         /\ best = None
         /\ accepted = {}
         /\ lastFailed < high
         /\ lastFailed \in rejected
         /\ \A p \in rejected : p <= lastFailed

\* A bisection towards the smallest accepted probe.
Down ==
    /\ low <= high
    /\ low > 0 => low - 1 \in rejected
    /\ best # None => BestIs(high)
    /\ Unprobed

Lowering ==
    /\ pc = "nop bisect" => Down /\ best # None
    /\ pc = "suffix bisect" =>
         Down /\ low < high /\ (best = None => high = count)

\* The bisection towards the largest accepted probe.
Raising ==
    /\ pc = "prefix last" =>
         count > 0 /\ best = None /\ low = 0 /\ accepted = {} /\ rejected = {}
    /\ pc = "prefix bisect" =>
         /\ low < high
         /\ high \in rejected
         /\ best = None => low = 0
         /\ best # None => low > 0 /\ BestIs(low - 1)
         /\ Unprobed

\* Both comparisons that lead from the case at hand to the original one.
SameSite ==
    /\ shown.last = original.last
    /\ best # None => SameFailureSite(best.run)
    /\ (\E i \in DOMAIN kept : kept[i] # None) =>
         shown.kind = "Crash" /\ shown.last # None

Searches ==
    /\ Growing /\ Lowering /\ Raising
    /\ NopIsMinimal /\ PrefixIsMaximal /\ SuffixIsMinimal

IInv == TypeOK /\ SameSite /\ Searches /\ PanicsOnlyOnInput

(***************************************************************************)
(* Steps every search is made of.                                          *)
(***************************************************************************)
LEMMA Recording ==
    ASSUME TypeOK, NEW probe \in Nat, NEW out \in Runs \cup {Unbuilt},
           Record(probe, out)
    PROVE  /\ accepted' \subseteq Nat /\ rejected' \subseteq Nat
           /\ best' \in Bests \cup {None}
           /\ Accepted(out) => best' # None /\ best'.at = probe
<1>1. Accepted(out) => out \in Runs
  BY DEF Accepted, SameFailureSite, Unbuilt
<1>2. Accepted(out) => best' \in Bests /\ best'.at = probe
  BY <1>1 DEF Record, Bests
<1> QED BY <1>2, BestAssumption DEF Record, TypeOK

\* An accepted run fails at the same PC as the case at hand.
LEMMA AcceptedSite ==
    ASSUME NEW probe, NEW out, Record(probe, out), SameSite,
           UNCHANGED <<shown, original, kept>>
    PROVE  SameSite'
<1>1. best' # None => SameFailureSite(best'.run)
  <2>1. CASE Accepted(out)
    BY <2>1 DEF Record, Accepted, SameSite
  <2>2. CASE ~Accepted(out)
    BY <2>2 DEF Record, SameSite
  <2> QED BY <2>1, <2>2
<1> QED BY <1>1 DEF SameSite, SameFailureSite

LEMMA Middle ==
    ASSUME low \in Nat, high \in Nat, low < high
    PROVE  Mid \in Nat /\ low <= Mid /\ Mid < high
BY DEF Mid

(***************************************************************************)
(* The actions.                                                            *)
(***************************************************************************)
LEMMA NopNoWindowStep ==
    ASSUME IInv, NEW out \in Runs, NopNoWindow(out)
    PROVE  IInv'
<1>1. /\ TypeOK /\ SameSite /\ pc = "nop" /\ Record(0, out)
      /\ best = None /\ accepted = {} /\ rejected = {}
  BY DEF IInv, NopNoWindow, Searches, Growing
<1>2. /\ accepted' \subseteq Nat /\ rejected' \subseteq Nat
      /\ best' \in Bests \cup {None}
      /\ Accepted(out) => best' # None /\ best'.at = 0
  BY <1>1, Recording
<1>3. SameSite'
  BY <1>1, AcceptedSite DEF NopNoWindow, Unchanged
<1>4. TypeOK'
  BY <1>1, <1>2 DEF TypeOK, NopNoWindow, Unchanged, Steps, Bisecting
<1>5. Searches'
  <2>1. CASE Accepted(out)
    <3>1. pc' = "nop end"
      BY <2>1 DEF NopNoWindow
    <3>2. best' # None /\ best'.at \in accepted' /\ ~(best'.at > 0)
      BY <1>1, <1>2, <2>1 DEF Record
    <3>3. NopIsMinimal'
      BY <3>2 DEF NopIsMinimal
    <3> QED BY <3>1, <3>3 DEF Searches, Growing, Lowering, Raising,
      PrefixIsMaximal, SuffixIsMinimal
  <2>2. CASE ~Accepted(out)
    <3>1. pc' = "nop grow" /\ best' = None /\ accepted' = {}
      BY <1>1, <2>2 DEF NopNoWindow, Record
    <3>2. lastFailed' = 0 /\ high' = 1 /\ rejected' = {0}
      BY <1>1, <2>2 DEF NopNoWindow, Record
    <3>3. lastFailed' < high' /\ lastFailed' \in rejected'
      BY <3>2
    <3>4. \A p \in rejected' : p <= lastFailed'
      BY <3>2
    <3>5. Growing'
      BY <3>1, <3>3, <3>4 DEF Growing
    <3> QED BY <3>1, <3>5 DEF Searches, Lowering, Raising, NopIsMinimal,
      PrefixIsMaximal, SuffixIsMinimal
  <2> QED BY <2>1, <2>2
<1>6. PanicsOnlyOnInput'
  BY DEF NopNoWindow, PanicsOnlyOnInput
<1> QED BY <1>3, <1>4, <1>5, <1>6 DEF IInv

LEMMA NopGrowStep ==
    ASSUME IInv, NEW out \in Runs, NopGrow(out)
    PROVE  IInv'
<1>1. /\ TypeOK /\ SameSite /\ pc = "nop grow" /\ Record(high, out)
      /\ best = None /\ accepted = {}
  BY DEF IInv, NopGrow, Searches, Growing
<1>2. /\ high \in Nat /\ lastFailed \in Nat /\ low \in Nat
      /\ rejected \subseteq Nat
  BY <1>1 DEF TypeOK
<1>8. lastFailed < high
  BY <1>1 DEF IInv, Searches, Growing
<1>9. lastFailed \in rejected /\ \A p \in rejected : p <= lastFailed
  BY <1>1 DEF IInv, Searches, Growing
<1>10. /\ lastFailed + 1 \in Nat /\ lastFailed + 1 <= high
       /\ (lastFailed + 1) - 1 = lastFailed
       /\ \A p \in rejected : p < lastFailed + 1
  BY <1>2, <1>8, <1>9
<1>3. /\ accepted' \subseteq Nat /\ rejected' \subseteq Nat
      /\ best' \in Bests \cup {None}
      /\ Accepted(out) => best' # None /\ best'.at = high
  BY <1>1, <1>2, Recording
<1>4. SameSite'
  BY <1>1, AcceptedSite DEF NopGrow, Unchanged
<1>5. CASE Accepted(out)
  <2>1. /\ pc' = "nop bisect" /\ low' = lastFailed + 1
        /\ UNCHANGED <<lastFailed, high>> /\ Unchanged
    BY <1>5 DEF NopGrow, LowAfterFailed
  <2>2. accepted' = {high} /\ rejected' = rejected
    BY <1>1, <1>5 DEF Record
  <2>3. TypeOK'
    BY <1>1, <1>2, <1>3, <1>10, <2>1 DEF TypeOK, Unchanged, Steps, Bisecting
  <2>4. Down'
    <3>1. low' <= high' /\ low' - 1 \in rejected'
      BY <1>9, <1>10, <2>1, <2>2
    <3>2. BestIs(high)'
      BY <1>3, <1>5, <2>1, <2>2 DEF BestIs
    <3>3. Unprobed'
      <4>1. \A p \in rejected : p < low'
        BY <1>10, <2>1
      <4>2. high' <= high
        <5>1. high' = high
          BY <2>1
        <5> QED BY <1>2, <5>1
      <4> QED BY <2>2, <4>1, <4>2 DEF Unprobed
    <3> QED BY <3>1, <3>2, <3>3 DEF Down
  <2>5. Searches'
    BY <1>3, <1>5, <2>1, <2>4 DEF Searches, Growing, Lowering, Raising,
      NopIsMinimal, PrefixIsMaximal, SuffixIsMinimal
  <2>6. PanicsOnlyOnInput'
    BY <2>1 DEF PanicsOnlyOnInput
  <2> QED BY <1>4, <2>3, <2>5, <2>6 DEF IInv
<1>6. CASE ~Accepted(out) /\ high >= Insts
  <2>1. pc' = "nop end" /\ UNCHANGED <<lastFailed, low, high>> /\ Unchanged
    BY <1>6 DEF NopGrow
  <2>2. /\ accepted' = {} /\ rejected' = rejected \cup {high}
        /\ best' = None
    BY <1>1, <1>6 DEF Record
  <2>3. TypeOK'
    BY <1>1, <1>2, <1>3, <2>1 DEF TypeOK, Unchanged, Steps, Bisecting
  <2>4. NopIsMinimal'
    BY <1>6, <2>2 DEF NopIsMinimal
  <2>5. Searches'
    BY <2>1, <2>4 DEF Searches, Growing, Lowering, Raising, PrefixIsMaximal,
      SuffixIsMinimal
  <2>6. PanicsOnlyOnInput'
    BY <2>1 DEF PanicsOnlyOnInput
  <2> QED BY <1>4, <2>3, <2>5, <2>6 DEF IInv
<1>7. CASE ~Accepted(out) /\ ~(high >= Insts)
  <2>1. /\ lastFailed' = high /\ high' = Doubled /\ UNCHANGED <<pc, low>>
        /\ Unchanged
    BY <1>7 DEF NopGrow
  <2>2. /\ accepted' = {} /\ rejected' = rejected \cup {high}
        /\ best' = None
    BY <1>1, <1>7 DEF Record
  <2>3. high < Insts
    BY <1>2, <1>7, InstAssumption
  <2>4. Doubled \in Nat /\ high < Doubled
    BY <1>2, <1>8, <2>3, InstAssumption DEF Doubled
  <2>5. TypeOK'
    BY <1>1, <1>2, <1>3, <2>1, <2>4 DEF TypeOK, Unchanged, Steps, Bisecting
  <2>6. Growing'
    <3>1. lastFailed' < high' /\ lastFailed' \in rejected'
      BY <2>1, <2>2, <2>4
    <3>2. \A p \in rejected' : p <= lastFailed'
      BY <1>2, <1>8, <1>9, <2>1, <2>2
    <3> QED BY <1>1, <2>1, <2>2, <3>1, <3>2 DEF Growing
  <2>7. Searches'
    BY <1>1, <2>1, <2>6 DEF Searches, Lowering, Raising, NopIsMinimal,
      PrefixIsMaximal, SuffixIsMinimal
  <2>8. PanicsOnlyOnInput'
    BY <1>1, <2>1 DEF PanicsOnlyOnInput
  <2> QED BY <1>4, <2>5, <2>7, <2>8 DEF IInv
<1> QED BY <1>5, <1>6, <1>7

\* One step of a downward bisection, for either search.
LEMMA DownStep ==
    ASSUME TypeOK, SameSite, Down, NEW out \in Runs \cup {Unbuilt}, NEW end,
           BisectDown(out, end), end \in Steps \ Bisecting
    PROVE  /\ TypeOK' /\ SameSite' /\ Down'
           /\ best = None => (best' # None \/ high' = high)
           /\ best # None => best' # None
           /\ pc' = IF low' < high' THEN pc ELSE end
           /\ count' = count
<1>1. /\ low < high /\ Record(Mid, out)
      /\ low \in Nat /\ high \in Nat
      /\ accepted \subseteq Nat /\ rejected \subseteq Nat
  BY DEF BisectDown, TypeOK
<1>2. Mid \in Nat /\ low <= Mid /\ Mid < high
  BY <1>1, Middle
<1>3. /\ accepted' \subseteq Nat /\ rejected' \subseteq Nat
      /\ best' \in Bests \cup {None}
      /\ Accepted(out) => best' # None /\ best'.at = Mid
  BY <1>1, <1>2, Recording
<1>4. /\ pc' = IF low' < high' THEN pc ELSE end
      /\ UNCHANGED lastFailed /\ Unchanged
  BY DEF BisectDown
<1>5. SameSite'
  BY <1>1, <1>4, AcceptedSite DEF Unchanged
<1>6. CASE Accepted(out)
  <2>1. /\ high' = Mid /\ low' = low
        /\ low' <= high' /\ low' \in Nat /\ high' \in Nat
        /\ accepted' = accepted \cup {Mid} /\ rejected' = rejected
    BY <1>1, <1>2, <1>6 DEF BisectDown, Record
  <2>2. TypeOK'
    BY <1>3, <1>4, <2>1 DEF TypeOK, Unchanged, Bisecting
  <2>3. Down'
    BY <1>1, <1>2, <1>3, <1>6, <2>1 DEF Down, BestIs, Unprobed
  <2> QED BY <1>3, <1>4, <1>5, <1>6, <2>2, <2>3 DEF Unchanged
<1>7. CASE ~Accepted(out)
  <2>1. /\ high' = high /\ low' = Mid + 1
        /\ low' <= high' /\ low' \in Nat /\ high' \in Nat
        /\ accepted' = accepted /\ rejected' = rejected \cup {Mid}
        /\ best' = best
    BY <1>1, <1>2, <1>7 DEF BisectDown, Record, AfterMid
  <2>2. TypeOK'
    BY <1>3, <1>4, <2>1 DEF TypeOK, Unchanged, Bisecting
  <2>3. Down'
    BY <1>1, <1>2, <1>3, <1>7, <2>1 DEF Down, BestIs, Unprobed
  <2> QED BY <1>4, <1>5, <2>1, <2>2, <2>3 DEF Unchanged
<1> QED BY <1>6, <1>7

\* Where the bounds of a downward bisection meet, the probe below was
\* rejected and the one at the bounds is the accepted one.
LEMMA DownEnd ==
    ASSUME low \in Nat, high \in Nat, Down, ~(low < high), best # None
    PROVE  best.at \in accepted /\ (best.at > 0 => best.at - 1 \in rejected)
<1>1. low = high
  BY DEF Down
<1>2. best.at = high /\ best.at \in accepted
  BY DEF Down, BestIs
<1>3. low > 0 => low - 1 \in rejected
  BY DEF Down
<1> QED BY <1>1, <1>2, <1>3

LEMMA NopBisectStep ==
    ASSUME IInv, NEW out \in Runs, NopBisect(out)
    PROVE  IInv'
<1>1. /\ TypeOK /\ SameSite /\ pc = "nop bisect" /\ Down /\ best # None
      /\ BisectDown(out, "nop end")
  BY DEF IInv, NopBisect, Searches, Lowering
<1>2. /\ TypeOK' /\ SameSite' /\ Down' /\ best' # None
      /\ pc' = IF low' < high' THEN pc ELSE "nop end"
  <2>1. "nop end" \in Steps \ Bisecting
    BY DEF Steps, Bisecting
  <2>2. out \in Runs \cup {Unbuilt}
    OBVIOUS
  <2> HIDE DEF BisectDown, Down
  <2> QED BY <1>1, <2>1, <2>2, DownStep
<1>3. CASE low' < high'
  <2>1. pc' = "nop bisect"
    BY <1>1, <1>2, <1>3
  <2>2. Searches' /\ PanicsOnlyOnInput'
    BY <1>2, <2>1 DEF Searches, Growing, Lowering, Raising, NopIsMinimal,
      PrefixIsMaximal, SuffixIsMinimal, PanicsOnlyOnInput
  <2> QED BY <1>2, <2>2 DEF IInv
<1>4. CASE ~(low' < high')
  <2>1. pc' = "nop end"
    BY <1>2, <1>4
  <2>2. low' \in Nat /\ high' \in Nat
    BY <1>2 DEF TypeOK
  <2>3. best'.at \in accepted' /\ (best'.at > 0 => best'.at - 1 \in rejected')
    <3>1. (low \in Nat /\ high \in Nat /\ Down /\ ~(low < high) /\ best # None =>
             best.at \in accepted /\ (best.at > 0 => best.at - 1 \in rejected))'
      BY DownEnd, PTL
    <3> QED BY <1>2, <1>4, <2>2, <3>1
  <2>4. Searches' /\ PanicsOnlyOnInput'
    BY <1>2, <2>1, <2>3 DEF Searches, Growing, Lowering, Raising, NopIsMinimal,
      PrefixIsMaximal, SuffixIsMinimal, PanicsOnlyOnInput
  <2> QED BY <1>2, <2>4 DEF IInv
<1> QED BY <1>3, <1>4

LEMMA NopNoBisectStep ==
    ASSUME IInv, NopNoBisect
    PROVE  IInv'
<1>1. /\ TypeOK /\ pc = "nop bisect" /\ Down /\ best # None
      /\ low \in Nat /\ high \in Nat /\ ~(low < high)
  <2>1. low \in Nat /\ high \in Nat /\ low >= high
    BY DEF IInv, NopNoBisect, TypeOK
  <2>2. ~(low < high)
    BY <2>1
  <2> QED BY <2>1, <2>2 DEF IInv, NopNoBisect, Searches, Lowering
<1>2. /\ pc' = "nop end"
      /\ UNCHANGED <<elf, tracked, original, shown, count, lastFailed, low,
                     high, best, accepted, rejected, kept>>
  BY DEF NopNoBisect
<1>3. best.at \in accepted /\ (best.at > 0 => best.at - 1 \in rejected)
  BY <1>1, DownEnd
<1>4. TypeOK'
  BY <1>1, <1>2 DEF TypeOK, Steps, Bisecting
<1>5. Searches' /\ PanicsOnlyOnInput'
  BY <1>1, <1>2, <1>3 DEF Searches, Growing, Lowering, Raising, NopIsMinimal,
    PrefixIsMaximal, SuffixIsMinimal, PanicsOnlyOnInput
<1>6. SameSite'
  BY <1>2 DEF IInv, SameSite, SameFailureSite
<1> QED BY <1>4, <1>5, <1>6 DEF IInv

LEMMA PanicStep ==
    ASSUME IInv, NopPanic \/ StripPanic \/ ModePanic
    PROVE  IInv'
<1>1. /\ TypeOK /\ SameSite /\ pc' = "panic"
      /\ elf # "mapped" \/ tracked # "all"
      /\ UNCHANGED <<elf, tracked, original, shown, count, lastFailed, low,
                     high, best, accepted, rejected, kept>>
  BY DEF IInv, NopPanic, StripPanic, ModePanic
<1>2. TypeOK' /\ SameSite'
  BY <1>1 DEF TypeOK, Ends, Bisecting, SameSite, SameFailureSite
<1>3. Searches' /\ PanicsOnlyOnInput'
  BY <1>1 DEF Searches, Growing, Lowering, Raising, NopIsMinimal,
    PrefixIsMaximal, SuffixIsMinimal, PanicsOnlyOnInput
<1> QED BY <1>2, <1>3 DEF IInv

\* A finished search leaves a case that fails where the original one does.
LEMMA HandOverSite ==
    ASSUME TypeOK, SameSite, NEW next \in (Steps \cup Ends) \ Bisecting,
           HandOver(best, next)
    PROVE  TypeOK' /\ SameSite' /\ pc' = next
<1>1. /\ pc' = next
      /\ UNCHANGED <<elf, tracked, original, count, lastFailed, low, high,
                     best, accepted, rejected>>
  BY DEF HandOver
<1> DEFINE result == IF best = None THEN None ELSE best.at
<1>2. result \in Nat \cup {None}
  BY DEF TypeOK, Bests
<1>3. kept' = Append(kept, result) /\ kept \in Seq(Nat \cup {None})
  BY DEF HandOver, TypeOK
<1>4. /\ kept' \in Seq(Nat \cup {None})
      /\ DOMAIN kept' = DOMAIN kept \cup {Len(kept) + 1}
      /\ \A i \in DOMAIN kept : kept'[i] = kept[i]
      /\ kept'[Len(kept) + 1] = result
  <2> HIDE DEF result
  <2> QED BY <1>2, <1>3, AppendProperties
<1>5. CASE best = None
  <2>1. shown' = shown
    BY <1>5 DEF HandOver
  <2>2. TypeOK'
    BY <1>1, <1>4, <2>1 DEF TypeOK
  <2>3. (\E i \in DOMAIN kept' : kept'[i] # None) =>
           \E i \in DOMAIN kept : kept[i] # None
    BY <1>4, <1>5
  <2>4. SameSite'
    BY <1>1, <1>5, <2>1, <2>3 DEF SameSite
  <2> QED BY <1>1, <2>2, <2>4
<1>6. CASE best # None
  <2>1. shown' = best.run /\ SameFailureSite(best.run) /\ best.run \in Runs
    BY <1>6 DEF HandOver, SameSite, TypeOK, Bests
  <2>2. TypeOK'
    BY <1>1, <1>4, <2>1 DEF TypeOK
  <2>3. SameSite'
    BY <1>1, <2>1 DEF SameSite, SameFailureSite
  <2> QED BY <1>1, <2>2, <2>3
<1> QED BY <1>5, <1>6

LEMMA EndStep ==
    ASSUME IInv, NopEnd \/ PrefixEnd \/ SuffixEnd
    PROVE  IInv'
<1>1. PICK next \in {"prefix", "suffix", "done"} : HandOver(best, next)
  BY DEF NopEnd, PrefixEnd, SuffixEnd
<1>2. next \in (Steps \cup Ends) \ Bisecting
  BY DEF Steps, Ends, Bisecting
<1>3. TypeOK' /\ SameSite' /\ pc' = next
  <2> HIDE DEF HandOver
  <2> QED BY <1>1, <1>2, HandOverSite DEF IInv
<1>4. Searches' /\ PanicsOnlyOnInput'
  BY <1>3 DEF Searches, Growing, Lowering, Raising, NopIsMinimal,
    PrefixIsMaximal, SuffixIsMinimal, PanicsOnlyOnInput
<1> QED BY <1>3, <1>4 DEF IInv

LEMMA PrefixStartStep ==
    ASSUME IInv, NEW n \in 0..MaxCandidates, PrefixStart(n)
    PROVE  IInv'
<1>1. TypeOK /\ SameSite
  BY DEF IInv
<1>2. /\ count' = n /\ low' = 0 /\ high' = n
      /\ best' = None /\ accepted' = {} /\ rejected' = {}
      /\ UNCHANGED <<elf, tracked, original, shown, lastFailed, kept>>
  BY DEF PrefixStart
<1>12. count' = n
  BY <1>2
<1>13. (n = 0 => ~(n > 0)) /\ (n # 0 => n > 0)
  BY CandidateAssumption
<1>3. SameSite'
  BY <1>1, <1>2 DEF SameSite
<1>4. pc' \in {"prefix end", "panic", "prefix last"}
  BY DEF PrefixStart, PrefixFirst
<1>5. pc' \notin Bisecting /\ pc' \in Steps \cup Ends
  BY <1>4 DEF Bisecting, Steps, Ends
<1>6. n \in Nat /\ n \in 0..MaxCandidates
  BY CandidateAssumption
<1>7. TypeOK'
  BY <1>1, <1>2, <1>5, <1>6 DEF TypeOK
<1>8. (pc' = "prefix end" => n = 0) /\ (pc' = "prefix last" => n # 0)
      /\ (pc' = "panic" => tracked # "all")
  BY DEF PrefixStart, PrefixFirst
<1>9. PrefixIsMaximal'
  <2>1. pc' = "prefix end" => ~(count' > 0)
    BY <1>8, <1>12, <1>13
  <2> QED BY <2>1 DEF PrefixIsMaximal
<1>10. Raising'
  <2>1. pc' = "prefix last" => count' > 0
    BY <1>8, <1>12, <1>13
  <2>2. pc' # "prefix bisect"
    BY <1>4
  <2> QED BY <1>2, <2>1, <2>2 DEF Raising
<1>11. Searches' /\ PanicsOnlyOnInput'
  BY <1>2, <1>4, <1>8, <1>9, <1>10 DEF Searches, Growing, Lowering,
    NopIsMinimal, SuffixIsMinimal, PanicsOnlyOnInput
<1> QED BY <1>3, <1>7, <1>11 DEF IInv

LEMMA PrefixLastStep ==
    ASSUME IInv, NEW out \in Runs \cup {Unbuilt}, PrefixLast(out)
    PROVE  IInv'
<1>1. /\ TypeOK /\ SameSite /\ pc = "prefix last" /\ Record(count - 1, out)
      /\ best = None /\ accepted = {} /\ rejected = {}
  BY DEF IInv, PrefixLast, Searches, Raising
<1>2. count \in Nat /\ count > 0 /\ low = 0
  <2>1. count \in Nat
    <3>1. count \in 0..MaxCandidates
      BY <1>1, Zenon DEF TypeOK
    <3> QED BY <3>1, CandidateAssumption
  <2>2. count > 0 /\ low = 0
    BY <1>1 DEF IInv, Searches, Raising
  <2> QED BY <2>1, <2>2
<1>3. count - 1 \in Nat /\ (count - 1) + 1 = count
  BY <1>2
<1>4. /\ accepted' \subseteq Nat /\ rejected' \subseteq Nat
      /\ best' \in Bests \cup {None}
      /\ Accepted(out) => best' # None /\ best'.at = count - 1
  BY <1>1, <1>3, Recording
<1>5. SameSite'
  BY <1>1, AcceptedSite DEF PrefixLast, Unchanged
<1>6. high' = count - 1 /\ UNCHANGED <<low, lastFailed>> /\ Unchanged
  BY DEF PrefixLast
<1>7. CASE Accepted(out) \/ count = 1
  <2>1. pc' = "prefix end"
    BY <1>7 DEF PrefixLast
  <2>2. TypeOK'
    BY <1>1, <1>3, <1>4, <1>6, <2>1 DEF TypeOK, Unchanged, Steps, Bisecting
  <2>3. PrefixIsMaximal'
    <3>1. CASE Accepted(out)
      <4>1. best' # None /\ best'.at = count - 1 /\ best'.at \in accepted'
        BY <1>1, <1>4, <3>1 DEF Record
      <4>2. ~(best'.at + 1 < count')
        <5>1. count' = count
          BY <1>6 DEF Unchanged
        <5> QED BY <1>2, <4>1, <5>1
      <4> QED BY <4>1, <4>2 DEF PrefixIsMaximal
    <3>2. CASE ~Accepted(out)
      <4>1. best' = None /\ count - 1 \in rejected'
        BY <1>1, <3>2 DEF Record
      <4>2. count - 1 = 0
        BY <1>2, <1>7, <3>2
      <4>3. 0 \in rejected'
        BY <4>1, <4>2
      <4> QED BY <4>1, <4>3 DEF PrefixIsMaximal
    <3> QED BY <3>1, <3>2
  <2>4. Searches' /\ PanicsOnlyOnInput'
    BY <2>1, <2>3 DEF Searches, Growing, Lowering, Raising, NopIsMinimal,
      SuffixIsMinimal, PanicsOnlyOnInput
  <2> QED BY <1>5, <2>2, <2>4 DEF IInv
<1>8. CASE ~Accepted(out) /\ count # 1
  <2>1. pc' = "prefix bisect"
    BY <1>8 DEF PrefixLast
  <2>2. low' < high' /\ low' = 0 /\ low' \in Nat /\ high' \in Nat /\ low' <= high'
    <3>1. low' = 0 /\ high' = count - 1
      BY <1>2, <1>6
    <3> QED BY <1>2, <1>8, <3>1
  <2>3. TypeOK'
    BY <1>1, <1>4, <1>6, <2>1, <2>2 DEF TypeOK, Unchanged, Steps
  <2>4. best' = None /\ accepted' = {} /\ rejected' = {high'}
    BY <1>1, <1>6, <1>8 DEF Record
  <2>5. Raising'
    <3>1. Unprobed'
      BY <2>2, <2>4 DEF Unprobed
    <3> QED BY <2>1, <2>2, <2>4, <3>1 DEF Raising
  <2>6. Searches' /\ PanicsOnlyOnInput'
    BY <2>1, <2>5 DEF Searches, Growing, Lowering, PrefixIsMaximal,
      NopIsMinimal, SuffixIsMinimal, PanicsOnlyOnInput
  <2> QED BY <1>5, <2>3, <2>6 DEF IInv
<1> QED BY <1>7, <1>8

LEMMA PrefixBisectStep ==
    ASSUME IInv, NEW out \in Runs \cup {Unbuilt}, PrefixBisect(out)
    PROVE  IInv'
<1>1. /\ TypeOK /\ SameSite /\ pc = "prefix bisect" /\ Record(Mid, out)
      /\ low \in Nat /\ high \in Nat
      /\ accepted \subseteq Nat /\ rejected \subseteq Nat
  BY DEF IInv, PrefixBisect, TypeOK
<1>2. /\ low < high /\ high \in rejected /\ Unprobed
      /\ best = None => low = 0
      /\ best # None => low > 0 /\ BestIs(low - 1)
  BY <1>1 DEF IInv, Searches, Raising
<1>10. low < high /\ low \in Nat /\ high \in Nat
  BY <1>1, <1>2
<1>3. /\ Mid \in Nat /\ low <= Mid /\ Mid < high
      /\ Mid + 1 \in Nat /\ Mid + 1 <= high /\ Mid + 1 > 0 /\ (Mid + 1) - 1 = Mid
  BY <1>10, Middle
<1>4. /\ accepted' \subseteq Nat /\ rejected' \subseteq Nat
      /\ best' \in Bests \cup {None}
      /\ Accepted(out) => best' # None /\ best'.at = Mid
  BY <1>1, <1>3, Recording
<1>11. /\ accepted \subseteq Nat /\ rejected \subseteq Nat
       /\ \A p \in accepted \cup rejected : p < low \/ high <= p
  BY <1>1, <1>2 DEF Unprobed
<1>12. /\ \A p \in accepted \cup rejected \cup {Mid} : p < Mid + 1 \/ high <= p
       /\ \A p \in accepted \cup rejected \cup {Mid} : p < low \/ Mid <= p
  BY <1>3, <1>10, <1>11
<1>5. SameSite'
  BY <1>1, AcceptedSite DEF PrefixBisect, Unchanged
<1>6. /\ pc' = IF low' < high' THEN pc ELSE "prefix end"
      /\ UNCHANGED lastFailed /\ Unchanged
  BY DEF PrefixBisect
<1>7. /\ low' \in Nat /\ high' \in Nat /\ low' <= high' /\ high' \in rejected'
      /\ best' = None => low' = 0
      /\ best' # None => low' > 0 /\ BestIs(low - 1)'
      /\ Unprobed'
  <2>1. CASE Accepted(out)
    <3>1. /\ low' = Mid + 1 /\ high' = high
          /\ accepted' = accepted \cup {Mid} /\ rejected' = rejected
      BY <1>1, <2>1 DEF PrefixBisect, AfterMid, Record
    <3>2. BestIs(low - 1)'
      BY <1>3, <1>4, <2>1, <3>1 DEF BestIs
    <3>3. Unprobed'
      BY <1>12, <3>1 DEF Unprobed
    <3> QED BY <1>1, <1>2, <1>3, <1>4, <2>1, <3>1, <3>2, <3>3
  <2>2. CASE ~Accepted(out)
    <3>1. /\ low' = low /\ high' = Mid /\ best' = best
          /\ accepted' = accepted /\ rejected' = rejected \cup {Mid}
      BY <1>1, <2>2 DEF PrefixBisect, BoundAtFailed, Record
    <3>2. best # None => BestIs(low - 1)'
      BY <1>2, <3>1 DEF BestIs
    <3>3. Unprobed'
      BY <1>12, <3>1 DEF Unprobed
    <3> QED BY <1>1, <1>2, <1>3, <3>1, <3>2, <3>3
  <2> QED BY <2>1, <2>2
<1>8. CASE low' < high'
  <2>1. pc' = "prefix bisect"
    BY <1>1, <1>6, <1>8
  <2>2. TypeOK'
    BY <1>1, <1>4, <1>6, <1>7, <2>1 DEF TypeOK, Unchanged, Steps
  <2>3. Raising'
    BY <1>7, <1>8, <2>1 DEF Raising
  <2>4. Searches' /\ PanicsOnlyOnInput'
    BY <2>1, <2>3 DEF Searches, Growing, Lowering, PrefixIsMaximal,
      NopIsMinimal, SuffixIsMinimal, PanicsOnlyOnInput
  <2> QED BY <1>5, <2>2, <2>4 DEF IInv
<1>9. CASE ~(low' < high')
  <2>1. pc' = "prefix end"
    BY <1>6, <1>9
  <2>2. TypeOK'
    BY <1>1, <1>4, <1>6, <1>7, <2>1 DEF TypeOK, Unchanged, Steps, Bisecting
  <2>3. low' = high'
    BY <1>7, <1>9
  <2>4. PrefixIsMaximal'
    <3>1. best' # None =>
            best'.at \in accepted' /\ best'.at + 1 \in rejected'
      <4>1. best' # None => best'.at = low' - 1 /\ best'.at \in accepted'
        BY <1>7 DEF BestIs
      <4>2. (low' - 1) + 1 = high'
        <5>1. low' \in Nat
          BY <1>7
        <5>2. \A n \in Nat : (n - 1) + 1 = n
          OBVIOUS
        <5> QED BY <2>3, <5>1, <5>2
      <4> QED BY <1>7, <4>1, <4>2
    <3>2. best' = None => 0 \in rejected'
      BY <1>7, <2>3
    <3> QED BY <3>1, <3>2 DEF PrefixIsMaximal
  <2>5. Searches' /\ PanicsOnlyOnInput'
    BY <2>1, <2>4 DEF Searches, Growing, Lowering, Raising, NopIsMinimal,
      SuffixIsMinimal, PanicsOnlyOnInput
  <2> QED BY <1>5, <2>2, <2>5 DEF IInv
<1> QED BY <1>8, <1>9

LEMMA SuffixStartStep ==
    ASSUME IInv, NEW n \in 0..MaxCandidates, SuffixStart(n)
    PROVE  IInv'
<1>1. TypeOK /\ SameSite
  BY DEF IInv
<1>2. /\ count' = n /\ low' = 0 /\ high' = n
      /\ best' = None /\ accepted' = {} /\ rejected' = {}
      /\ UNCHANGED <<elf, tracked, original, shown, lastFailed, kept>>
  BY DEF SuffixStart
<1>3. SameSite'
  BY <1>1, <1>2 DEF SameSite
<1>4. /\ pc' \in {"panic", "suffix end", "suffix bisect"}
      /\ pc' = "panic" => tracked # "all"
      /\ pc' = "suffix end" => n = 0
      /\ pc' = "suffix bisect" => n # 0
  BY DEF SuffixStart
<1>5. n \in Nat /\ n \in 0..MaxCandidates /\ 0 <= n
      /\ (n = 0 => ~(n > 0)) /\ (n # 0 => 0 < n)
  BY CandidateAssumption
<1>6. low' <= high' /\ low' \in Nat /\ high' \in Nat
  BY <1>2, <1>5
<1>7. pc' \in Steps \cup Ends
  BY <1>4 DEF Steps, Ends
<1>8. TypeOK'
  BY <1>1, <1>2, <1>5, <1>6, <1>7 DEF TypeOK
<1>9. SuffixIsMinimal'
  <2>1. count' = n
    BY <1>2
  <2>2. pc' = "suffix end" => ~(count' > 0)
    BY <1>4, <1>5, <2>1
  <2> QED BY <2>2 DEF SuffixIsMinimal
<1>10. Lowering'
  <2>1. ~(low' > 0)
    BY <1>2
  <2>2. Down'
    BY <1>2, <1>6, <2>1 DEF Down, Unprobed
  <2>3. pc' = "suffix bisect" => low' < high'
    <3>1. low' = 0 /\ high' = n
      BY <1>2
    <3> QED BY <1>4, <1>5, <3>1
  <2>4. pc' # "nop bisect"
    BY <1>4
  <2> QED BY <1>2, <2>2, <2>3, <2>4 DEF Lowering
<1>11. Searches' /\ PanicsOnlyOnInput'
  BY <1>2, <1>4, <1>9, <1>10 DEF Searches, Growing, Raising, NopIsMinimal,
    PrefixIsMaximal, PanicsOnlyOnInput
<1> QED BY <1>3, <1>8, <1>11 DEF IInv

LEMMA SuffixBisectStep ==
    ASSUME IInv, NEW out \in Runs \cup {Unbuilt}, SuffixBisect(out)
    PROVE  IInv'
<1>1. /\ TypeOK /\ SameSite /\ pc = "suffix bisect" /\ Down
      /\ best = None => high = count
      /\ BisectDown(out, "suffix end")
  BY DEF IInv, SuffixBisect, Searches, Lowering
<1>2. /\ TypeOK' /\ SameSite' /\ Down'
      /\ best = None => (best' # None \/ high' = high)
      /\ best # None => best' # None
      /\ pc' = IF low' < high' THEN pc ELSE "suffix end"
      /\ count' = count
  <2>1. "suffix end" \in Steps \ Bisecting
    BY DEF Steps, Bisecting
  <2> HIDE DEF BisectDown, Down
  <2> QED BY <1>1, <2>1, DownStep
<1>3. best' = None => high' = count'
  BY <1>1, <1>2
<1>4. CASE low' < high'
  <2>1. pc' = "suffix bisect"
    BY <1>1, <1>2, <1>4
  <2>2. Searches' /\ PanicsOnlyOnInput'
    BY <1>2, <1>3, <1>4, <2>1 DEF Searches, Growing, Lowering, Raising,
      NopIsMinimal, PrefixIsMaximal, SuffixIsMinimal, PanicsOnlyOnInput
  <2> QED BY <1>2, <2>2 DEF IInv
<1>5. CASE ~(low' < high')
  <2>1. pc' = "suffix end"
    BY <1>2, <1>5
  <2>2. low' \in Nat /\ high' \in Nat
    BY <1>2 DEF TypeOK
  <2>3. best' # None =>
          best'.at \in accepted' /\ (best'.at > 0 => best'.at - 1 \in rejected')
    <3>1. (low \in Nat /\ high \in Nat /\ Down /\ ~(low < high) /\ best # None =>
             best.at \in accepted /\ (best.at > 0 => best.at - 1 \in rejected))'
      BY DownEnd, PTL
    <3> QED BY <1>2, <1>5, <2>2, <3>1
  <2>4. low' = high' /\ (low' > 0 => low' - 1 \in rejected')
    <3>1. low' <= high' /\ (low' > 0 => low' - 1 \in rejected')
      BY <1>2 DEF Down
    <3>2. low' = high'
      BY <1>5, <2>2, <3>1
    <3> QED BY <3>1, <3>2
  <2>5. best' = None => (count' > 0 => count' - 1 \in rejected')
    BY <1>3, <2>4
  <2>6. SuffixIsMinimal'
    BY <2>3, <2>5 DEF SuffixIsMinimal
  <2>7. Searches' /\ PanicsOnlyOnInput'
    BY <2>1, <2>6 DEF Searches, Growing, Lowering, Raising, NopIsMinimal,
      PrefixIsMaximal, PanicsOnlyOnInput
  <2> QED BY <1>2, <2>7 DEF IInv
<1> QED BY <1>4, <1>5

LEMMA InitInv == Init => IInv
<1> SUFFICES ASSUME Init PROVE IInv
  OBVIOUS
<1>1. 0 \in Nat /\ 0 \in 0..MaxCandidates
  BY CandidateAssumption
<1>2. TypeOK
  <2>1. pc \in Steps \cup Ends /\ pc \notin Bisecting
    BY DEF Init, Steps, Bisecting
  <2>2. count \in 0..MaxCandidates /\ lastFailed \in Nat
    BY <1>1 DEF Init
  <2>3. low \in Nat /\ high \in Nat
    BY <1>1 DEF Init
  <2>4. kept \in Seq(Nat \cup {None})
    <3>1. kept = <<>>
      BY DEF Init
    <3> QED BY <3>1
  <2>5. /\ elf \in Elfs /\ tracked \in Tracked
        /\ original \in Runs /\ shown \in Runs /\ best \in Bests \cup {None}
        /\ accepted \subseteq Nat /\ rejected \subseteq Nat
    BY DEF Init
  <2> QED BY <2>1, <2>2, <2>3, <2>4, <2>5 DEF TypeOK
<1>3. SameSite
  <2>1. shown = original /\ best = None
    BY DEF Init
  <2>2. kept = <<>>
    BY DEF Init
  <2>3. DOMAIN kept = {}
    BY <2>2
  <2> QED BY <2>1, <2>3 DEF SameSite
<1>4. Searches /\ PanicsOnlyOnInput
  BY DEF Init, Searches, Growing, Lowering, Raising, NopIsMinimal,
    PrefixIsMaximal, SuffixIsMinimal, PanicsOnlyOnInput
<1> QED BY <1>2, <1>3, <1>4 DEF IInv

LEMMA NextInv == IInv /\ [Next]_vars => IInv'
<1> SUFFICES ASSUME IInv, [Next]_vars PROVE IInv'
  OBVIOUS
<1>1. ASSUME NEW out \in Runs, NopNoWindow(out) \/ NopGrow(out) \/ NopBisect(out)
      PROVE  IInv'
  BY <1>1, NopNoWindowStep, NopGrowStep, NopBisectStep
<1>2. CASE NopPanic \/ StripPanic \/ ModePanic \/ NopNoBisect
  BY <1>2, PanicStep, NopNoBisectStep
<1>3. CASE NopEnd \/ PrefixEnd \/ SuffixEnd
  BY <1>3, EndStep
<1>4. ASSUME NEW n \in 0..MaxCandidates, PrefixStart(n) \/ SuffixStart(n)
      PROVE  IInv'
  BY <1>4, PrefixStartStep, SuffixStartStep
<1>5. ASSUME NEW out \in Runs \cup {Unbuilt},
             PrefixLast(out) \/ PrefixBisect(out) \/ SuffixBisect(out)
      PROVE  IInv'
  BY <1>5, PrefixLastStep, PrefixBisectStep, SuffixBisectStep
<1>6. CASE UNCHANGED vars
  <2>1. TypeOK'
    BY <1>6 DEF vars, IInv, TypeOK
  <2>2. SameSite'
    BY <1>6 DEF vars, IInv, SameSite, SameFailureSite
  <2>3. Growing' /\ Lowering' /\ Raising'
    BY <1>6 DEF vars, IInv, Searches, Growing, Lowering, Raising, Down, BestIs,
      Unprobed
  <2>4. NopIsMinimal' /\ PrefixIsMaximal' /\ SuffixIsMinimal' /\ PanicsOnlyOnInput'
    BY <1>6 DEF vars, IInv, Searches, NopIsMinimal, PrefixIsMaximal,
      SuffixIsMinimal, PanicsOnlyOnInput
  <2> QED BY <2>1, <2>2, <2>3, <2>4 DEF IInv, Searches
<1> QED BY <1>1, <1>2, <1>3, <1>4, <1>5, <1>6 DEF Next, Finished

(***************************************************************************)
(* Theorems                                                                *)
(***************************************************************************)
LEMMA Inductive == Spec => []IInv
BY InitInv, NextInv, PTL DEF Spec

\* The searches keep their shape, and no bisection ever inverts its bounds,
\* whatever the simulator answers.
THEOREM TypeCorrect == Spec => []TypeOK
BY Inductive, PTL DEF IInv

\* Comparing with the previous stage only is enough: a case that any search
\* reduced crashes at the PC the original case crashed at.
THEOREM FailureKept == Spec => []ReductionKeepsFailure
<1>1. IInv => ReductionKeepsFailure
  BY DEF IInv, SameSite, ReductionKeepsFailure
<1> QED BY <1>1, Inductive, PTL

\* Every search settles on a boundary of what its simulator accepts, although
\* the simulator need not be monotone.
THEOREM SearchesSettle ==
    Spec => [](NopIsMinimal /\ PrefixIsMaximal /\ SuffixIsMinimal)
<1>1. IInv => NopIsMinimal /\ PrefixIsMaximal /\ SuffixIsMinimal
  BY DEF IInv, Searches
<1> QED BY <1>1, Inductive, PTL

LEMMA InvFresh == IInv => ProbesAreFresh
<1> SUFFICES ASSUME IInv PROVE ProbesAreFresh
  OBVIOUS
<1>1. low \in Nat /\ high \in Nat /\ lastFailed \in Nat
  BY DEF IInv, TypeOK
<1>2. ASSUME pc \in Bisecting, low < high
      PROVE  Mid \notin accepted \cup rejected
  <2>1. Unprobed
    BY <1>2 DEF Bisecting, IInv, Searches, Lowering, Down, Raising
  <2>2. Mid \in Nat /\ low <= Mid /\ Mid < high
    BY <1>1, <1>2, Middle
  <2>3. accepted \subseteq Nat /\ rejected \subseteq Nat
    BY DEF IInv, TypeOK
  <2>4. ~(Mid < low) /\ ~(high <= Mid)
    BY <1>1, <2>2
  <2> QED BY <2>1, <2>4 DEF Unprobed
<1>3. ASSUME pc = "nop grow"
      PROVE  high \notin accepted \cup rejected
  <2>1. accepted = {} /\ lastFailed < high /\ \A p \in rejected : p <= lastFailed
    BY <1>3 DEF IInv, Searches, Growing
  <2>2. ~(high <= lastFailed)
    BY <1>1, <2>1
  <2> QED BY <2>1, <2>2
<1> QED BY <1>2, <1>3 DEF ProbesAreFresh

\* Nothing a simulator answers makes a reduction panic, only an input without
\* a readable ELF and trackers.
THEOREM PanicsForInput == Spec => []PanicsOnlyOnInput
<1>1. IInv => PanicsOnlyOnInput
  BY DEF IInv
<1> QED BY <1>1, Inductive, PTL

\* No search simulates a candidate twice.
THEOREM Fresh == Spec => []ProbesAreFresh
BY InvFresh, Inductive, PTL

(***************************************************************************)
(* The three searches keep the promise of BoundarySearch.                  *)
(***************************************************************************)
\* A probe stays in its search and is new to it.
Probing(p, out) ==
    /\ InSearch /\ InSearch' /\ Goal' = Goal
    /\ LastCandidate' = LastCandidate
    /\ Record(p, out) /\ p \notin accepted \cup rejected
    /\ UNCHANGED <<shown, kept>>

LEMMA ProbeStep ==
    ASSUME NEW p, NEW out, Probing(p, out)
    PROVE  Promise!Probe
<1>1. /\ AcceptedNow = accepted /\ AcceptedNow' = accepted'
      /\ RejectedNow = rejected /\ RejectedNow' = rejected'
  BY DEF Probing, AcceptedNow, RejectedNow
<1>2. Promise!Searching
  BY DEF Probing, InSearch, NopSearch, PrefixSearch, SuffixSearch, Goal,
    Promise!Searching
<1>3. CASE Accepted(out)
  <2>1. accepted' = accepted \cup {p} /\ rejected' = rejected
    BY <1>3 DEF Probing, Record
  <2>2. p \notin rejected
    BY DEF Probing
  <2> QED BY <1>1, <1>2, <2>1, <2>2 DEF Promise!Probe, Probing
<1>4. CASE ~Accepted(out)
  <2>1. rejected' = rejected \cup {p} /\ accepted' = accepted
    BY <1>4 DEF Probing, Record
  <2>2. p \notin accepted
    BY DEF Probing
  <2> QED BY <1>1, <1>2, <2>1, <2>2 DEF Promise!Probe, Probing
<1> QED BY <1>3, <1>4

LEMMA NopProbes ==
    ASSUME IInv, NEW out \in Runs,
           NopNoWindow(out) \/ NopGrow(out) \/ NopBisect(out)
    PROVE  Promise!Probe
<1>1. PICK p : Record(p, out) /\ p \notin accepted \cup rejected
  <2>1. CASE NopNoWindow(out)
    BY <2>1 DEF NopNoWindow, IInv, Searches, Growing
  <2>2. CASE NopGrow(out)
    BY <2>2, InvFresh DEF NopGrow, ProbesAreFresh
  <2>3. CASE NopBisect(out)
    BY <2>3, InvFresh DEF NopBisect, BisectDown, ProbesAreFresh, Bisecting
  <2> QED BY <2>1, <2>2, <2>3
<1>2. pc \in NopSearch /\ pc' \in NopSearch
  BY DEF NopNoWindow, NopGrow, NopBisect, BisectDown, NopSearch
<1>3. UNCHANGED <<shown, kept>>
  BY DEF NopNoWindow, NopGrow, NopBisect, BisectDown, Unchanged
<1>4. Goal' = Goal /\ LastCandidate' = LastCandidate /\ InSearch /\ InSearch'
  BY <1>2 DEF Goal, LastCandidate, InSearch, NopSearch, PrefixSearch
<1> QED BY <1>1, <1>3, <1>4, ProbeStep DEF Probing

LEMMA StripProbes ==
    ASSUME IInv, NEW out \in Runs \cup {Unbuilt},
           PrefixLast(out) \/ PrefixBisect(out) \/ SuffixBisect(out)
    PROVE  Promise!Probe
<1>1. PICK p : Record(p, out) /\ p \notin accepted \cup rejected
  <2>1. CASE PrefixLast(out)
    BY <2>1 DEF PrefixLast, IInv, Searches, Raising
  <2>2. CASE PrefixBisect(out)
    BY <2>2, InvFresh DEF PrefixBisect, ProbesAreFresh, Bisecting
  <2>3. CASE SuffixBisect(out)
    BY <2>3, InvFresh DEF SuffixBisect, BisectDown, ProbesAreFresh, Bisecting
  <2> QED BY <2>1, <2>2, <2>3
<1>2. /\ UNCHANGED <<shown, kept, count>>
      /\ \/ pc \in PrefixSearch /\ pc' \in PrefixSearch
         \/ pc \in SuffixSearch /\ pc' \in SuffixSearch
  BY DEF PrefixLast, PrefixBisect, SuffixBisect, BisectDown, Unchanged,
    PrefixSearch, SuffixSearch
<1>3. Goal' = Goal /\ LastCandidate' = LastCandidate /\ InSearch /\ InSearch'
  BY <1>2 DEF Goal, LastCandidate, InSearch, NopSearch, PrefixSearch, SuffixSearch
<1> QED BY <1>1, <1>2, <1>3, ProbeStep DEF Probing

LEMMA Panics ==
    ASSUME NopPanic \/ StripPanic \/ ModePanic
    PROVE  Promise!Abort
BY DEF NopPanic, StripPanic, ModePanic, Promise!Abort, Goal, LastCandidate, AcceptedNow,
  RejectedNow, InSearch, NopSearch, PrefixSearch, SuffixSearch

LEMMA Starts ==
    ASSUME IInv, NEW n \in 0..MaxCandidates, PrefixStart(n) \/ SuffixStart(n)
    PROVE  Promise!Begin \/ Promise!Abort
<1>1. /\ pc \in {"prefix", "suffix"} /\ ~InSearch /\ Goal = "idle"
      /\ UNCHANGED <<shown, kept>>
      /\ count' = n /\ accepted' = {} /\ rejected' = {}
  BY DEF PrefixStart, SuffixStart, InSearch, NopSearch, PrefixSearch,
    SuffixSearch, Goal
<1>2. AcceptedNow' = {} /\ RejectedNow' = {}
  BY <1>1 DEF AcceptedNow, RejectedNow
<1>3. CASE pc' = "panic"
  <2>1. ~InSearch'
    BY <1>3 DEF InSearch, NopSearch, PrefixSearch, SuffixSearch
  <2>2. LastCandidate' = -1 /\ Goal' = "aborted"
    BY <1>3, <2>1 DEF LastCandidate, Goal
  <2> QED BY <1>1, <1>2, <2>2 DEF Promise!Abort
<1>4. CASE pc' # "panic"
  <2>1. pc' \in PrefixSearch \cup SuffixSearch
    BY <1>4 DEF PrefixStart, SuffixStart, PrefixFirst, PrefixSearch, SuffixSearch
  <2>2. InSearch' /\ pc' \notin NopSearch /\ Goal' \in {"least", "greatest"}
    BY <2>1 DEF InSearch, NopSearch, PrefixSearch, SuffixSearch, Goal
  <2>3. LastCandidate' = n - 1
    BY <1>1, <2>2 DEF LastCandidate
  <2>4. n - 1 \in Nat \cup {-1}
    BY CandidateAssumption
  <2> QED BY <1>1, <1>2, <2>2, <2>3, <2>4 DEF Promise!Begin
<1> QED BY <1>3, <1>4

\* A search without candidates settles on none.
NoneOfNone ==
    /\ pc \in {"prefix last", "prefix bisect", "suffix bisect"} => count > 0
    /\ pc \in {"prefix end", "suffix end"} => count > 0 \/ best = None

LEMMA NextNone == IInv /\ NoneOfNone /\ [Next]_vars => NoneOfNone'
<1> SUFFICES ASSUME IInv, NoneOfNone, [Next]_vars PROVE NoneOfNone'
  OBVIOUS
<1>1. ASSUME NEW out \in Runs, NopNoWindow(out) \/ NopGrow(out) \/ NopBisect(out)
      PROVE  NoneOfNone'
  BY <1>1 DEF NopNoWindow, NopGrow, NopBisect, BisectDown, NoneOfNone
<1>2. CASE NopPanic \/ StripPanic \/ ModePanic \/ NopNoBisect
  BY <1>2 DEF NopPanic, StripPanic, ModePanic, NopNoBisect, NoneOfNone
<1>3. CASE NopEnd \/ PrefixEnd \/ SuffixEnd
  BY <1>3 DEF NopEnd, PrefixEnd, SuffixEnd, HandOver, NoneOfNone
<1>4. ASSUME NEW n \in 0..MaxCandidates, PrefixStart(n) \/ SuffixStart(n)
      PROVE  NoneOfNone'
  <2>1. n = 0 \/ n > 0
    BY CandidateAssumption
  <2>2. count' = n /\ best' = None
    BY <1>4 DEF PrefixStart, SuffixStart
  <2>3. pc' \in {"prefix last", "prefix bisect", "suffix bisect"} => n # 0
    BY <1>4 DEF PrefixStart, SuffixStart, PrefixFirst
  <2> QED BY <2>1, <2>2, <2>3 DEF NoneOfNone
<1>5. ASSUME NEW out \in Runs \cup {Unbuilt},
             PrefixLast(out) \/ PrefixBisect(out) \/ SuffixBisect(out)
      PROVE  NoneOfNone'
  <2>1. count' = count /\ count > 0
    BY <1>5 DEF PrefixLast, PrefixBisect, SuffixBisect, BisectDown, Unchanged,
      NoneOfNone
  <2> QED BY <2>1 DEF NoneOfNone
<1>6. CASE UNCHANGED vars
  BY <1>6 DEF vars, NoneOfNone
<1> QED BY <1>1, <1>2, <1>3, <1>4, <1>5, <1>6 DEF Next, Finished

LEMMA InvNone == Spec => []NoneOfNone
<1>1. Init => NoneOfNone
  BY DEF Init, NoneOfNone
<1> QED BY <1>1, NextNone, Inductive, PTL DEF Spec

\* Facts about numbers alone.
LEMMA Numbers ==
    /\ \A n \in Nat : (n = 0 \/ n > 0) /\ (n = 0 => n - 1 = -1)
    /\ \A n \in Nat : n - 1 >= n - 1
    /\ \A r \in Nat, n \in Nat : r + 1 < n \/ r >= n - 1
    /\ \A n \in 0..MaxCandidates : n \in Nat
BY CandidateAssumption

LEMMA BestAt == ASSUME TypeOK, best # None PROVE best.at \in Nat
<1>1. best \in Bests
  BY DEF TypeOK
<1> QED BY <1>1 DEF Bests

LEMMA CountNat == ASSUME TypeOK PROVE count \in Nat
BY Numbers DEF TypeOK

\* What the boundary invariants say of a search that ends.
LEMMA EndsFound ==
    ASSUME IInv, NoneOfNone, best # None,
           pc \in {"nop end", "prefix end", "suffix end"}
    PROVE  best.at \in accepted /\ Promise!AtBoundary(best.at)
<1>1. InSearch /\ AcceptedNow = accepted /\ RejectedNow = rejected
  BY DEF InSearch, NopSearch, PrefixSearch, SuffixSearch, AcceptedNow, RejectedNow
<1>2. best.at \in Nat /\ count \in Nat
  BY BestAt, CountNat DEF IInv
<1>3. CASE pc \in {"nop end", "suffix end"}
  <2>1. Goal = "least"
    BY <1>3, <1>1 DEF Goal, PrefixSearch
  <2>2. best.at \in accepted /\ (best.at > 0 => best.at - 1 \in rejected)
    BY <1>3 DEF IInv, Searches, NopIsMinimal, SuffixIsMinimal, NoneOfNone
  <2>3. best.at = 0 \/ best.at > 0
    BY <1>2, Numbers
  <2> QED BY <1>1, <2>1, <2>2, <2>3 DEF Promise!AtBoundary
<1>4. CASE pc = "prefix end"
  <2>1. Goal = "greatest" /\ LastCandidate = count - 1
    BY <1>4, <1>1 DEF Goal, LastCandidate, NopSearch, PrefixSearch
  <2>2. count > 0
    BY <1>4 DEF NoneOfNone
  <2>3. best.at \in accepted /\ (best.at + 1 < count => best.at + 1 \in rejected)
    BY <1>4, <2>2 DEF IInv, Searches, PrefixIsMaximal
  <2>4. best.at + 1 < count \/ best.at >= count - 1
    BY <1>2, Numbers
  <2> QED BY <1>1, <2>1, <2>3, <2>4 DEF Promise!AtBoundary
<1> QED BY <1>3, <1>4

LEMMA EndsFoundNone ==
    ASSUME IInv, best = None, pc \in {"nop end", "prefix end", "suffix end"}
    PROVE  Promise!NothingToFind
<1>1. InSearch /\ RejectedNow = rejected
  BY DEF InSearch, NopSearch, PrefixSearch, SuffixSearch, RejectedNow
<1>2. count \in Nat
  BY CountNat DEF IInv
<1>3. CASE pc = "nop end"
  <2>1. Goal = "least" /\ LastCandidate = Insts
    BY <1>3, <1>1 DEF Goal, LastCandidate, NopSearch, PrefixSearch
  <2>2. \E w \in rejected : w >= Insts
    BY <1>3 DEF IInv, Searches, NopIsMinimal
  <2> QED BY <1>1, <2>1, <2>2 DEF Promise!NothingToFind
<1>4. CASE pc # "nop end"
  <2>1. LastCandidate = count - 1
    BY <1>1, <1>4 DEF LastCandidate, NopSearch
  <2>2. CASE count = 0
    <3>1. LastCandidate = -1
      BY <1>2, <2>1, <2>2, Numbers
    <3> QED BY <3>1 DEF Promise!NothingToFind
  <2>3. CASE count > 0 /\ pc = "prefix end"
    <3>1. Goal = "greatest"
      BY <1>1, <2>3 DEF Goal, NopSearch, PrefixSearch
    <3>2. 0 \in rejected
      BY <2>3 DEF IInv, Searches, PrefixIsMaximal
    <3> QED BY <1>1, <3>1, <3>2 DEF Promise!NothingToFind
  <2>4. CASE count > 0 /\ pc = "suffix end"
    <3>1. Goal = "least"
      BY <1>1, <2>4 DEF Goal, PrefixSearch
    <3>2. count - 1 \in rejected
      BY <2>4 DEF IInv, Searches, SuffixIsMinimal
    <3>3. count - 1 >= count - 1
      BY <1>2, Numbers
    <3> QED BY <1>1, <2>1, <3>1, <3>2, <3>3 DEF Promise!NothingToFind
  <2>5. count = 0 \/ count > 0
    BY <1>2, Numbers
  <2> QED BY <1>4, <2>2, <2>3, <2>4, <2>5
<1> QED BY <1>3, <1>4

LEMMA Settles ==
    ASSUME IInv, NoneOfNone, NopEnd \/ PrefixEnd \/ SuffixEnd
    PROVE  Promise!Settle
<1>1. /\ pc \in {"nop end", "prefix end", "suffix end"}
      /\ pc' \in {"prefix", "suffix", "done"}
      /\ kept' = Append(kept, IF best = None THEN None ELSE best.at)
      /\ shown' = IF best = None THEN shown ELSE best.run
  BY DEF NopEnd, PrefixEnd, SuffixEnd, HandOver
<1>2. Promise!Searching /\ AcceptedNow = accepted
  BY <1>1 DEF InSearch, NopSearch, PrefixSearch, SuffixSearch, Goal,
    Promise!Searching, AcceptedNow
<1>3. Goal' = "idle" /\ LastCandidate' = -1 /\ AcceptedNow' = {} /\ RejectedNow' = {}
  BY <1>1 DEF InSearch, NopSearch, PrefixSearch, SuffixSearch, Goal,
    LastCandidate, AcceptedNow, RejectedNow
<1>4. CASE best # None
  <2>1. best.run.kind = "Crash" /\ best.run.last = shown.last /\ shown.last # None
    BY <1>4 DEF IInv, SameSite, SameFailureSite
  <2>2. best.at \in accepted /\ Promise!AtBoundary(best.at)
    BY <1>1, <1>4, EndsFound
  <2> QED BY <1>1, <1>2, <1>3, <1>4, <2>1, <2>2 DEF Promise!Settle
<1>5. CASE best = None
  <2>1. Promise!NothingToFind
    BY <1>1, <1>5, EndsFoundNone
  <2> QED BY <1>1, <1>2, <1>3, <1>5, <2>1 DEF Promise!Settle
<1> QED BY <1>4, <1>5

\* Steps between a search's probes are not seen.
LEMMA Stutters ==
    ASSUME NopNoBisect \/ UNCHANGED vars
    PROVE  UNCHANGED Promise!vars
BY DEF NopNoBisect, vars, Promise!vars, Goal, LastCandidate, AcceptedNow,
  RejectedNow, InSearch, NopSearch, PrefixSearch, SuffixSearch

LEMMA StepRefines ==
    IInv /\ NoneOfNone /\ [Next]_vars => [Promise!Next]_Promise!vars
<1> SUFFICES ASSUME IInv, NoneOfNone, [Next]_vars
             PROVE  Promise!Next \/ UNCHANGED Promise!vars
  OBVIOUS
<1>1. ASSUME NEW out \in Runs, NopNoWindow(out) \/ NopGrow(out) \/ NopBisect(out)
      PROVE  Promise!Next
  BY <1>1, NopProbes DEF Promise!Next
<1>2. CASE NopPanic \/ StripPanic \/ ModePanic
  BY <1>2, Panics DEF Promise!Next
<1>3. CASE NopEnd \/ PrefixEnd \/ SuffixEnd
  BY <1>3, Settles DEF Promise!Next
<1>4. ASSUME NEW n \in 0..MaxCandidates, PrefixStart(n) \/ SuffixStart(n)
      PROVE  Promise!Next
  BY <1>4, Starts DEF Promise!Next
<1>5. ASSUME NEW out \in Runs \cup {Unbuilt},
             PrefixLast(out) \/ PrefixBisect(out) \/ SuffixBisect(out)
      PROVE  Promise!Next
  BY <1>5, StripProbes DEF Promise!Next
<1>6. CASE NopNoBisect \/ UNCHANGED vars
  BY <1>6, Stutters
<1> QED BY <1>1, <1>2, <1>3, <1>4, <1>5, <1>6 DEF Next, Finished

LEMMA InitRefines == Init => Promise!Init
BY InstAssumption DEF Init, Promise!Init, Goal, LastCandidate, AcceptedNow,
  RejectedNow, InSearch, NopSearch, PrefixSearch

\* The reduction of a failing case implements the promise of a search that
\* ends on a boundary and keeps the failure: every step of its three searches
\* is a step of the promise or is not seen there.
THEOREM KeepsPromise == Spec => SettlesOnBoundaries
BY InitRefines, StepRefines, Inductive, InvNone, PTL DEF Spec, SettlesOnBoundaries, Promise!Spec
=============================================================================
