--------------------------- MODULE CampaignProof ---------------------------
(***************************************************************************)
(* Proofs about Campaign for every value of its constants.                 *)
(***************************************************************************)
EXTENDS Campaign, Ordering

-----------------------------------------------------------------------------
(* The inductive invariant. *)

\* While the driver runs it owes iterations, and executions inside a stage.
CountersOwed ==
    /\ pc = "boot" => loops = MaxIters
    /\ pc \in Fuzzing => loops >= 1
    /\ pc \in {"run", "evaluated"} => execs >= 1

\* Nothing has happened before the initial case is evaluated.
FreshBoot ==
    pc = "boot" => /\ Ids = {}
                   /\ nextId = 0
                   /\ current = None
                   /\ initialId = None
                   /\ covSeen = {}

\* Entry 0 is the failing initial case.
ZeroIsInitial ==
    pc \in Fuzzing =>
        /\ 0 \in Ids
        /\ ~corpus[0].passed
        /\ corpus[0].input = {}
        /\ corpus[0].parent = None
        /\ mode = "WitHW" => initialId = 0

\* corpus.current() never names an entry that has left the corpus.
CurrentAlive == pc \in Fuzzing => current \in Ids \cup {None}

\* The entry post_exec is told about is in the corpus, and its parent is the
\* current entry, another one.
AddedIsChild ==
    (pc = "evaluated" /\ added # None) =>
        /\ added \in Ids
        /\ current # added
        /\ corpus[added].parent = current

IInv ==
    /\ TypeOK
    /\ CountersOwed
    /\ FreshBoot
    /\ ZeroIsInitial
    /\ CurrentAlive
    /\ AddedIsChild
    /\ AbortsOnlyOutside

-----------------------------------------------------------------------------
\* corpus.first() is entry 0 as soon as there is one.
LEMMA FirstIsZero ==
    ASSUME NEW c, DOMAIN c \subseteq Nat, 0 \in DOMAIN c
    PROVE  First(c) = 0
<1>1. \A other \in DOMAIN c : 0 <= other
  OBVIOUS
<1>2. /\ First(c) \in DOMAIN c
      /\ \A other \in DOMAIN c : First(c) <= other
  BY <1>1 DEF First
<1> QED BY <1>2

\* The combined verdict of the feedbacks.
Interesting(out) == CoverageIsNew(out) \/ TraceIsNew(out)

\* What an evaluation does to the corpus: it adds the run or it does not, and
\* it never finds a feedback without pending metadata.
LEMMA EvaluateAddsOrNot ==
    ASSUME TypeOK, NEW input \in SUBSET Candidates, NEW out \in Outcomes,
           NEW after, Evaluate(input, out, after)
    PROVE  /\ pc' = after
           /\ covSeen' = covSeen \cup {out.cov}
           /\ trkSeen' = trkSeen \cup {out.trk}
           /\ \/ /\ Interesting(out)
                 /\ corpus' = [id \in Ids \cup {nextId} |->
                                 IF id = nextId
                                 THEN [input |-> input, passed |-> out.passed,
                                       cov |-> out.cov, trk |-> out.trk,
                                       parent |-> current, history |-> None,
                                       ran |-> out]
                                 ELSE corpus[id]]
                 /\ nextId' = nextId + 1
                 /\ added' = nextId
                 /\ pending' = NothingPending
              \/ /\ ~Interesting(out)
                 /\ added' = None
                 /\ pending' = [passed |-> out.passed, cov |-> out.cov,
                                trk |-> out.trk]
                 /\ UNCHANGED <<corpus, nextId>>
<1>1. out.passed # None /\ out.cov # None /\ out.trk # None
  BY NoneAssumption DEF Outcomes
<1>2. Appendable(PendingOf(out))
  BY <1>1 DEF Appendable, PendingOf
<1>3. Judge(out) = [interesting |-> Interesting(out),
                    covSeen |-> covSeen \cup {out.cov},
                    trkSeen |-> trkSeen \cup {out.trk},
                    pending |-> PendingOf(out)]
  BY DEF Judge, Interesting
<1>4. CASE Interesting(out)
  BY <1>2, <1>3, <1>4 DEF Evaluate, NewTestcase, PendingOf
<1>5. CASE ~Interesting(out)
  BY <1>2, <1>3, <1>5 DEF Evaluate, PendingOf
<1> QED BY <1>4, <1>5

\* The corpus after an evaluation is still a corpus.
LEMMA EvaluateTypes ==
    ASSUME TypeOK, NEW input \in SUBSET Candidates, NEW out \in Outcomes,
           NEW after \in Phases \cup Ends, Evaluate(input, out, after)
    PROVE  /\ pc' \in Phases \cup Ends
           /\ DOMAIN corpus' \in SUBSET (0..(nextId' - 1))
           /\ \A id \in DOMAIN corpus' : corpus'[id] \in Testcases
           /\ nextId' \in Nat
           /\ covSeen' \subseteq Covs
           /\ trkSeen' \subseteq Trks
           /\ pending'.passed \in BOOLEAN \cup {None}
           /\ pending'.cov \in Covs \cup {None}
           /\ pending'.trk \in Trks \cup {None}
           /\ added' \in Nat \cup {None}
<1>1. /\ out.passed \in BOOLEAN
      /\ out.cov \in Covs
      /\ out.trk \in Trks
  BY DEF Outcomes
<1>2. CASE ~Interesting(out)
  <2>1. /\ added' = None
        /\ pending' = [passed |-> out.passed, cov |-> out.cov, trk |-> out.trk]
        /\ corpus' = corpus
        /\ nextId' = nextId
    BY <1>2, EvaluateAddsOrNot
  <2>2. pc' = after /\ covSeen' \subseteq Covs /\ trkSeen' \subseteq Trks
    BY <1>1, EvaluateAddsOrNot DEF TypeOK
  <2> QED BY <1>1, <2>1, <2>2 DEF TypeOK, Ids
<1>3. CASE Interesting(out)
  <2> DEFINE t == [input |-> input, passed |-> out.passed,
                   cov |-> out.cov, trk |-> out.trk,
                   parent |-> current, history |-> None, ran |-> out]
  <2>1. /\ corpus' = [id \in Ids \cup {nextId} |->
                        IF id = nextId THEN t ELSE corpus[id]]
        /\ nextId' = nextId + 1
        /\ added' = nextId
        /\ pending' = NothingPending
    BY <1>3, EvaluateAddsOrNot
  <2>2. t \in Testcases
    BY <1>1 DEF Testcases, TypeOK
  <2>3. \A id \in DOMAIN corpus' : corpus'[id] \in Testcases
    <3> HIDE DEF t
    <3> QED BY <2>1, <2>2 DEF TypeOK
  <2>4. DOMAIN corpus' \in SUBSET (0..(nextId' - 1))
    <3>1. DOMAIN corpus' = Ids \cup {nextId}
      BY <2>1
    <3>2. nextId \in Nat /\ Ids \subseteq 0..(nextId - 1)
      BY DEF TypeOK, Ids
    <3>3. nextId' - 1 = nextId
      BY <2>1, <3>2
    <3>4. Ids \cup {nextId} \subseteq 0..nextId
      BY <3>2
    <3> QED BY <3>1, <3>3, <3>4
  <2>5. /\ nextId' \in Nat
        /\ added' \in Nat
        /\ pending'.passed = None
        /\ pending'.cov = None
        /\ pending'.trk = None
    BY <2>1 DEF TypeOK, NothingPending
  <2>6. pc' = after /\ covSeen' \subseteq Covs /\ trkSeen' \subseteq Trks
    BY <1>1, EvaluateAddsOrNot DEF TypeOK
  <2> QED BY <2>3, <2>4, <2>5, <2>6
<1> QED BY <1>2, <1>3

-----------------------------------------------------------------------------
(* Init and the steps that evaluate an input. *)

LEMMA InitInv == Init => IInv
<1> SUFFICES ASSUME Init PROVE IInv
  OBVIOUS
<1>1. DOMAIN corpus = {}
  BY DEF Init
<1>2. TypeOK
  BY <1>1, BoundAssumption
     DEF Init, TypeOK, Ids, Phases, NothingPending
<1> QED BY <1>1, <1>2 DEF Init, IInv, CountersOwed, FreshBoot, ZeroIsInitial,
          CurrentAlive, AddedIsChild, AbortsOnlyOutside, Fuzzing, Ids

LEMMA BootInv ==
    ASSUME IInv, NEW out \in Outcomes, NEW built \in BOOLEAN, Boot(out, built)
    PROVE  IInv'
<1> DEFINE after == IF \/ ~Judge(out).interesting
                       \/ out.passed
                       \/ Guided /\ out.trk = EmptyTrk
                       \/ ~built
                       \/ MaxIters = 0
                    THEN "rejected" ELSE "schedule"
<1>1. /\ TypeOK
      /\ pc = "boot"
      /\ Evaluate({}, out, after)
      /\ UNCHANGED <<mode, current, seed, child, mutatedPcs, loops, execs>>
      /\ initialId' = IF mode = "WitHW" THEN nextId ELSE initialId
  BY DEF Boot, IInv
<1>2. Ids = {} /\ nextId = 0 /\ current = None /\ covSeen = {} /\ loops = MaxIters
  BY <1>1 DEF IInv, FreshBoot, CountersOwed
<1>3. after \in {"rejected", "schedule"} /\ after \in Phases \cup Ends
  BY DEF Phases, Ends
<1>4. TypeOK'
  <2> HIDE DEF after
  <2> QED BY <1>1, <1>2, <1>3, EvaluateTypes DEF TypeOK, Ids
<1>5. Interesting(out)
  BY <1>2 DEF Interesting, CoverageIsNew
<1>6. /\ pc' = after
      /\ corpus' = [id \in {0} |->
                      [input |-> {}, passed |-> out.passed,
                       cov |-> out.cov, trk |-> out.trk,
                       parent |-> None, history |-> None, ran |-> out]]
      /\ nextId' = 1
      /\ added' = 0
  <2> HIDE DEF after
  <2>1. /\ corpus' = [id \in Ids \cup {nextId} |->
                      IF id = nextId
                      THEN [input |-> {}, passed |-> out.passed,
                            cov |-> out.cov, trk |-> out.trk,
                            parent |-> current, history |-> None,
                            ran |-> out]
                      ELSE corpus[id]]
        /\ nextId' = nextId + 1
        /\ added' = nextId
        /\ pc' = after
    BY <1>1, <1>3, <1>5, EvaluateAddsOrNot
  <2> QED BY <1>2, <2>1
<1>7. after = "schedule" => ~out.passed /\ MaxIters # 0
  OBVIOUS
<1> HIDE DEF after
<1>8. Ids' = {0}
  BY <1>6 DEF Ids
<1>9. pc' # "boot" /\ pc' \notin {"run", "evaluated", "error"}
  BY <1>3, <1>6
<1>10. ZeroIsInitial'
  BY <1>1, <1>2, <1>3, <1>6, <1>7, <1>8 DEF ZeroIsInitial, Fuzzing
<1>11. CountersOwed'
  BY <1>1, <1>2, <1>3, <1>6, <1>7, <1>9, BoundAssumption DEF CountersOwed, Fuzzing
<1> QED BY <1>1, <1>2, <1>4, <1>9, <1>10, <1>11
     DEF IInv, FreshBoot, CurrentAlive, AddedIsChild, AbortsOnlyOutside

LEMMA ExecuteInv ==
    ASSUME IInv, NEW out \in Outcomes, Execute(out)
    PROVE  IInv'
<1>1. /\ TypeOK
      /\ pc = "run"
      /\ child \in SUBSET Candidates
      /\ Evaluate(child, out, "evaluated")
      /\ UNCHANGED <<mode, current, initialId, seed, child, mutatedPcs, loops, execs>>
  BY DEF Execute, IInv, TypeOK
<1>2. /\ "evaluated" \in Phases \cup Ends
      /\ pc \in Fuzzing
  BY <1>1 DEF Phases, Ends, Fuzzing
<1>3. TypeOK'
  BY <1>1, <1>2, EvaluateTypes DEF TypeOK, Ids
<1>4. pc' = "evaluated"
  BY <1>1, EvaluateAddsOrNot
<1>5. /\ nextId \in Nat
      /\ nextId \notin Ids
      /\ current # nextId
      /\ 0 \in Ids
      /\ 0 # nextId
  BY <1>1, <1>2, NoneAssumption
     DEF IInv, ZeroIsInitial, CurrentAlive, TypeOK, Ids
<1>6. /\ Ids \subseteq Ids'
      /\ \A id \in Ids : corpus'[id] = corpus[id]
      /\ added' # None => /\ added' \in Ids'
                          /\ current' # added'
                          /\ corpus'[added'].parent = current'
  <2>1. CASE Interesting(out)
    <3>1. /\ corpus' = [id \in Ids \cup {nextId} |->
                          IF id = nextId
                          THEN [input |-> child, passed |-> out.passed,
                                cov |-> out.cov, trk |-> out.trk,
                                parent |-> current, history |-> None,
                                ran |-> out]
                          ELSE corpus[id]]
          /\ added' = nextId
      BY <1>1, <2>1, EvaluateAddsOrNot
    <3> QED BY <1>1, <1>5, <3>1 DEF Ids
  <2>2. CASE ~Interesting(out)
    <3>1. added' = None /\ corpus' = corpus
      BY <1>1, <2>2, EvaluateAddsOrNot
    <3> QED BY <3>1 DEF Ids
  <2> QED BY <2>1, <2>2
<1> QED BY <1>1, <1>2, <1>3, <1>4, <1>5, <1>6
     DEF IInv, CountersOwed, FreshBoot, ZeroIsInitial, CurrentAlive,
         AddedIsChild, AbortsOnlyOutside, Fuzzing

-----------------------------------------------------------------------------
(* Scheduling and mutation. *)

LEMMA QueueNextInCorpus ==
    ASSUME TypeOK, 0 \in Ids
    PROVE  QueueNext \in Ids
<1>1. Ids \subseteq Nat
  <2>1. Ids \subseteq 0..(nextId - 1)
    BY DEF TypeOK, Ids
  <2> QED BY <2>1
<1>2. First(corpus) = 0
  BY <1>1, FirstIsZero DEF Ids
<1> DEFINE later == {id \in Ids : current # None /\ id > current}
<1>3. CASE later = {}
  BY <1>2, <1>3 DEF QueueNext
<1>4. CASE later # {}
  <2>1. \E id \in later : \A other \in later : id <= other
    BY <1>1, <1>4, LeastNatural
  <2>2. QueueNext = CHOOSE id \in later : \A other \in later : id <= other
    BY <1>4 DEF QueueNext
  <2> QED BY <2>1, <2>2
<1> QED BY <1>3, <1>4

LEMMA EnterStageInv ==
    ASSUME IInv, pc = "schedule", NEW id \in Ids, NEW n \in 1..MaxStageExecs,
           EnterStage(id, n)
    PROVE  IInv'
<1>1. /\ TypeOK
      /\ pc' = "stage"
      /\ current' = id
      /\ seed' = corpus[id].input
      /\ execs' = n
      /\ UNCHANGED <<mode, corpus, nextId, initialId, child, mutatedPcs,
                     covSeen, trkSeen, pending, added, loops>>
  BY DEF EnterStage, IInv
<1>2. id \in Nat /\ corpus[id].input \subseteq Candidates /\ n \in Nat
  BY <1>1, BoundAssumption DEF TypeOK, Ids, Testcases
<1>3. TypeOK'
  BY <1>1, <1>2 DEF TypeOK, Ids, Phases
<1> QED BY <1>1, <1>3
     DEF IInv, CountersOwed, FreshBoot, ZeroIsInitial, CurrentAlive,
         AddedIsChild, AbortsOnlyOutside, Fuzzing, Ids

LEMMA ScheduleQueueInv ==
    ASSUME IInv, NEW n \in 1..MaxStageExecs, ScheduleQueue(n)
    PROVE  IInv'
<1>1. pc = "schedule" /\ EnterStage(QueueNext, n)
  BY DEF ScheduleQueue
<1>2. QueueNext \in Ids
  BY <1>1, QueueNextInCorpus DEF IInv, ZeroIsInitial, Fuzzing
<1> QED BY <1>1, <1>2, EnterStageInv

LEMMA ScheduleWitInv ==
    ASSUME IInv, NEW id \in Ids, NEW n \in 1..MaxStageExecs,
           ScheduleWit(id, n)
    PROVE  IInv'
<1>1. pc = "schedule" /\ mode = "WitHW" /\ TypeOK
  BY DEF ScheduleWit, IInv
<1>2. 0 \in Ids /\ initialId = 0 /\ First(corpus) = 0
  BY <1>1, FirstIsZero DEF IInv, ZeroIsInitial, Fuzzing, TypeOK, Ids
<1>3. CASE ~RankingAborts(corpus, initialId)
  BY <1>1, <1>2, <1>3, EnterStageInv DEF ScheduleWit
<1>4. CASE RankingAborts(corpus, initialId)
  <2>1. /\ pc' = "error"
        /\ UNCHANGED <<mode, corpus, nextId, current, initialId, seed, child,
                       mutatedPcs, covSeen, trkSeen, pending, added,
                       loops, execs>>
    BY <1>2, <1>4 DEF ScheduleWit
  <2>2. TypeOK'
    BY <1>1, <2>1 DEF TypeOK, Ids, Ends
  <2>3. AbortsOnlyOutside'
    BY <1>1, <1>2, <1>4, <2>1
       DEF AbortsOnlyOutside, RankingAborts, PassedCases, First
  <2> QED BY <2>1, <2>2, <2>3
       DEF IInv, CountersOwed, FreshBoot, ZeroIsInitial, CurrentAlive,
           AddedIsChild, Fuzzing
<1> QED BY <1>3, <1>4

LEMMA MutateInv ==
    ASSUME IInv, NEW S \in SUBSET Candidates, MutateGuided(S) \/ MutateHavoc(S)
    PROVE  IInv'
<1>1. /\ TypeOK
      /\ pc = "stage"
      /\ execs > 0
      /\ pc' = "run"
      /\ child' = seed \cup S
      /\ mutatedPcs' \in {mutatedPcs, S}
      /\ UNCHANGED <<mode, corpus, nextId, current, initialId, seed, covSeen,
                     trkSeen, pending, added, loops, execs>>
  BY DEF IInv, MutateGuided, MutateHavoc, Overwritten
<1>2. TypeOK'
  BY <1>1 DEF TypeOK, Ids, Phases
<1> QED BY <1>1, <1>2
     DEF IInv, TypeOK, CountersOwed, FreshBoot, ZeroIsInitial, CurrentAlive,
         AddedIsChild, AbortsOnlyOutside, Fuzzing, Ids

LEMMA HavocInv ==
    ASSUME IInv, SkipHavoc \/ FailHavoc
    PROVE  IInv'
<1>1. /\ TypeOK
      /\ pc = "stage"
      /\ execs > 0
      /\ mode = "Random"
      /\ UNCHANGED <<mode, corpus, nextId, current, initialId, seed, child,
                     mutatedPcs, covSeen, trkSeen, pending, added, loops>>
      /\ \/ pc' = pc /\ execs' = execs - 1
         \/ pc' = "havoc failed" /\ execs' = execs
  BY DEF IInv, SkipHavoc, FailHavoc
<1>2. TypeOK'
  <2>1. pc' \in Phases \cup Ends
    BY <1>1 DEF Phases, Ends
  <2>2. execs \in Nat
    BY <1>1 DEF TypeOK
  <2>3. execs > 0 /\ (execs' = execs \/ execs' = execs - 1)
    BY <1>1
  <2>4. execs' \in Nat
    BY <2>2, <2>3
  <2> QED BY <1>1, <2>1, <2>4 DEF TypeOK, Ids
<1>3. pc' \in {"stage", "havoc failed"}
  BY <1>1
<1>4. AbortsOnlyOutside'
  BY <1>3 DEF AbortsOnlyOutside
<1> QED BY <1>1, <1>2, <1>3, <1>4
     DEF IInv, CountersOwed, FreshBoot, ZeroIsInitial, CurrentAlive,
         AddedIsChild, Fuzzing, Ids

LEMMA TimeoutInv ==
    ASSUME IInv, Timeout
    PROVE  IInv'
<1>1. /\ TypeOK
      /\ pc' = "killed"
      /\ UNCHANGED <<mode, corpus, nextId, current, initialId, seed, child,
                     mutatedPcs, covSeen, trkSeen, pending, added, loops, execs>>
  BY DEF IInv, Timeout
<1>2. TypeOK'
  BY <1>1 DEF TypeOK, Ids, Ends
<1> QED BY <1>1, <1>2
     DEF IInv, CountersOwed, FreshBoot, ZeroIsInitial, CurrentAlive,
         AddedIsChild, AbortsOnlyOutside, Fuzzing

LEMMA EndStageInv ==
    ASSUME IInv, EndStage
    PROVE  IInv'
<1>1. /\ TypeOK
      /\ pc = "stage"
      /\ loops >= 1
      /\ loops' = loops - 1
      /\ pc' = IF loops = 1 THEN "emit" ELSE "schedule"
      /\ seed' = {}
      /\ UNCHANGED <<mode, corpus, nextId, current, initialId, child, mutatedPcs,
                     covSeen, trkSeen, pending, added, execs>>
  BY DEF IInv, EndStage, CountersOwed, Fuzzing
<1>2. TypeOK'
  <2>1. pc' \in Phases \cup Ends /\ loops' \in Nat
    BY <1>1 DEF Phases, Ends, TypeOK
  <2> QED BY <1>1, <2>1 DEF TypeOK, Ids
<1>3. CountersOwed'
  BY <1>1 DEF CountersOwed, TypeOK, Fuzzing
<1> QED BY <1>1, <1>2, <1>3
     DEF IInv, FreshBoot, ZeroIsInitial, CurrentAlive,
         AddedIsChild, AbortsOnlyOutside, Fuzzing, Ids

-----------------------------------------------------------------------------
(* post_exec. *)

\* The entry's history can be recorded: the parent is still in the corpus.
LEMMA AddedParentReadable ==
    ASSUME IInv, pc = "evaluated", added # None
    PROVE  ParentReadable(added)
<1>1. /\ added \in Ids
      /\ current # added
      /\ corpus[added].parent = current
      /\ current \in Ids \cup {None}
  BY DEF IInv, AddedIsChild, CurrentAlive, Fuzzing
<1> QED BY <1>1 DEF ParentReadable

\* Recording a history changes nothing else.
LEMMA WithHistoryTypes ==
    ASSUME TypeOK, added \in Ids
    PROVE  /\ DOMAIN WithHistory = Ids
           /\ \A id \in Ids :
                /\ WithHistory[id] \in Testcases
                /\ WithHistory[id].passed = corpus[id].passed
                /\ WithHistory[id].input = corpus[id].input
                /\ WithHistory[id].parent = corpus[id].parent
                /\ WithHistory[id].cov = corpus[id].cov
                /\ WithHistory[id].trk = corpus[id].trk
                /\ WithHistory[id].ran = corpus[id].ran
                /\ id # added => WithHistory[id].history = corpus[id].history
           /\ WithHistory[added].history =
                IF Guided /\ mutatedPcs # {}
                THEN InheritedHistory(added) \cup mutatedPcs
                ELSE corpus[added].history
<1>1. InheritedHistory(added) \subseteq Candidates
  BY DEF InheritedHistory, TypeOK, Testcases
<1> DEFINE h == InheritedHistory(added) \cup mutatedPcs
<1>2. h \subseteq Candidates
  BY <1>1 DEF TypeOK
<1> HIDE DEF h
<1>3. \A id \in Ids : corpus[id] \in Testcases
  BY DEF TypeOK
<1>4. CASE ~(Guided /\ mutatedPcs # {})
  BY <1>3, <1>4 DEF WithHistory, Ids
<1>5. CASE Guided /\ mutatedPcs # {}
  <2>1. WithHistory = [corpus EXCEPT ![added].history = h]
    BY <1>5 DEF WithHistory, h
  <2>2. DOMAIN WithHistory = Ids
    BY <2>1 DEF Ids
  <2>3. ASSUME NEW id \in Ids
        PROVE  /\ WithHistory[id] \in Testcases
               /\ WithHistory[id].passed = corpus[id].passed
               /\ WithHistory[id].input = corpus[id].input
               /\ WithHistory[id].parent = corpus[id].parent
               /\ WithHistory[id].cov = corpus[id].cov
               /\ WithHistory[id].trk = corpus[id].trk
               /\ WithHistory[id].ran = corpus[id].ran
               /\ id # added => WithHistory[id].history = corpus[id].history
               /\ id = added => WithHistory[id].history = h
    <3>1. CASE id # added
      BY <1>3, <2>1, <3>1 DEF Ids
    <3>2. CASE id = added
      <4>1. WithHistory[id] = [corpus[id] EXCEPT !.history = h]
        BY <2>1, <3>2 DEF Ids
      <4>2. corpus[id] \in Testcases
        BY <1>3
      <4>3. [corpus[id] EXCEPT !.history = h] \in Testcases
        BY <1>2, <4>2 DEF Testcases
      <4>4. /\ WithHistory[id].passed = corpus[id].passed
            /\ WithHistory[id].input = corpus[id].input
            /\ WithHistory[id].parent = corpus[id].parent
            /\ WithHistory[id].cov = corpus[id].cov
            /\ WithHistory[id].trk = corpus[id].trk
            /\ WithHistory[id].ran = corpus[id].ran
            /\ WithHistory[id].history = h
        BY <4>1, <4>2 DEF Testcases
      <4> QED BY <3>2, <4>1, <4>3, <4>4
    <3> QED BY <3>1, <3>2
  <2> QED BY <1>5, <2>2, <2>3 DEF h
<1> QED BY <1>4, <1>5

LEMMA PostExecNothingInv ==
    ASSUME IInv, PostExecNothing
    PROVE  IInv'
<1>1. /\ TypeOK
      /\ pc = "evaluated"
      /\ pc' = "stage"
      /\ execs >= 1
      /\ execs' = execs - 1
      /\ child' = {}
      /\ added' = None
      /\ UNCHANGED <<mode, corpus, nextId, current, initialId, seed, mutatedPcs,
                     covSeen, trkSeen, pending, loops>>
  BY DEF IInv, PostExecNothing, ExecutionDone, CountersOwed
<1>2. TypeOK'
  BY <1>1 DEF TypeOK, Ids, Phases
<1> QED BY <1>1, <1>2
     DEF IInv, CountersOwed, FreshBoot, ZeroIsInitial, CurrentAlive,
         AddedIsChild, AbortsOnlyOutside, Fuzzing, Ids

LEMMA PostExecQueueInv ==
    ASSUME IInv, PostExecQueue
    PROVE  IInv'
<1>1. /\ TypeOK
      /\ pc = "evaluated"
      /\ added \in Ids
      /\ pc' = "stage"
      /\ execs >= 1
      /\ execs' = execs - 1
      /\ child' = {}
      /\ added' = None
      /\ corpus' = WithHistory
      /\ UNCHANGED <<mode, nextId, current, initialId, seed, mutatedPcs,
                     covSeen, trkSeen, pending, loops>>
  BY AddedParentReadable
     DEF IInv, PostExecQueue, ExecutionDone, CountersOwed, AddedIsChild
<1>2. /\ Ids' = Ids
      /\ \A id \in Ids : /\ corpus'[id] \in Testcases
                         /\ corpus'[id].passed = corpus[id].passed
                         /\ corpus'[id].input = corpus[id].input
                         /\ corpus'[id].parent = corpus[id].parent
  BY <1>1, WithHistoryTypes DEF Ids
<1>3. TypeOK'
  BY <1>1, <1>2 DEF TypeOK, Ids, Phases
<1> QED BY <1>1, <1>2, <1>3
     DEF IInv, CountersOwed, FreshBoot, ZeroIsInitial, CurrentAlive,
         AddedIsChild, AbortsOnlyOutside, Fuzzing

\* The eviction spares everything that is not a passing case besides the
\* initial one.
LEMMA KeptSparesOthers ==
    ASSUME NEW c
    PROVE  /\ Kept(c) \subseteq DOMAIN c
           /\ DOMAIN c \ PassedCases(c, First(c)) \subseteq Kept(c)
BY DEF Kept, PassedCases, Nearest

LEMMA PostExecWitInv ==
    ASSUME IInv, PostExecWit
    PROVE  IInv'
<1>1. /\ TypeOK
      /\ pc = "evaluated"
      /\ mode = "WitHW"
      /\ added \in Ids
      /\ execs >= 1
      /\ execs' = execs - 1
      /\ child' = {}
      /\ added' = None
      /\ UNCHANGED <<mode, nextId, initialId, seed, mutatedPcs, covSeen, trkSeen,
                     pending, loops>>
  BY DEF IInv, PostExecWit, ExecutionDone, CountersOwed, AddedIsChild
<1>2. ParentReadable(added)
  BY <1>1, AddedParentReadable DEF PostExecWit
<1>3. CASE RankingAborts(corpus, First(corpus))
  <2>1. pc' = "error" /\ UNCHANGED <<corpus, current>>
    BY <1>2, <1>3 DEF PostExecWit
  <2>2. TypeOK'
    BY <1>1, <2>1 DEF TypeOK, Ids, Ends
  <2>3. AbortsOnlyOutside'
    BY <1>1, <1>3, <2>1
       DEF AbortsOnlyOutside, RankingAborts, PassedCases, First
  <2> QED BY <2>1, <2>2, <2>3
       DEF IInv, CountersOwed, FreshBoot, ZeroIsInitial, CurrentAlive,
           AddedIsChild, Fuzzing
<1>4. CASE ~RankingAborts(corpus, First(corpus))
  <2> DEFINE kept == Kept(WithHistory)
  <2>1. /\ corpus' = [id \in kept |-> WithHistory[id]]
        /\ current' = IF current \in kept THEN current ELSE None
        /\ pc' = "stage"
    BY <1>2, <1>4 DEF PostExecWit, CurrentAfterEviction
  <2>2. /\ kept \subseteq Ids
        /\ Ids \ PassedCases(WithHistory, First(WithHistory)) \subseteq kept
    BY <1>1, WithHistoryTypes, KeptSparesOthers
  <2> HIDE DEF kept
  <2>3. 0 \in Ids /\ ~corpus[0].passed /\ current \in Ids \cup {None}
    BY <1>1 DEF IInv, ZeroIsInitial, CurrentAlive, Fuzzing
  <2>4. 0 \in kept
    BY <1>1, <2>2, <2>3, WithHistoryTypes DEF PassedCases
  <2>5. /\ Ids' = kept
        /\ \A id \in kept : /\ corpus'[id] \in Testcases
                            /\ corpus'[id].passed = corpus[id].passed
                            /\ corpus'[id].input = corpus[id].input
                            /\ corpus'[id].parent = corpus[id].parent
    BY <1>1, <2>1, <2>2, WithHistoryTypes DEF Ids
  <2>6. TypeOK'
    BY <1>1, <2>1, <2>2, <2>5 DEF TypeOK, Ids, Phases
  <2>7. ZeroIsInitial'
    BY <1>1, <2>1, <2>3, <2>4, <2>5 DEF IInv, ZeroIsInitial, Fuzzing
  <2>8. CurrentAlive'
    BY <2>1, <2>3, <2>5 DEF CurrentAlive
  <2> QED BY <1>1, <2>1, <2>6, <2>7, <2>8
       DEF IInv, CountersOwed, FreshBoot, AddedIsChild, AbortsOnlyOutside,
           Fuzzing
<1> QED BY <1>3, <1>4

-----------------------------------------------------------------------------
LEMMA StepInv == IInv /\ [Next]_vars => IInv'
<1> SUFFICES ASSUME IInv, [Next]_vars
             PROVE  IInv'
  OBVIOUS
<1>1. CASE \E out \in Outcomes :
             \/ \E built \in BOOLEAN : Boot(out, built)
             \/ Execute(out)
  BY <1>1, BootInv, ExecuteInv
<1>2. CASE \E n \in 1..MaxStageExecs :
             \/ ScheduleQueue(n)
             \/ \E id \in Ids : ScheduleWit(id, n)
  BY <1>2, ScheduleQueueInv, ScheduleWitInv
<1>3. CASE \E S \in SUBSET Candidates : MutateGuided(S) \/ MutateHavoc(S)
  BY <1>3, MutateInv
<1>4. CASE SkipHavoc \/ FailHavoc
  BY <1>4, HavocInv
<1>5. CASE Timeout
  BY <1>5, TimeoutInv
<1>6. CASE PostExecNothing
  BY <1>6, PostExecNothingInv
<1>7. CASE PostExecQueue
  BY <1>7, PostExecQueueInv
<1>8. CASE PostExecWit
  BY <1>8, PostExecWitInv
<1>9. CASE EndStage
  BY <1>9, EndStageInv
<1>10. CASE Finished \/ UNCHANGED vars
  BY <1>10 DEF Finished, vars, IInv, TypeOK, CountersOwed, FreshBoot,
               ZeroIsInitial, CurrentAlive, AddedIsChild, AbortsOnlyOutside,
               RankingAborts, PassedCases, First, Ids
<1> QED BY <1>1, <1>2, <1>3, <1>4, <1>5, <1>6, <1>7, <1>8, <1>9, <1>10
     DEF Next

\* The inductive invariant holds in every reachable state.
LEMMA Invariance == Spec => []IInv
<1>1. Init => IInv
  BY InitInv
<1>2. IInv /\ [Next]_vars => IInv'
  BY StepInv
<1> QED BY <1>1, <1>2, PTL DEF Spec

\* Type correctness: corpus entries always carry all their metadata, and no
\* loop counter underflows.
THEOREM TypeCorrect == Spec => []TypeOK
<1>1. IInv => TypeOK
  BY DEF IInv
<1> QED BY <1>1, Invariance, PTL

\* No campaign, in any mode, dies of a missing test case, a missing parent, a
\* missing metadata or a self-borrow.
THEOREM NoOwnAbort == Spec => []AbortsOnlyOutside
<1>1. IInv => AbortsOnlyOutside
  BY DEF IInv
<1> QED BY <1>1, Invariance, PTL

\* The unmodified failing case stays the corpus' first entry and the
\* scheduler's reference for the whole campaign.
THEOREM InitialCaseStays == Spec => []InitialCaseAnchored
<1>1. ASSUME IInv PROVE InitialCaseAnchored
  <2>1. CASE pc \in Fuzzing
    <3>1. 0 \in Ids /\ Ids \subseteq Nat
      BY <1>1, <2>1 DEF IInv, ZeroIsInitial, TypeOK, Ids
    <3>2. First(corpus) = 0
      BY <3>1, FirstIsZero DEF Ids
    <3> QED BY <1>1, <2>1, <3>1, <3>2
         DEF IInv, ZeroIsInitial, InitialCaseAnchored
  <2>2. CASE pc \notin Fuzzing
    BY <2>2 DEF InitialCaseAnchored
  <2> QED BY <2>1, <2>2
<1> QED BY <1>1, Invariance, PTL

-----------------------------------------------------------------------------
(* What the corpus remembers: the second inductive invariant. *)

\* The initial case is in the corpus as soon as anything is.
InitialStays == Ids # {} => 0 \in Ids

\* Both fingerprints of every entry were recorded as seen.
SeenRecorded ==
    \A id \in Ids : corpus[id].cov \in covSeen /\ corpus[id].trk \in trkSeen

\* A parent is an older entry, still there or not.
ParentsOlder ==
    \A id \in Ids : corpus[id].parent # None => corpus[id].parent < id

\* What is true of the entries, whatever the driver is doing.
CorpusInv ==
    /\ InitialStays
    /\ SeenRecorded
    /\ ParentsOlder
    /\ MetadataOfOwnRun
    /\ FingerprintsDistinct
    /\ HistorySound
    /\ ParentIsAncestor

\* The stage's clone is the input of the current entry, for as long as that
\* entry is in the corpus.
SeedOfCurrent ==
    (pc \in {"stage", "run", "evaluated"} /\ current \in Ids) =>
        seed = corpus[current].input

\* The mutated input is the clone with the recorded overwrites, of which the
\* ticket mutator always makes one.
ChildOfSeed ==
    pc \in {"run", "evaluated"} =>
        /\ seed \subseteq child
        /\ Guided => child = seed \cup mutatedPcs
        /\ mode = "PSBFL" => mutatedPcs # {}

\* The entry post_exec is told about holds the mutated input and no history.
AddedIsMutant ==
    (pc = "evaluated" /\ added # None) => corpus[added].input = child

\* Without eviction the scheduled entry stays, and outside of post_exec only
\* the initial case is without a history.
QueueUnbroken ==
    mode = "PSBFL" =>
        /\ pc \in {"stage", "run", "evaluated"} => current \in Ids
        /\ pc \in {"schedule", "stage", "run"} => added \in {None, 0}
        /\ \A id \in Ids \ {0, added} : /\ corpus[id].history # None
                                        /\ corpus[id].input \subseteq corpus[id].history

HInv ==
    /\ CorpusInv
    /\ SeedOfCurrent
    /\ ChildOfSeed
    /\ AddedIsMutant
    /\ QueueUnbroken

\* Ids are numbers below the next one.
LEMMA IdsOlder ==
    ASSUME TypeOK
    PROVE  nextId \in Nat /\ \A id \in Ids : id \in Nat /\ id < nextId
<1>1. nextId \in Nat /\ Ids \subseteq 0..(nextId - 1)
  BY DEF TypeOK, Ids
<1> QED BY <1>1

\* An evaluated input that extends the current entry's input leaves the
\* corpus in order, whether it is added or not.
LEMMA EvaluateCorpus ==
    ASSUME TypeOK, CorpusInv, NEW input \in SUBSET Candidates,
           NEW out \in Outcomes, NEW after, Evaluate(input, out, after),
           current \in Ids \cup {None}, Ids # {} \/ nextId = 0,
           current \in Ids => corpus[current].input \subseteq input
    PROVE  CorpusInv'
<1>1. /\ covSeen' = covSeen \cup {out.cov}
      /\ trkSeen' = trkSeen \cup {out.trk}
  BY EvaluateAddsOrNot
<1>2. CASE ~Interesting(out)
  <2>1. corpus' = corpus
    BY <1>2, EvaluateAddsOrNot
  <2> QED BY <1>1, <2>1
       DEF CorpusInv, InitialStays, SeenRecorded, ParentsOlder, MetadataOfOwnRun,
           FingerprintsDistinct, HistorySound, ParentIsAncestor, Ids
<1>3. CASE Interesting(out)
  <2> DEFINE t == [input |-> input, passed |-> out.passed,
                   cov |-> out.cov, trk |-> out.trk,
                   parent |-> current, history |-> None, ran |-> out]
  <2>1. corpus' = [id \in Ids \cup {nextId} |-> IF id = nextId THEN t ELSE corpus[id]]
    BY <1>3, EvaluateAddsOrNot
  <2>2. /\ t.input = input /\ t.passed = out.passed /\ t.cov = out.cov
        /\ t.trk = out.trk /\ t.parent = current /\ t.history = None /\ t.ran = out
    OBVIOUS
  <2> HIDE DEF t
  <2>3. /\ nextId \notin Ids
        /\ nextId \in Nat
        /\ \A id \in Ids : id \in Nat /\ id < nextId
    BY IdsOlder
  <2>4. /\ Ids' = Ids \cup {nextId}
        /\ corpus'[nextId] = t
        /\ \A id \in Ids : corpus'[id] = corpus[id]
    BY <2>1, <2>3 DEF Ids
  <2>5. InitialStays'
    BY <2>4 DEF CorpusInv, InitialStays
  <2>6. SeenRecorded'
    BY <1>1, <2>2, <2>4 DEF CorpusInv, SeenRecorded
  <2>7. ParentsOlder'
    BY <2>2, <2>3, <2>4 DEF CorpusInv, ParentsOlder
  <2>8. MetadataOfOwnRun'
    <3>1. out = [passed |-> out.passed, cov |-> out.cov, trk |-> out.trk]
      BY DEF Outcomes
    <3> QED BY <2>2, <2>4, <3>1 DEF CorpusInv, MetadataOfOwnRun
  <2>9. FingerprintsDistinct'
    <3>1. out.cov \notin covSeen \/ out.trk \notin trkSeen
      BY <1>3 DEF Interesting, CoverageIsNew, TraceIsNew
    <3>2. \A id \in Ids : corpus[id].cov \in covSeen /\ corpus[id].trk \in trkSeen
      BY DEF CorpusInv, SeenRecorded
    <3> QED BY <2>2, <2>4, <3>1, <3>2 DEF CorpusInv, FingerprintsDistinct
  <2>10. HistorySound'
    BY <2>2, <2>4 DEF CorpusInv, HistorySound
  <2>11. ParentIsAncestor'
    <3>1. ASSUME NEW id \in Ids, corpus[id].parent \in Ids'
          PROVE  corpus[id].parent \in Ids
      <4>1. corpus[id].parent # None
        BY <2>3, <2>4, <3>1, NoneAssumption
      <4>2. corpus[id].parent < id /\ id < nextId /\ id \in Nat /\ nextId \in Nat
        BY <2>3, <4>1 DEF CorpusInv, ParentsOlder
      <4> QED BY <2>3, <2>4, <3>1, <4>2
    <3>2. current \in Ids' => current \in Ids
      BY <2>3, <2>4, NoneAssumption
    <3> QED BY <2>2, <2>3, <2>4, <3>1, <3>2 DEF CorpusInv, ParentIsAncestor
  <2> QED BY <2>5, <2>6, <2>7, <2>8, <2>9, <2>10, <2>11 DEF CorpusInv
<1> QED BY <1>2, <1>3

\* Steps that leave the corpus and the feedbacks alone.
LEMMA CorpusUnchanged ==
    ASSUME CorpusInv, UNCHANGED <<corpus, covSeen, trkSeen>>
    PROVE  CorpusInv'
BY DEF CorpusInv, InitialStays, SeenRecorded, ParentsOlder, MetadataOfOwnRun,
       FingerprintsDistinct, HistorySound, ParentIsAncestor, Ids

\* The recorded history names overwritten instructions only.
LEMMA RecordedHistory ==
    ASSUME IInv, HInv, pc = "evaluated", added \in Ids
    PROVE  WithHistory[added].history # None =>
             WithHistory[added].history \subseteq corpus[added].input
<1>1. /\ TypeOK
      /\ added # None
      /\ corpus[added].parent = current
      /\ corpus[added].input = child
      /\ seed \subseteq child
      /\ Guided => child = seed \cup mutatedPcs
      /\ current \in Ids => seed = corpus[current].input
  <2>1. added # None
    BY IdsOlder, NoneAssumption DEF IInv
  <2> QED BY <2>1 DEF IInv, HInv, AddedIsChild, AddedIsMutant, ChildOfSeed, SeedOfCurrent
<1>2. InheritedHistory(added) \subseteq seed
  BY <1>1 DEF InheritedHistory, HInv, CorpusInv, HistorySound
<1>3. CASE Guided /\ mutatedPcs # {}
  BY <1>1, <1>2, <1>3, WithHistoryTypes
<1>4. CASE ~(Guided /\ mutatedPcs # {})
  BY <1>1, <1>4, WithHistoryTypes DEF HInv, CorpusInv, HistorySound
<1> QED BY <1>3, <1>4

\* post_exec records the history of the added entry and drops others.
LEMMA PostExecCorpus ==
    ASSUME IInv, HInv, pc = "evaluated", added \in Ids,
           NEW kept \in SUBSET Ids, 0 \in kept,
           Ids' = kept, \A id \in kept : corpus'[id] = WithHistory[id],
           UNCHANGED <<covSeen, trkSeen>>
    PROVE  CorpusInv'
<1>1. /\ Ids' = kept
      /\ \A id \in kept : corpus'[id] = WithHistory[id]
  OBVIOUS
<1>2. \A id \in Ids : /\ WithHistory[id].passed = corpus[id].passed
                      /\ WithHistory[id].input = corpus[id].input
                      /\ WithHistory[id].parent = corpus[id].parent
                      /\ WithHistory[id].cov = corpus[id].cov
                      /\ WithHistory[id].trk = corpus[id].trk
                      /\ WithHistory[id].ran = corpus[id].ran
                      /\ id # added => WithHistory[id].history = corpus[id].history
  BY WithHistoryTypes DEF IInv
<1>3. InitialStays' /\ SeenRecorded' /\ ParentsOlder'
  BY <1>1, <1>2 DEF HInv, CorpusInv, InitialStays, SeenRecorded, ParentsOlder
<1>4. MetadataOfOwnRun' /\ FingerprintsDistinct'
  BY <1>1, <1>2 DEF HInv, CorpusInv, MetadataOfOwnRun, FingerprintsDistinct
<1>5. HistorySound'
  <2>1. ASSUME NEW id \in kept, WithHistory[id].history # None
        PROVE  WithHistory[id].history \subseteq WithHistory[id].input
    <3>1. CASE id = added
      BY <1>2, <2>1, <3>1, RecordedHistory
    <3>2. CASE id # added
      BY <1>2, <2>1, <3>2 DEF HInv, CorpusInv, HistorySound
    <3> QED BY <3>1, <3>2
  <2> QED BY <1>1, <2>1 DEF HistorySound
<1>6. ParentIsAncestor'
  BY <1>1, <1>2 DEF HInv, CorpusInv, ParentIsAncestor
<1> QED BY <1>3, <1>4, <1>5, <1>6 DEF CorpusInv

LEMMA InitHInv == Init => HInv
<1> SUFFICES ASSUME Init PROVE HInv
  OBVIOUS
<1>1. Ids = {}
  BY DEF Init, Ids
<1> QED BY <1>1
     DEF Init, HInv, CorpusInv, InitialStays, SeenRecorded, ParentsOlder,
         MetadataOfOwnRun, FingerprintsDistinct, HistorySound, ParentIsAncestor,
         SeedOfCurrent, ChildOfSeed, AddedIsMutant, QueueUnbroken

LEMMA BootHInv ==
    ASSUME IInv, HInv, NEW out \in Outcomes, NEW built \in BOOLEAN, Boot(out, built)
    PROVE  HInv'
<1>1. PICK after \in {"rejected", "schedule"} : Evaluate({}, out, after)
  BY DEF Boot
<1>2. /\ TypeOK
      /\ Ids = {} /\ nextId = 0 /\ current = None /\ covSeen = {}
      /\ UNCHANGED <<mode, current>>
  BY DEF Boot, IInv, FreshBoot
<1>3. CorpusInv'
  BY <1>1, <1>2, EvaluateCorpus DEF HInv
<1>4. pc' = after
  BY <1>1, <1>2, EvaluateAddsOrNot
<1>5. Interesting(out)
  BY <1>2 DEF Interesting, CoverageIsNew
<1>6. added' = 0 /\ Ids' = {0}
  <2>1. /\ corpus' = [id \in Ids \cup {nextId} |->
                        IF id = nextId
                        THEN [input |-> {}, passed |-> out.passed,
                              cov |-> out.cov, trk |-> out.trk,
                              parent |-> current, history |-> None,
                              ran |-> out]
                        ELSE corpus[id]]
        /\ added' = nextId
    BY <1>1, <1>2, <1>5, EvaluateAddsOrNot
  <2> QED BY <1>2, <2>1 DEF Ids
<1> QED BY <1>1, <1>3, <1>4, <1>6
     DEF HInv, SeedOfCurrent, ChildOfSeed, AddedIsMutant, QueueUnbroken

LEMMA ExecuteHInv ==
    ASSUME IInv, HInv, NEW out \in Outcomes, Execute(out)
    PROVE  HInv'
<1>1. /\ TypeOK
      /\ pc = "run"
      /\ child \in SUBSET Candidates
      /\ Evaluate(child, out, "evaluated")
      /\ UNCHANGED <<mode, current, seed, child, mutatedPcs>>
      /\ pc' = "evaluated"
  BY EvaluateAddsOrNot DEF Execute, IInv, TypeOK
<1>2. /\ current \in Ids \cup {None}
      /\ Ids # {}
      /\ current \in Ids => seed = corpus[current].input
      /\ seed \subseteq child
      /\ Guided => child = seed \cup mutatedPcs
      /\ mode = "PSBFL" => /\ mutatedPcs # {}
                           /\ current \in Ids
                           /\ added \in {None, 0}
  BY <1>1 DEF IInv, HInv, ZeroIsInitial, CurrentAlive, SeedOfCurrent, ChildOfSeed,
              QueueUnbroken, Fuzzing
<1>3. CorpusInv'
  BY <1>1, <1>2, EvaluateCorpus DEF HInv
<1>4. /\ Ids \subseteq Ids'
      /\ \A id \in Ids : corpus'[id] = corpus[id]
      /\ Ids' \subseteq Ids \cup {added'}
      /\ added' # None => corpus'[added'].input = child
  <2>1. nextId \notin Ids
    BY <1>1, IdsOlder
  <2>2. CASE Interesting(out)
    <3>1. /\ corpus' = [id \in Ids \cup {nextId} |->
                          IF id = nextId
                          THEN [input |-> child, passed |-> out.passed,
                                cov |-> out.cov, trk |-> out.trk,
                                parent |-> current, history |-> None,
                                ran |-> out]
                          ELSE corpus[id]]
          /\ added' = nextId
      BY <1>1, <2>2, EvaluateAddsOrNot
    <3> QED BY <2>1, <3>1 DEF Ids
  <2>3. CASE ~Interesting(out)
    <3>1. added' = None /\ corpus' = corpus
      BY <1>1, <2>3, EvaluateAddsOrNot
    <3> QED BY <3>1 DEF Ids
  <2> QED BY <2>2, <2>3
<1>5. current' \in Ids' => current \in Ids
  <2>1. TypeOK'
    BY ExecuteInv DEF IInv
  <2>2. None \notin Ids'
    BY <2>1, NoneAssumption DEF TypeOK, Ids
  <2> QED BY <1>1, <1>2, <2>2
<1>6. SeedOfCurrent'
  BY <1>1, <1>2, <1>4, <1>5 DEF SeedOfCurrent
<1>7. ChildOfSeed'
  BY <1>1, <1>2 DEF ChildOfSeed, Guided
<1>8. AddedIsMutant'
  BY <1>1, <1>4 DEF AddedIsMutant
<1>9. QueueUnbroken'
  <2>1. mode = "PSBFL" => \A id \in Ids \ {0, added} :
                            /\ corpus[id].history # None
                            /\ corpus[id].input \subseteq corpus[id].history
    BY DEF HInv, QueueUnbroken
  <2>2. None \notin Ids
    BY <1>1, NoneAssumption, IdsOlder
  <2> QED BY <1>1, <1>2, <1>4, <2>1, <2>2 DEF QueueUnbroken
<1> QED BY <1>3, <1>6, <1>7, <1>8, <1>9 DEF HInv

LEMMA ScheduleHInv ==
    ASSUME IInv, HInv, NEW n \in 1..MaxStageExecs,
           \/ ScheduleQueue(n)
           \/ \E id \in Ids : ScheduleWit(id, n)
    PROVE  HInv'
<1>1. /\ pc = "schedule"
      /\ UNCHANGED <<mode, corpus, covSeen, trkSeen, child, mutatedPcs, added>>
  BY DEF ScheduleQueue, ScheduleWit, EnterStage
<1>2. CorpusInv'
  BY <1>1, CorpusUnchanged DEF HInv
<1>3. \/ pc' = "error"
      \/ pc' = "stage" /\ current' \in Ids /\ seed' = corpus[current'].input
  BY DEF ScheduleQueue, ScheduleWit, EnterStage
<1> QED BY <1>1, <1>2, <1>3
     DEF HInv, SeedOfCurrent, ChildOfSeed, AddedIsMutant, QueueUnbroken, Ids

LEMMA MutateHInv ==
    ASSUME IInv, HInv, NEW S \in SUBSET Candidates,
           MutateGuided(S) \/ MutateHavoc(S)
    PROVE  HInv'
<1>1. /\ pc = "stage"
      /\ pc' = "run"
      /\ child' = seed \cup S
      /\ Guided => mutatedPcs' = S
      /\ mode = "PSBFL" => S # {}
      /\ UNCHANGED <<mode, corpus, current, seed, covSeen, trkSeen, added>>
  BY DEF MutateGuided, MutateHavoc, Overwritten, TicketTargets, Guided
<1>2. CorpusInv'
  BY <1>1, CorpusUnchanged DEF HInv
<1>3. SeedOfCurrent' /\ AddedIsMutant' /\ QueueUnbroken'
  BY <1>1 DEF HInv, SeedOfCurrent, AddedIsMutant, QueueUnbroken, Ids
<1>4. ChildOfSeed'
  BY <1>1 DEF ChildOfSeed, Guided
<1> QED BY <1>2, <1>3, <1>4 DEF HInv

\* Steps that touch neither an entry nor the mutation under way.
LEMMA QuietHInv ==
    ASSUME IInv, HInv,
           SkipHavoc \/ FailHavoc \/ Timeout \/ EndStage \/ Finished \/ UNCHANGED vars
    PROVE  HInv'
<1>1. /\ UNCHANGED <<mode, corpus, current, child, mutatedPcs, covSeen, trkSeen, added>>
      /\ \/ pc' = pc /\ seed' = seed
         \/ pc' \in {"error", "havoc failed", "killed"}
         \/ pc = "stage" /\ pc' \in {"schedule", "emit"}
  BY DEF SkipHavoc, FailHavoc, Timeout, EndStage, Finished, vars
<1>2. CorpusInv'
  BY <1>1, CorpusUnchanged DEF HInv
<1> QED BY <1>1, <1>2
     DEF HInv, SeedOfCurrent, ChildOfSeed, AddedIsMutant, QueueUnbroken, Ids, Guided

LEMMA PostExecNothingHInv ==
    ASSUME IInv, HInv, PostExecNothing
    PROVE  HInv'
<1>1. /\ pc = "evaluated"
      /\ pc' = "stage"
      /\ added = None
      /\ added' = None
      /\ UNCHANGED <<mode, corpus, current, seed, covSeen, trkSeen>>
  BY DEF PostExecNothing, ExecutionDone
<1>2. CorpusInv'
  BY <1>1, CorpusUnchanged DEF HInv
<1> QED BY <1>1, <1>2
     DEF HInv, SeedOfCurrent, ChildOfSeed, AddedIsMutant, QueueUnbroken, Ids

LEMMA PostExecQueueHInv ==
    ASSUME IInv, HInv, PostExecQueue
    PROVE  HInv'
<1>1. /\ TypeOK
      /\ pc = "evaluated"
      /\ added \in Ids
      /\ added # None
      /\ current # added
      /\ corpus[added].parent = current
      /\ corpus[added].input = child
      /\ 0 \in Ids
      /\ corpus[0].input = {}
      /\ pc' \in {"error", "stage"}
      /\ added' = None
      /\ corpus' = WithHistory
      /\ UNCHANGED <<mode, current, seed, mutatedPcs, covSeen, trkSeen>>
  BY DEF IInv, HInv, AddedIsChild, AddedIsMutant, ZeroIsInitial, Fuzzing,
         PostExecQueue, ExecutionDone
<1>2. /\ DOMAIN WithHistory = Ids
      /\ \A id \in Ids : /\ WithHistory[id].input = corpus[id].input
                         /\ id # added => WithHistory[id].history = corpus[id].history
      /\ WithHistory[added].history =
           IF Guided /\ mutatedPcs # {}
           THEN InheritedHistory(added) \cup mutatedPcs
           ELSE corpus[added].history
  BY <1>1, WithHistoryTypes
<1>3. Ids' = Ids
  BY <1>1, <1>2 DEF Ids
<1>4. CorpusInv'
  BY <1>1, <1>3, PostExecCorpus
<1>5. SeedOfCurrent' /\ ChildOfSeed' /\ AddedIsMutant'
  BY <1>1, <1>2, <1>3 DEF HInv, SeedOfCurrent, ChildOfSeed, AddedIsMutant
<1>6. ASSUME mode = "PSBFL"
      PROVE  /\ current \in Ids
             /\ \A id \in Ids \ {0} : /\ WithHistory[id].history # None
                                      /\ corpus[id].input \subseteq WithHistory[id].history
  <2>1. /\ current \in Ids
        /\ Guided
        /\ mutatedPcs # {}
        /\ child = seed \cup mutatedPcs
        /\ seed = corpus[current].input
        /\ \A id \in Ids \ {0, added} : /\ corpus[id].history # None
                                        /\ corpus[id].input \subseteq corpus[id].history
    BY <1>1, <1>6 DEF HInv, SeedOfCurrent, ChildOfSeed, QueueUnbroken, Guided
  <2>2. WithHistory[added].history = InheritedHistory(added) \cup mutatedPcs
    BY <1>2, <2>1
  <2>3. seed \subseteq InheritedHistory(added)
    <3>1. CASE current = 0
      BY <1>1, <2>1, <3>1
    <3>2. CASE current # 0
      BY <1>1, <2>1, <3>2 DEF InheritedHistory
    <3> QED BY <3>1, <3>2
  <2>4. InheritedHistory(added) \cup mutatedPcs # None
    <3>1. InheritedHistory(added) \subseteq Candidates /\ mutatedPcs \subseteq Candidates
      BY <1>1 DEF InheritedHistory, TypeOK, Testcases
    <3> QED BY <3>1, NoneAssumption
  <2> QED BY <1>1, <1>2, <2>1, <2>2, <2>3, <2>4
<1>7. QueueUnbroken'
  BY <1>1, <1>2, <1>3, <1>6 DEF QueueUnbroken
<1> QED BY <1>4, <1>5, <1>7 DEF HInv

-----------------------------------------------------------------------------
(* WitHW's eviction. *)

\* What post_exec of WitHW does: nothing to the corpus, or the history is
\* recorded and the entries of Kept stay, the initial case among them.
LEMMA WitEffect ==
    ASSUME IInv, PostExecWit
    PROVE  /\ added \in Ids
           /\ pc = "evaluated"
           /\ mode = "WitHW"
           /\ added' = None
           /\ UNCHANGED <<mode, initialId, seed, mutatedPcs, covSeen, trkSeen>>
           /\ First(WithHistory) = 0
           /\ \/ pc' = "error" /\ UNCHANGED <<corpus, current>>
              \/ /\ pc' = "stage"
                 /\ Ids' = Kept(WithHistory)
                 /\ Ids' \subseteq Ids
                 /\ 0 \in Ids'
                 /\ \A id \in Ids' : corpus'[id] = WithHistory[id]
                 /\ current' = IF current \in Ids' THEN current ELSE None
<1>1. /\ TypeOK
      /\ pc = "evaluated"
      /\ mode = "WitHW"
      /\ added \in Ids
      /\ added' = None
      /\ UNCHANGED <<mode, initialId, seed, mutatedPcs, covSeen, trkSeen>>
      /\ 0 \in Ids
      /\ ~corpus[0].passed
  BY DEF IInv, PostExecWit, ExecutionDone, AddedIsChild, ZeroIsInitial, Fuzzing
<1>2. First(WithHistory) = 0
  BY <1>1, WithHistoryTypes, FirstIsZero, IdsOlder
<1>3. CASE ~(ParentReadable(added) /\ ~RankingAborts(corpus, First(corpus)))
  BY <1>1, <1>2, <1>3 DEF PostExecWit
<1>4. CASE ParentReadable(added) /\ ~RankingAborts(corpus, First(corpus))
  <2> DEFINE kept == Kept(WithHistory)
  <2>1. /\ corpus' = [id \in kept |-> WithHistory[id]]
        /\ current' = IF current \in kept THEN current ELSE None
        /\ pc' = "stage"
    BY <1>4 DEF PostExecWit, CurrentAfterEviction
  <2>2. /\ kept \subseteq Ids
        /\ Ids \ PassedCases(WithHistory, 0) \subseteq kept
    BY <1>1, <1>2, WithHistoryTypes, KeptSparesOthers
  <2> HIDE DEF kept
  <2>3. 0 \in kept
    BY <1>1, <2>2 DEF PassedCases
  <2>4. Ids' = kept /\ \A id \in kept : corpus'[id] = WithHistory[id]
    BY <2>1 DEF Ids
  <2> QED BY <1>1, <1>2, <2>1, <2>2, <2>3, <2>4 DEF kept
<1> QED BY <1>3, <1>4

LEMMA PostExecWitHInv ==
    ASSUME IInv, HInv, PostExecWit
    PROVE  HInv'
<1>1. CASE pc' = "error" /\ UNCHANGED <<corpus, current>>
  <2>1. CorpusInv'
    BY <1>1, WitEffect, CorpusUnchanged DEF HInv
  <2> QED BY <1>1, <2>1, WitEffect
       DEF HInv, SeedOfCurrent, ChildOfSeed, AddedIsMutant, QueueUnbroken
<1>2. CASE pc' # "error"
  <2>1. /\ pc' = "stage"
        /\ Ids' \subseteq Ids
        /\ 0 \in Ids'
        /\ \A id \in Ids' : corpus'[id] = WithHistory[id]
        /\ current' = IF current \in Ids' THEN current ELSE None
        /\ added \in Ids
        /\ pc = "evaluated"
        /\ UNCHANGED <<covSeen, trkSeen, seed>>
        /\ mode' = "WitHW"
    BY <1>2, WitEffect
  <2>2. CorpusInv'
    BY <2>1, PostExecCorpus
  <2>3. current' \in Ids' => current' = current
    <3>1. None \notin Ids
      BY IdsOlder, NoneAssumption DEF IInv
    <3> QED BY <2>1, <3>1
  <2>4. SeedOfCurrent'
    <3>1. ASSUME NEW id \in Ids PROVE WithHistory[id].input = corpus[id].input
      BY <2>1, WithHistoryTypes DEF IInv
    <3> QED BY <2>1, <2>3, <3>1 DEF HInv, SeedOfCurrent
  <2> QED BY <2>1, <2>2, <2>4 DEF HInv, ChildOfSeed, AddedIsMutant, QueueUnbroken
<1> QED BY <1>1, <1>2, WitEffect

LEMMA StepHInv == (IInv /\ HInv /\ [Next]_vars) => HInv'
<1> SUFFICES ASSUME IInv, HInv, [Next]_vars
             PROVE  HInv'
  OBVIOUS
<1>1. CASE \E out \in Outcomes :
             \/ \E built \in BOOLEAN : Boot(out, built)
             \/ Execute(out)
  BY <1>1, BootHInv, ExecuteHInv
<1>2. CASE \E n \in 1..MaxStageExecs :
             \/ ScheduleQueue(n)
             \/ \E id \in Ids : ScheduleWit(id, n)
  BY <1>2, ScheduleHInv
<1>3. CASE \E S \in SUBSET Candidates : MutateGuided(S) \/ MutateHavoc(S)
  BY <1>3, MutateHInv
<1>4. CASE SkipHavoc \/ FailHavoc \/ Timeout \/ EndStage \/ Finished \/ UNCHANGED vars
  BY <1>4, QuietHInv
<1>5. CASE PostExecNothing
  BY <1>5, PostExecNothingHInv
<1>6. CASE PostExecQueue
  BY <1>6, PostExecQueueHInv
<1>7. CASE PostExecWit
  BY <1>7, PostExecWitHInv
<1> QED BY <1>1, <1>2, <1>3, <1>4, <1>5, <1>6, <1>7 DEF Next

\* The second inductive invariant holds in every reachable state.
LEMMA Remembrance == Spec => []HInv
<1>1. Init => IInv /\ HInv
  BY InitInv, InitHInv
<1>2. IInv /\ HInv /\ [Next]_vars => IInv' /\ HInv'
  BY StepInv, StepHInv
<1> QED BY <1>1, <1>2, PTL DEF Spec

\* Every entry carries the verdict, the coverage and the trace of its own
\* run: no feedback leaves an earlier run's metadata pending for it.
THEOREM MetadataBelongs == Spec => []MetadataOfOwnRun
<1>1. HInv => MetadataOfOwnRun
  BY DEF HInv, CorpusInv
<1> QED BY <1>1, Remembrance, PTL

\* No two entries agree on coverage and trace, because both hashes of every
\* run are recorded, whether the run is added or not.
THEOREM NoTwins == Spec => []FingerprintsDistinct
<1>1. HInv => FingerprintsDistinct
  BY DEF HInv, CorpusInv
<1> QED BY <1>1, Remembrance, PTL

\* A history names only instructions its input had overwritten, for any
\* number of generations and with the parent's record evicted or not.
THEOREM HistoriesSound == Spec => []HistorySound
<1>1. HInv => HistorySound
  BY DEF HInv, CorpusInv
<1> QED BY <1>1, Remembrance, PTL

\* The recorded parent is an ancestor of the input, although an eviction may
\* have cleared corpus.current() in the middle of a stage.
THEOREM ParentsAreAncestors == Spec => []ParentIsAncestor
<1>1. HInv => ParentIsAncestor
  BY DEF HInv, CorpusInv
<1> QED BY <1>1, Remembrance, PTL

\* In PSBFL mode a history is complete: every overwritten instruction of a
\* processed entry is in it, over any number of generations.
THEOREM HistoriesComplete == Spec => []HistoryUnbroken
<1>1. IInv /\ HInv => HistoryUnbroken
  <2> SUFFICES ASSUME IInv, HInv, mode = "PSBFL", Ids # {} PROVE HistoryUnbroken
    BY DEF HistoryUnbroken
  <2>1. 0 \in Ids
    BY DEF HInv, CorpusInv, InitialStays
  <2>2. First(corpus) = 0
    BY <2>1, FirstIsZero, IdsOlder DEF IInv, Ids
  <2> QED BY <2>2 DEF HInv, QueueUnbroken, HistoryUnbroken
<1> QED BY <1>1, Invariance, Remembrance, PTL

-----------------------------------------------------------------------------
(* The limit of the pool, and what the eviction may drop. *)

\* A corpus as the ranking meets it.
RankedCorpus(c) ==
    /\ DOMAIN c \subseteq Nat
    /\ IsFiniteSet(DOMAIN c)
    /\ 0 \in DOMAIN c
    /\ \A id \in DOMAIN c : c[id].cov \in Covs /\ c[id].trk \in Trks

\* The ranking gives every passing case a distance.
LEMMA RankedDistanceType ==
    ASSUME NEW c, RankedCorpus(c)
    PROVE  /\ PassedCases(c, 0) \in SUBSET Nat
           /\ IsFiniteSet(PassedCases(c, 0))
           /\ First(c) = 0
           /\ RankedDistance(c) \in [PassedCases(c, 0) -> Nat]
<1> DEFINE S == PassedCases(c, 0)
           rawCover == [id \in S |-> CovDist[c[0].cov, c[id].cov]]
           rawState == [id \in S |-> TrkDist[c[0].trk, c[id].trk]]
<1>1. S \in SUBSET DOMAIN c /\ S \in SUBSET Nat
  BY DEF PassedCases, RankedCorpus
<1>2. IsFiniteSet(S)
  BY <1>1, FS_Subset DEF RankedCorpus
<1>3. First(c) = 0
  BY FirstIsZero DEF RankedCorpus
<1>4. rawCover \in [S -> Nat] /\ rawState \in [S -> Nat]
  BY <1>1, DistanceAssumption DEF RankedCorpus
<1>5. RankedDistance(c) = [id \in S |-> CombinedDistance(QuantileRank(rawCover, S, id),
                                                         QuantileRank(rawState, S, id),
                                                         CoverWeight, WeightScale)]
  BY <1>3 DEF RankedDistance
<1>6. ASSUME NEW id \in S
      PROVE  CombinedDistance(QuantileRank(rawCover, S, id),
                              QuantileRank(rawState, S, id),
                              CoverWeight, WeightScale) \in Nat
  <2> HIDE DEF S, rawCover, rawState
  <2> QED BY <1>2, <1>4, QuantileRankType, CombinedType, WeightAssumption
<1> HIDE DEF S, rawCover, rawState
<1>7. RankedDistance(c) \in [S -> Nat]
  BY <1>5, <1>6
<1> QED BY <1>1, <1>2, <1>3, <1>7 DEF S

\* A case that dominates another one is ranked before it, whatever the cover
\* weight and the rest of the pool.
LEMMA DominatingPrecedes ==
    ASSUME NEW c, RankedCorpus(c), NEW a \in PassedCases(c, 0),
           NEW b \in PassedCases(c, 0), Dominates(c, a, b)
    PROVE  Precedes(RankedDistance(c), a, b)
<1> DEFINE S == PassedCases(c, 0)
           rawCover == [id \in S |-> CovDist[c[0].cov, c[id].cov]]
           rawState == [id \in S |-> TrkDist[c[0].trk, c[id].trk]]
           cover(id) == QuantileRank(rawCover, S, id)
           state(id) == QuantileRank(rawState, S, id)
<1>1. First(c) = 0 /\ IsFiniteSet(S)
  BY RankedDistanceType
<1>2. rawCover \in [S -> Nat] /\ rawState \in [S -> Nat]
  BY DistanceAssumption DEF RankedCorpus, PassedCases
<1>3. /\ rawCover[a] <= rawCover[b]
      /\ rawState[a] <= rawState[b]
      /\ a < b \/ (rawCover[a] < rawCover[b] /\ rawState[a] < rawState[b])
  BY <1>1 DEF Dominates, CoverFrom, StateFrom
<1>4. \A id \in S : RankedDistance(c)[id]
                      = CombinedDistance(cover(id), state(id), CoverWeight, WeightScale)
  BY <1>1 DEF RankedDistance
<1> HIDE DEF S, rawCover, rawState
<1>5. a \in S /\ b \in S
  BY DEF S
<1>6. /\ cover(a) \in Nat /\ cover(b) \in Nat
      /\ state(a) \in Nat /\ state(b) \in Nat
      /\ cover(a) <= cover(b)
      /\ state(a) <= state(b)
  BY <1>1, <1>2, <1>3, <1>5, QuantileRankType, QuantileRankMonotone
<1>7. /\ rawCover[a] < rawCover[b] => cover(a) < cover(b)
      /\ rawState[a] < rawState[b] => state(a) < state(b)
  BY <1>1, <1>2, <1>5, QuantileRankStrict
<1> HIDE DEF cover, state
<1>8. /\ RankedDistance(c)[a] \in Nat
      /\ RankedDistance(c)[b] \in Nat
      /\ RankedDistance(c)[a] <= RankedDistance(c)[b]
  <2>1. WeightScale \in Nat /\ CoverWeight \in 0..WeightScale
    BY WeightAssumption
  <2>2. /\ CombinedDistance(cover(a), state(a), CoverWeight, WeightScale) \in Nat
        /\ CombinedDistance(cover(b), state(b), CoverWeight, WeightScale) \in Nat
    BY <1>6, <2>1, CombinedType
  <2>3. CombinedDistance(cover(a), state(a), CoverWeight, WeightScale)
          <= CombinedDistance(cover(b), state(b), CoverWeight, WeightScale)
    BY <1>6, <2>1, CombinedMonotone
  <2> QED BY <1>4, <1>5, <2>2, <2>3
<1>9. CASE a < b
  BY <1>8, <1>9 DEF Precedes
<1>10. CASE rawCover[a] < rawCover[b] /\ rawState[a] < rawState[b]
  <2>1. RankedDistance(c)[a] < RankedDistance(c)[b]
    <3>1. CombinedDistance(cover(a), state(a), CoverWeight, WeightScale)
            < CombinedDistance(cover(b), state(b), CoverWeight, WeightScale)
      BY <1>6, <1>7, <1>10, CombinedStrict, WeightAssumption
    <3> QED BY <1>4, <1>5, <3>1
  <2> QED BY <2>1 DEF Precedes
<1> QED BY <1>3, <1>9, <1>10

\* The passing cases that survive an eviction are within the limit.
LEMMA KeptBounded ==
    ASSUME NEW c, RankedCorpus(c)
    PROVE  Cardinality(Kept(c) \cap PassedCases(c, 0)) <= MaxCorpus
<1> DEFINE S == PassedCases(c, 0)
           N == Nearest(RankedDistance(c), S, MaxCorpus)
<1>1. /\ S \in SUBSET Nat
      /\ IsFiniteSet(S)
      /\ First(c) = 0
      /\ RankedDistance(c) \in [S -> Nat]
      /\ S \subseteq DOMAIN c
  BY RankedDistanceType DEF PassedCases
<1>2. CASE Cardinality(S) > MaxCorpus
  <2>1. Kept(c) = (DOMAIN c \ S) \cup N
    BY <1>1, <1>2 DEF Kept
  <2>2. Kept(c) \cap S = N
    BY <2>1 DEF Nearest
  <2> QED BY <1>1, <2>2, NearestBounded, BoundAssumption
<1>3. CASE ~(Cardinality(S) > MaxCorpus)
  <2>1. Kept(c) = DOMAIN c
    BY <1>1, <1>3 DEF Kept
  <2>2. Kept(c) \cap S = S
    BY <1>1, <2>1
  <2>3. Cardinality(S) \in Nat
    BY <1>1, FS_CardinalityType
  <2> QED BY <1>3, <2>2, <2>3, BoundAssumption
<1> QED BY <1>2, <1>3

\* An evicted case passed and dominates no passing case that stays.
LEMMA EvictedDominatesNone ==
    ASSUME NEW c, RankedCorpus(c), NEW victim \in DOMAIN c \ Kept(c)
    PROVE  /\ victim \in PassedCases(c, 0)
           /\ \A kept \in Kept(c) \cap PassedCases(c, 0) : ~Dominates(c, victim, kept)
<1> DEFINE S == PassedCases(c, 0)
           N == Nearest(RankedDistance(c), S, MaxCorpus)
<1>1. /\ S \in SUBSET Nat
      /\ IsFiniteSet(S)
      /\ First(c) = 0
      /\ RankedDistance(c) \in [S -> Nat]
  BY RankedDistanceType
<1>2. Kept(c) = (DOMAIN c \ S) \cup N
  BY <1>1 DEF Kept
<1>3. victim \in S /\ victim \notin N
  BY <1>2
<1>4. ASSUME NEW kept \in Kept(c) \cap S, Dominates(c, victim, kept)
      PROVE  FALSE
  <2>1. kept \in N
    BY <1>2
  <2>2. Precedes(RankedDistance(c), victim, kept)
    BY <1>3, <1>4, DominatingPrecedes
  <2>3. victim \in N
    <3> HIDE DEF S
    <3> QED BY <1>1, <1>3, <2>1, <2>2, NearestClosed, BoundAssumption
  <2> QED BY <1>3, <2>3
<1> QED BY <1>3, <1>4

\* The corpus post_exec ranks is one the ranking can deal with.
LEMMA WithHistoryRanked ==
    ASSUME IInv, PostExecWit
    PROVE  /\ RankedCorpus(WithHistory)
           /\ DOMAIN WithHistory = Ids
           /\ PassedCases(WithHistory, 0) = PassedCases(corpus, 0)
           /\ First(corpus) = 0
<1>1. /\ TypeOK
      /\ added \in Ids
      /\ 0 \in Ids
  BY WitEffect DEF IInv, ZeroIsInitial, Fuzzing
<1>2. /\ DOMAIN WithHistory = Ids
      /\ \A id \in Ids : /\ WithHistory[id] \in Testcases
                         /\ WithHistory[id].passed = corpus[id].passed
  BY <1>1, WithHistoryTypes
<1>3. Ids \subseteq Nat /\ IsFiniteSet(Ids)
  <2>1. nextId - 1 \in Int /\ Ids \subseteq 0..(nextId - 1)
    BY <1>1 DEF TypeOK, Ids
  <2>2. IsFiniteSet(0..(nextId - 1))
    BY <2>1, FS_Interval
  <2>3. Ids \in SUBSET (0..(nextId - 1))
    BY <2>1
  <2>4. IsFiniteSet(Ids)
    BY <2>2, <2>3, FS_Subset
  <2> QED BY <2>1, <2>4
<1>4. RankedCorpus(WithHistory)
  BY <1>1, <1>2, <1>3 DEF RankedCorpus, Testcases
<1>5. PassedCases(WithHistory, 0) = PassedCases(corpus, 0)
  BY <1>2 DEF PassedCases, Ids
<1>6. First(corpus) = 0
  BY <1>1, <1>3, FirstIsZero DEF Ids
<1> QED BY <1>2, <1>4, <1>5, <1>6

\* The passing cases after post_exec are those that were kept.
LEMMA PassedAfterWit ==
    ASSUME IInv, PostExecWit, pc' # "error"
    PROVE  /\ PassedCases(corpus', 0) = Kept(WithHistory) \cap PassedCases(WithHistory, 0)
           /\ First(corpus') = 0
<1>1. /\ Ids' = Kept(WithHistory)
      /\ Ids' \subseteq Ids
      /\ 0 \in Ids'
      /\ \A id \in Ids' : corpus'[id] = WithHistory[id]
  BY WitEffect
<1>2. DOMAIN WithHistory = Ids
  BY WithHistoryRanked
<1>3. PassedCases(corpus', 0) = Kept(WithHistory) \cap PassedCases(WithHistory, 0)
  BY <1>1, <1>2 DEF PassedCases, Ids
<1>4. Ids' \subseteq Nat
  BY <1>1, IdsOlder DEF IInv
<1> QED BY <1>1, <1>3, <1>4, FirstIsZero DEF Ids

\* Outside of post_exec the pool of passing cases is within its limit.
PoolBound ==
    (mode = "WitHW" /\ \/ pc \in {"schedule", "stage", "run", "emit"}
                       \/ pc = "evaluated" /\ added = None)
        => Cardinality(PassedCases(corpus, 0)) <= MaxCorpus

LEMMA StepPoolBound == (IInv /\ PoolBound /\ [Next]_vars) => PoolBound'
<1> SUFFICES ASSUME IInv, PoolBound, [Next]_vars
             PROVE  PoolBound'
  OBVIOUS
<1>1. ASSUME NEW out \in Outcomes, NEW built \in BOOLEAN, Boot(out, built)
      PROVE  PoolBound'
  <2>1. pc' = "schedule" => Ids' = {0}
    <3>1. PICK after : Evaluate({}, out, after)
      BY <1>1 DEF Boot
    <3>2. TypeOK /\ Ids = {} /\ nextId = 0
      BY <1>1 DEF Boot, IInv, FreshBoot
    <3>3. DOMAIN corpus' \subseteq Ids \cup {nextId}
      <4>1. CASE Interesting(out)
        BY <3>1, <3>2, <4>1, EvaluateAddsOrNot
      <4>2. CASE ~Interesting(out)
        BY <3>1, <3>2, <4>2, EvaluateAddsOrNot DEF Ids
      <4> QED BY <4>1, <4>2
    <3>4. pc' = "schedule" => 0 \in Ids'
      BY <1>1, BootInv DEF IInv, ZeroIsInitial, Fuzzing
    <3> QED BY <3>2, <3>3, <3>4 DEF Ids
  <2>2. pc' \in {"schedule", "rejected", "error"}
    BY <1>1 DEF Boot, Evaluate
  <2>3. pc' = "schedule" => PassedCases(corpus', 0) = {}
    BY <2>1 DEF PassedCases, Ids
  <2> QED BY <2>2, <2>3, FS_EmptySet, BoundAssumption DEF PoolBound
<1>2. ASSUME NEW out \in Outcomes, Execute(out)
      PROVE  PoolBound'
  <2>1. /\ pc = "run" /\ mode' = mode /\ TypeOK
        /\ child \in SUBSET Candidates
        /\ Evaluate(child, out, "evaluated")
    BY <1>2 DEF Execute, IInv, TypeOK
  <2>2. pc' = "evaluated" /\ (added' = None => corpus' = corpus)
    <3>1. nextId # None
      BY <2>1, IdsOlder, NoneAssumption
    <3> QED BY <2>1, <3>1, EvaluateAddsOrNot
  <2> QED BY <2>1, <2>2 DEF PoolBound
<1>3. ASSUME PostExecWit
      PROVE  PoolBound'
  <2>1. CASE pc' = "error"
    BY <2>1 DEF PoolBound
  <2>2. CASE pc' # "error"
    BY <1>3, <2>2, PassedAfterWit, WithHistoryRanked, KeptBounded DEF PoolBound
  <2> QED BY <2>1, <2>2
<1>4. CASE PostExecNothing
  BY <1>4 DEF PostExecNothing, ExecutionDone, PoolBound
<1>5. CASE PostExecQueue
  BY <1>5 DEF PostExecQueue, PoolBound
<1>6. CASE \/ \E n \in 1..MaxStageExecs :
                \/ ScheduleQueue(n)
                \/ \E id \in Ids : ScheduleWit(id, n)
           \/ \E S \in SUBSET Candidates : MutateGuided(S) \/ MutateHavoc(S)
           \/ SkipHavoc \/ FailHavoc \/ Timeout \/ EndStage \/ Finished \/ UNCHANGED vars
  <2>1. /\ UNCHANGED <<mode, corpus, added>>
        /\ \/ pc' = pc
           \/ pc' \in {"error", "havoc failed", "killed"}
           \/ pc \in {"schedule", "stage", "run"}
    BY <1>6 DEF ScheduleQueue, ScheduleWit, EnterStage, MutateGuided, MutateHavoc,
                SkipHavoc, FailHavoc, Timeout, EndStage, Finished, vars
  <2> QED BY <2>1 DEF PoolBound
<1> QED BY <1>1, <1>2, <1>3, <1>4, <1>5, <1>6 DEF Next

\* Whenever WitHW schedules, runs a stage or returns, no more than MaxCorpus
\* passing cases are in its corpus, for every limit.
THEOREM PoolWithinLimit == Spec => []PassPoolBounded
<1>1. Init => PoolBound
  BY DEF Init, PoolBound
<1>2. IInv /\ PoolBound /\ [Next]_vars => PoolBound'
  BY StepPoolBound
<1>3. IInv /\ HInv /\ PoolBound => PassPoolBounded
  <2> SUFFICES ASSUME IInv, HInv, PoolBound, mode = "WitHW",
                      pc \in {"schedule", "stage", "emit"}, Ids # {}
               PROVE  Cardinality(PassedCases(corpus, First(corpus))) <= MaxCorpus
    <3>1. Ids = {} => PassedCases(corpus, First(corpus)) = {}
      BY DEF PassedCases, Ids
    <3> QED BY <3>1, FS_EmptySet, BoundAssumption DEF PassPoolBounded
  <2>1. 0 \in Ids
    BY DEF HInv, CorpusInv, InitialStays
  <2>2. First(corpus) = 0
    BY <2>1, FirstIsZero, IdsOlder DEF IInv, Ids
  <2> QED BY <2>2 DEF PoolBound
<1> QED BY <1>1, <1>2, <1>3, Invariance, Remembrance, PTL DEF Spec

\* A step drops an entry only if it passed and no passing case that stays is
\* dominated by it.
THEOREM EvictionFair == Spec => EvictionKeepsDominating
<1> DEFINE A == \A victim \in DOMAIN corpus \ DOMAIN corpus' :
                  /\ victim \in PassedCases(corpus, First(corpus))
                  /\ \A kept \in PassedCases(corpus', First(corpus')) :
                        ~Dominates(corpus, victim, kept)
<1>1. ASSUME IInv, Next PROVE A
  <2>1. CASE PostExecWit
    <3>1. CASE pc' = "error"
      BY <1>1, <2>1, <3>1, WitEffect
    <3>2. CASE pc' # "error"
      <4>1. /\ DOMAIN corpus' = Kept(WithHistory)
            /\ DOMAIN corpus = DOMAIN WithHistory
            /\ First(corpus) = 0
            /\ First(corpus') = 0
            /\ First(WithHistory) = 0
            /\ RankedCorpus(WithHistory)
            /\ PassedCases(WithHistory, 0) = PassedCases(corpus, 0)
            /\ PassedCases(corpus', 0) = Kept(WithHistory) \cap PassedCases(WithHistory, 0)
        BY <1>1, <2>1, <3>2, WitEffect, WithHistoryRanked, PassedAfterWit DEF Ids
      <4>2. ASSUME NEW a \in Ids, NEW b \in Ids, Dominates(corpus, a, b)
            PROVE  Dominates(WithHistory, a, b)
        <5>1. /\ added \in Ids /\ 0 \in Ids /\ TypeOK
          BY <1>1, <2>1, WitEffect DEF IInv, ZeroIsInitial, Fuzzing
        <5>2. \A id \in Ids : /\ WithHistory[id].cov = corpus[id].cov
                              /\ WithHistory[id].trk = corpus[id].trk
          BY <5>1, WithHistoryTypes
        <5> QED BY <4>1, <4>2, <5>1, <5>2 DEF Dominates, CoverFrom, StateFrom
      <4>3. ASSUME NEW victim \in DOMAIN corpus \ DOMAIN corpus'
            PROVE  /\ victim \in PassedCases(corpus, 0)
                   /\ \A kept \in PassedCases(corpus', 0) : ~Dominates(corpus, victim, kept)
        <5>1. victim \in DOMAIN WithHistory \ Kept(WithHistory)
          BY <4>1
        <5>2. /\ victim \in PassedCases(WithHistory, 0)
              /\ \A kept \in Kept(WithHistory) \cap PassedCases(WithHistory, 0) :
                    ~Dominates(WithHistory, victim, kept)
          BY <4>1, <5>1, EvictedDominatesNone
        <5>3. PassedCases(corpus, 0) \subseteq Ids
          BY DEF PassedCases, Ids
        <5> QED BY <4>1, <4>2, <5>2, <5>3
      <4> QED BY <4>1, <4>3
    <3> QED BY <3>1, <3>2
  <2>2. ASSUME NEW out \in Outcomes, NEW built \in BOOLEAN,
               Boot(out, built) \/ Execute(out)
        PROVE  DOMAIN corpus \subseteq DOMAIN corpus'
    BY <2>2 DEF Boot, Execute, Evaluate, Ids
  <2>3. CASE PostExecQueue
    BY <2>3 DEF PostExecQueue, WithHistory
  <2>4. CASE \/ \E n \in 1..MaxStageExecs :
                  \/ ScheduleQueue(n)
                  \/ \E id \in Ids : ScheduleWit(id, n)
             \/ \E S \in SUBSET Candidates : MutateGuided(S) \/ MutateHavoc(S)
             \/ SkipHavoc \/ FailHavoc \/ Timeout \/ EndStage \/ Finished
             \/ PostExecNothing
    <3>1. corpus' = corpus
      BY <2>4 DEF ScheduleQueue, ScheduleWit, EnterStage, MutateGuided, MutateHavoc,
                  SkipHavoc, FailHavoc, Timeout, EndStage, Finished, PostExecNothing, vars
    <3> QED BY <3>1
  <2> QED BY <1>1, <2>1, <2>2, <2>3, <2>4 DEF Next
<1>2. IInv /\ [Next]_vars => [A]_vars
  BY <1>1
<1> QED BY <1>2, Invariance, PTL DEF Spec, EvictionKeepsDominating
=============================================================================
