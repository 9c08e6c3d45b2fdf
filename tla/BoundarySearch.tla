--------------------------- MODULE BoundarySearch ---------------------------
(***************************************************************************)
(* What a reduction of the failing case promises, whatever order it probes *)
(* its candidates in: a search remembers what it accepted and what it      *)
(* rejected, settles on an accepted candidate at the edge of a rejected    *)
(* one, or on none if the candidate that changes least was rejected, and   *)
(* hands on a case that fails where the case before it failed.             *)
(***************************************************************************)
EXTENDS Integers, Sequences

CONSTANT None

VARIABLES
    state,     \* "idle", "least", "greatest" (what is searched for), "aborted"
    last,      \* the last candidate of the search, -1 if there are none
    accepted, rejected,  \* the candidates probed so far
    run,       \* what the run of the case at hand showed
    results    \* what the finished searches settled on

vars == <<state, last, accepted, rejected, run, results>>

Searching == state \in {"least", "greatest"}

Init ==
    /\ state = "least"
    /\ last \in Nat
    /\ accepted = {} /\ rejected = {}
    /\ results = <<>>

Begin ==
    /\ state = "idle"
    /\ state' \in {"least", "greatest"}
    /\ last' \in Nat \cup {-1}
    /\ accepted' = {} /\ rejected' = {}
    /\ UNCHANGED <<run, results>>

\* One more candidate is known to be good or bad, never both.
Probe ==
    /\ Searching
    /\ \/ /\ \E p \in accepted' : accepted' = accepted \cup {p} /\ p \notin rejected
          /\ UNCHANGED rejected
       \/ /\ \E p \in rejected' : rejected' = rejected \cup {p} /\ p \notin accepted
          /\ UNCHANGED accepted
    /\ UNCHANGED <<state, last, run, results>>

\* The smallest accepted candidate next to the rejected ones, the largest one.
AtBoundary(r) ==
    \/ state = "least" /\ (r = 0 \/ r - 1 \in rejected)
    \/ state = "greatest" /\ (r >= last \/ r + 1 \in rejected)

NothingToFind ==
    \/ last = -1
    \/ state = "least" /\ \E p \in rejected : p >= last
    \/ state = "greatest" /\ 0 \in rejected

Settle ==
    /\ Searching
    /\ \/ /\ \E r \in accepted : AtBoundary(r) /\ results' = Append(results, r)
          /\ run'.kind = "Crash"
          /\ run'.last = run.last /\ run.last # None
       \/ /\ NothingToFind
          /\ results' = Append(results, None)
          /\ UNCHANGED run
    /\ state' = "idle"
    /\ last' = -1
    /\ accepted' = {} /\ rejected' = {}

Abort ==
    /\ state' = "aborted"
    /\ last' = -1
    /\ accepted' = {} /\ rejected' = {}
    /\ UNCHANGED <<run, results>>

Next == Begin \/ Probe \/ Settle \/ Abort

Spec == Init /\ [][Next]_vars
=============================================================================
