--------------------------- MODULE MCSourcePipeline ---------------------------
(* A finite instance of the source pipeline for the reconcile: two units,  *)
(* of which the first may have two candidates.                             *)
EXTENDS SourcePipeline

HasFailedReview == \E j \in Job : verdict[j] = "failed"

\* Bound: a failed review or a failed call comes with no second unit and with
\* one card at most; if a call fails all the same, only the orchestrator goes
\* on.  No step of the orchestrator is forbidden, hence its fairness.
Apart ==
    /\ HasFailedReview => faults = 0
    /\ HasFailedReview \/ faults > 0 => units \subseteq {1} /\ \A j \in Job : cards[j] <= 1
    /\ \A j \in Job : cards[j] > 1 => j = PageJob(1)

ApartNext ==
    \/ \E us \in SUBSET Unit : CreateRun(us) /\ Apart'
    \/ Workers /\ Apart'
    \/ \E j \in Job : DeliverEvent(j) /\ Apart'
    \/ Orchestrator
    \/ Crash /\ Apart'

ApartSpec == Init /\ [][ApartNext]_vars /\ WF_vars(Orchestrator)
=============================================================================
