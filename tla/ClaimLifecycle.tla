--------------------------- MODULE ClaimLifecycle ---------------------------
(***************************************************************************)
(* What the orchestrator promises of each issue: one claim, at most one    *)
(* worker at a time, and never more running issues than there are slots.   *)
(* Queues, timers, contexts, configurations and the tracker are left out.  *)
(***************************************************************************)
EXTENDS Integers, FiniteSets

CONSTANTS Issues, Slots

VARIABLES
    claim,      \* the claim of each issue
    working     \* issues that a live worker goroutine works on

vars == <<claim, working>>

Claims == {"Unclaimed", "Running", "RetryQueued"}
RunningIssues == {i \in Issues : claim[i] = "Running"}

Init ==
    /\ claim = [i \in Issues |-> "Unclaimed"]
    /\ working = {}

\* A worker starts for an issue that has none, if a slot is free.
Dispatch(i) ==
    /\ claim[i] # "Running"
    /\ Cardinality(RunningIssues) < Slots
    /\ claim' = [claim EXCEPT ![i] = "Running"]
    /\ working' = working \cup {i}

\* The goroutine ends; its exit has yet to be handled.
WorkerEnds(i) ==
    /\ i \in working
    /\ working' = working \ {i}
    /\ UNCHANGED claim

\* The exit is handled: the claim is kept for a retry.
QueueRetry(i) ==
    /\ claim[i] = "Running"
    /\ i \notin working
    /\ claim' = [claim EXCEPT ![i] = "RetryQueued"]
    /\ UNCHANGED working

\* The claim is dropped, and nobody works on the issue any more.
Release(i) ==
    /\ claim[i] # "Unclaimed"
    /\ i \notin working
    /\ claim' = [claim EXCEPT ![i] = "Unclaimed"]
    /\ UNCHANGED working

Next == \E i \in Issues :
    Dispatch(i) \/ WorkerEnds(i) \/ QueueRetry(i) \/ Release(i)

Spec == Init /\ [][Next]_vars

=============================================================================
