---------------------------- MODULE Orchestrator ----------------------------
(***************************************************************************)
(* The single-authority event loop of internal/orchestrator: it polls the  *)
(* tracker, dispatches one worker goroutine per issue, reconciles running  *)
(* workers with the tracker, and retries issues whose worker has ended.    *)
(*                                                                         *)
(* Actors: the loop goroutine, the worker goroutines, the poll timer, one  *)
(* retry timer per queued retry, the file watcher (reloads), the HTTP      *)
(* server (refreshes) and the operating system (the root context).         *)
(* They share nothing but the events channel and the context of each       *)
(* worker; the loop alone reads and writes the scheduling state.           *)
(*                                                                         *)
(* What the tracker answers is an arbitrary value at each fetch: a fetch   *)
(* may fail, and two fetches of one tick may disagree.                     *)
(***************************************************************************)
EXTENDS Integers, Sequences, FiniteSets, SequencesExt

CONSTANTS
    Issues,         \* issue IDs
    States,         \* normalized tracker states
    Configs,        \* effective configurations a reload can bring
    Runs,           \* identities of worker goroutines (ghosts, reused)
    MaxSlots,       \* the largest max_concurrent_agents of Configs
    Cap,            \* capacity of the events channel (256 in the code)
    MaxAttempt,     \* bound: attempt numbers saturate here
    MaxUpdates,     \* bound: queued updates of one worker
    MaxPolls,       \* bound: polls asked for and not yet served
    MaxReloads      \* bound: reloads in a behaviour

Config == [max: 0..MaxSlots, limit: [States -> Nat],
           active: SUBSET States, terminal: SUBSET States,
           stall: BOOLEAN,      \* claude.stall_timeout_ms > 0
           labels: BOOLEAN]     \* tracker.required_labels is not empty

ASSUME RunsAssumption == Runs \subseteq Nat
ASSUME ConfigsAssumption == Configs \subseteq Config
ASSUME BoundsAssumption == /\ MaxSlots \in Nat
                           /\ Cap \in Nat \ {0}
                           /\ MaxAttempt \in Nat \ {0}
                           /\ MaxUpdates \in Nat
                           /\ MaxPolls \in Nat
                           /\ MaxReloads \in Nat

VARIABLES
    cfg,        \* o.cfg, with the copies of it that state keeps
    running,    \* state.Running, a map from issue IDs
    claimed,    \* state.Claimed
    retry,      \* state.RetryAttempts: attempt, and whether its timer is armed
    worker,     \* live worker goroutines: their issue, and is ctx cancelled
    events,     \* the channel: positions beyond Cap are senders that block
    tickArmed,  \* the poll timer is armed and has not fired
    pc,         \* where the loop goroutine is
    rootDone,   \* the root context is cancelled
    reloads     \* reloads posted so far

vars == <<cfg, running, claimed, retry, worker, events, tickArmed, pc,
          rootDone, reloads>>

-----------------------------------------------------------------------------
(* Maps and events *)

EmptyMap == [x \in {} |-> x]
Put(f, k, v) == [x \in DOMAIN f \cup {k} |-> IF x = k THEN v ELSE f[x]]
Del(f, k) == [x \in DOMAIN f \ {k} |-> f[x]]

TickEvent == [kind |-> "tick"]
RefreshRequest == [kind |-> "refresh"]
ReloadConfig(c) == [kind |-> "reload", cfg |-> c]
RetryTimerFired(i) == [kind |-> "retry", issue |-> i]
\* The code's AgentUpdate and WorkerExit name only the issue; the run is a ghost.
AgentUpdate(i, r) == [kind |-> "update", issue |-> i, run |-> r]
WorkerExit(i, r, ok) == [kind |-> "exit", issue |-> i, run |-> r, ok |-> ok]

Entry == [run: Runs, state: States, labelled: BOOLEAN, attempt: 0..MaxAttempt,
          terminating: BOOLEAN, cleanup: BOOLEAN, release: BOOLEAN]
RetryEntry == [attempt: 0..MaxAttempt, armed: BOOLEAN]
Worker == [issue: Issues, cancelled: BOOLEAN]
Event == {TickEvent, RefreshRequest}
         \cup [kind: {"reload"}, cfg: Configs]
         \cup [kind: {"retry"}, issue: Issues]
         \cup [kind: {"update"}, issue: Issues, run: Runs]
         \cup [kind: {"exit"}, issue: Issues, run: Runs, ok: BOOLEAN]

QueuedAs(kind) == {k \in DOMAIN events : events[k].kind = kind}
UpdatesOf(r) == {k \in QueuedAs("update") : events[k].run = r}
ExitsOf(r) == {k \in QueuedAs("exit") : events[k].run = r}

BugNextAttempt(n) == n - 1
NextAttempt(n) == IF n < MaxAttempt THEN n + 1 ELSE MaxAttempt

-----------------------------------------------------------------------------
(* The events channel.  Receiving from a full channel lets the sender that *)
(* has waited longest put its event last, so the buffer and the blocked    *)
(* senders are one queue.                                                  *)

BugPost(e) == IF Len(events) < Cap THEN events' = Append(events, e)
                                 ELSE UNCHANGED events
\* post: wait for room, or give up once the root context is cancelled.
Post(e) == \/ events' = Append(events, e)
           \/ rootDone /\ UNCHANGED events

\* A send with a default case: RequestRefresh and the watcher's reload.
TrySend(e) == Len(events) < Cap /\ events' = Append(events, e)

\* The loop's select picks the next event, at its head.
Receive == /\ pc = "select"
           /\ events # <<>>
           /\ events' = Tail(events)

\* The emit callback of run r is waiting in post.
Blocked(r) == \E k \in UpdatesOf(r) : k > Cap

-----------------------------------------------------------------------------
(* Slots and eligibility *)

RunningCountByState(s) ==
    Cardinality({i \in DOMAIN running : running[i].state = s})

BugHasSlot(s) == Cardinality(DOMAIN running) < cfg.max
HasSlot(s) == /\ Cardinality(DOMAIN running) < cfg.max
              /\ RunningCountByState(s) < cfg.limit[s]

\* The states in which isEligible can accept an issue; its other rules look
\* only at the issue the tracker returned, which is arbitrary here.
EligibleStates == cfg.active \ cfg.terminal

-----------------------------------------------------------------------------
(* Helpers of the handlers *)

\* A goroutine identity that nothing in the system refers to.
FreshRuns == {r \in Runs : /\ r \notin DOMAIN worker
                           /\ UpdatesOf(r) = {} /\ ExitsOf(r) = {}
                           /\ \A i \in DOMAIN running : running[i].run # r}

DispatchIssue(i, s, attempt) ==
    \E r \in FreshRuns :
        /\ \A q \in FreshRuns : r <= q
        /\ running' = Put(running, i,
               [run |-> r, state |-> s, labelled |-> TRUE, attempt |-> attempt,
                terminating |-> FALSE, cleanup |-> FALSE, release |-> FALSE])
        /\ claimed' = claimed \cup {i}
        /\ retry' = Del(retry, i)
        /\ worker' = Put(worker, r, [issue |-> i, cancelled |-> rootDone])

\* The old timer, if any, is stopped and a new one armed.
ScheduleRetry(i, attempt) ==
    /\ retry' = Put(retry, i, [attempt |-> attempt, armed |-> TRUE])
    /\ claimed' = claimed \cup {i}

BugCancel(rs) == worker' = worker
Cancel(rs) ==
    worker' = [r \in DOMAIN worker |->
                 IF r \in rs THEN [worker[r] EXCEPT !.cancelled = TRUE] ELSE worker[r]]

Terminate(e, cleanup, release) ==
    [e EXCEPT !.terminating = TRUE, !.cleanup = cleanup, !.release = release]

\* What one refreshed issue does to its running entry; o.labelled says that
\* the issue still has every required label.
Observe(e, o) ==
    IF o.state \in cfg.terminal THEN Terminate(e, TRUE, TRUE)
    ELSE IF o.state \in cfg.active
         THEN [e EXCEPT !.state = o.state, !.labelled = o.labelled]
         ELSE Terminate(e, FALSE, TRUE)

\* Requests carry the root context: all of them fail once it is cancelled.
FetchCanSucceed == ~rootDone

Observations == [state: States, labelled: IF cfg.labels THEN BOOLEAN ELSE {TRUE}]

\* FetchIssueStatesByIDs: any of the issues, in any state; none when it fails.
Refreshes(ids) == UNION {[D -> Observations] : D \in SUBSET ids}

\* Entries marked terminating are left to their exit.
BugUndecided == DOMAIN running
Undecided == {i \in DOMAIN running : ~running[i].terminating}

\* The running map once the stalled workers are terminated and what the
\* tracker has said is applied to the others.
Reconciled(stalled, seen) ==
    [i \in DOMAIN running |->
        IF i \in stalled THEN Terminate(running[i], FALSE, FALSE)
        ELSE IF i \in DOMAIN seen THEN Observe(running[i], seen[i])
        ELSE running[i]]

\* Part A terminates any set of workers that have been silent for too long,
\* part B whatever the tracker says of the others.
Reconcile ==
    \E stalled \in SUBSET (IF cfg.stall THEN Undecided ELSE {}) :
    \E seen \in Refreshes(IF FetchCanSucceed THEN Undecided \ stalled ELSE {}) :
        /\ running' = Reconciled(stalled, seen)
        /\ Cancel({running[i].run : i \in
                {j \in Undecided : running'[j].terminating}})

-----------------------------------------------------------------------------
(* The loop goroutine: one action per handler and outcome; onTick is split *)
(* where it waits for the tracker and at each candidate.                   *)

\* Run: validation and startup cleanup are over, the first tick is due.
StartLoop ==
    /\ pc = "startup"
    /\ pc' = "select"
    /\ tickArmed' = TRUE
    /\ UNCHANGED <<cfg, running, claimed, retry, worker, events, rootDone, reloads>>

OnTick ==
    /\ Receive
    /\ Head(events) = TickEvent
    /\ Reconcile
    /\ pc' = "fetch"
    /\ UNCHANGED <<cfg, claimed, retry, tickArmed, rootDone, reloads>>

BugTickFetchFails ==
    /\ pc = "fetch"
    /\ pc' = "select"
    /\ UNCHANGED <<cfg, running, claimed, retry, worker, events, tickArmed,
                   rootDone, reloads>>

\* The configuration is invalid or the candidates cannot be fetched.
TickFetchFails ==
    /\ pc = "fetch"
    /\ pc' = "select"
    /\ tickArmed' = TRUE
    /\ UNCHANGED <<cfg, running, claimed, retry, worker, events, rootDone, reloads>>

TickFetched ==
    /\ pc = "fetch"
    /\ FetchCanSucceed
    /\ pc' = "dispatch"
    /\ UNCHANGED <<cfg, running, claimed, retry, worker, events, tickArmed,
                   rootDone, reloads>>

BugTickDispatches(i, s) ==
    /\ pc = "dispatch"
    /\ i \in DOMAIN running => running[i].terminating
    /\ s \in EligibleStates
    /\ HasSlot(s)
    /\ DispatchIssue(i, s, 0)
    /\ UNCHANGED <<cfg, events, tickArmed, pc, rootDone, reloads>>

\* A candidate that passes every test of the loop; those that fail one leave
\* no trace.  The response is revealed one candidate at a time.
TickDispatches(i, s) ==
    /\ pc = "dispatch"
    /\ i \notin DOMAIN running
    /\ i \notin claimed
    /\ s \in EligibleStates
    /\ HasSlot(s)
    /\ DispatchIssue(i, s, 0)
    /\ UNCHANGED <<cfg, events, tickArmed, pc, rootDone, reloads>>

TickDone ==
    /\ pc = "dispatch"
    /\ pc' = "select"
    /\ tickArmed' = TRUE
    /\ UNCHANGED <<cfg, running, claimed, retry, worker, events, rootDone, reloads>>

\* Session fields, tokens and the activity list are not part of this module.
OnAgentUpdate ==
    /\ Receive
    /\ Head(events).kind = "update"
    /\ UNCHANGED <<cfg, running, claimed, retry, worker, tickArmed, pc,
                   rootDone, reloads>>

OnWorkerExit(i, ok) ==
    /\ Receive
    /\ Head(events).kind = "exit"
    /\ Head(events).issue = i
    /\ Head(events).ok = ok
    /\ IF i \notin DOMAIN running
       THEN UNCHANGED <<running, claimed, retry>>
       ELSE /\ running' = Del(running, i)
            /\ IF running[i].release
               THEN claimed' = claimed \ {i} /\ UNCHANGED retry
               ELSE ScheduleRetry(i, IF ok THEN 1 ELSE NextAttempt(running[i].attempt))
    /\ UNCHANGED <<cfg, worker, tickArmed, pc, rootDone, reloads>>

\* The branches of onRetryTimer share its prologue: the entry is consumed.
RetryIsDue(i) ==
    /\ Receive
    /\ Head(events) = RetryTimerFired(i)
    /\ i \in DOMAIN retry

BugRetryIsPutOff(i) ==
    /\ RetryIsDue(i)
    /\ UNCHANGED <<cfg, running, claimed, retry, worker, tickArmed, pc,
                   rootDone, reloads>>

\* The fetch fails, or the issue has no slot in the state it is in now; an
\* event whose entry is gone is ignored.
RetryIsPutOff(i) ==
    /\ Receive
    /\ Head(events) = RetryTimerFired(i)
    /\ IF i \in DOMAIN retry
       THEN ScheduleRetry(i, NextAttempt(retry[i].attempt))
       ELSE UNCHANGED <<claimed, retry>>
    /\ UNCHANGED <<cfg, running, worker, tickArmed, pc, rootDone, reloads>>

BugRetryReleases(i) ==
    /\ RetryIsDue(i)
    /\ FetchCanSucceed
    /\ retry' = Del(retry, i)
    /\ UNCHANGED <<cfg, running, claimed, worker, tickArmed, pc, rootDone, reloads>>

\* The tracker no longer returns the issue, or it is no longer eligible.
RetryReleases(i) ==
    /\ RetryIsDue(i)
    /\ FetchCanSucceed
    /\ retry' = Del(retry, i)
    /\ claimed' = claimed \ {i}
    /\ UNCHANGED <<cfg, running, worker, tickArmed, pc, rootDone, reloads>>

BugRetryDispatches(i, s) ==
    /\ RetryIsDue(i)
    /\ FetchCanSucceed
    /\ s \in EligibleStates
    /\ HasSlot(s)
    /\ DispatchIssue(i, s, 0)
    /\ UNCHANGED <<cfg, tickArmed, pc, rootDone, reloads>>

RetryDispatches(i, s) ==
    /\ RetryIsDue(i)
    /\ FetchCanSucceed
    /\ s \in EligibleStates
    /\ HasSlot(s)
    /\ DispatchIssue(i, s, retry[i].attempt)
    /\ UNCHANGED <<cfg, tickArmed, pc, rootDone, reloads>>

OnReload ==
    /\ Receive
    /\ Head(events).kind = "reload"
    /\ cfg' = Head(events).cfg
    /\ tickArmed' = TRUE
    /\ UNCHANGED <<running, claimed, retry, worker, pc, rootDone, reloads>>

\* The tracker cannot be rebuilt: the last good configuration stays.
OnReloadFails ==
    /\ Receive
    /\ Head(events).kind = "reload"
    /\ UNCHANGED <<cfg, running, claimed, retry, worker, tickArmed, pc,
                   rootDone, reloads>>

OnRefreshRequest ==
    /\ Receive
    /\ Head(events) = RefreshRequest
    /\ tickArmed' = TRUE
    /\ UNCHANGED <<cfg, running, claimed, retry, worker, pc, rootDone, reloads>>

\* The select finds the root context cancelled; Run returns.
Shutdown ==
    /\ pc = "select"
    /\ rootDone
    /\ pc' = "stopped"
    /\ tickArmed' = FALSE
    /\ retry' = [i \in DOMAIN retry |-> [retry[i] EXCEPT !.armed = FALSE]]
    /\ Cancel({running[i].run : i \in DOMAIN running})
    /\ UNCHANGED <<cfg, running, claimed, events, rootDone, reloads>>

Loop ==
    \/ StartLoop \/ OnTick \/ TickFetchFails \/ TickFetched \/ TickDone
    \/ OnAgentUpdate \/ OnReload \/ OnReloadFails \/ OnRefreshRequest \/ Shutdown
    \/ \E i \in Issues :
         \/ \E ok \in BOOLEAN : OnWorkerExit(i, ok)
         \/ RetryIsPutOff(i) \/ RetryReleases(i)
         \/ \E s \in States : TickDispatches(i, s) \/ RetryDispatches(i, s)

-----------------------------------------------------------------------------
(* The timers: each firing starts a goroutine that posts one event. *)

TickTimerFires ==
    /\ tickArmed
    /\ tickArmed' = FALSE
    /\ Post(TickEvent)
    /\ UNCHANGED <<cfg, running, claimed, retry, worker, pc, rootDone, reloads>>

RetryTimerFires(i) ==
    /\ i \in DOMAIN retry
    /\ retry[i].armed
    /\ retry' = [retry EXCEPT ![i].armed = FALSE]
    /\ Post(RetryTimerFired(i))
    /\ UNCHANGED <<cfg, running, claimed, worker, tickArmed, pc, rootDone, reloads>>

-----------------------------------------------------------------------------
(* The worker goroutines.  Run emits updates from its own goroutine, so a  *)
(* worker that waits to post one does nothing else.                        *)

WorkerEmits(r) ==
    /\ r \in DOMAIN worker
    /\ ~Blocked(r)
    /\ Cardinality(UpdatesOf(r)) < MaxUpdates
    /\ Post(AgentUpdate(worker[r].issue, r))
    /\ UNCHANGED <<cfg, running, claimed, retry, worker, tickArmed, pc,
                   rootDone, reloads>>

WorkerReturns(r, ok) ==
    /\ r \in DOMAIN worker
    /\ ~Blocked(r)
    /\ Post(WorkerExit(worker[r].issue, r, ok))
    /\ worker' = Del(worker, r)
    /\ UNCHANGED <<cfg, running, claimed, retry, tickArmed, pc, rootDone, reloads>>

-----------------------------------------------------------------------------
(* The environment *)

\* RequestRefresh, from the HTTP server.
RefreshIsRequested ==
    /\ Cardinality(QueuedAs("tick") \cup QueuedAs("refresh")) < MaxPolls
    /\ TrySend(RefreshRequest)
    /\ UNCHANGED <<cfg, running, claimed, retry, worker, tickArmed, pc,
                   rootDone, reloads>>

\* The watcher has read a valid workflow file.
ReloadIsPosted(c) ==
    /\ reloads < MaxReloads
    /\ TrySend(ReloadConfig(c))
    /\ reloads' = reloads + 1
    /\ UNCHANGED <<cfg, running, claimed, retry, worker, tickArmed, pc, rootDone>>

\* SIGINT or SIGTERM; the contexts of the workers derive from the root.
RootIsCancelled ==
    /\ ~rootDone
    /\ rootDone' = TRUE
    /\ Cancel(DOMAIN worker)
    /\ UNCHANGED <<cfg, running, claimed, retry, events, tickArmed, pc, reloads>>

BugSenderGivesUp == rootDone /\ Len(events) > Cap /\ UNCHANGED vars

\* post's other case: a sender stops waiting.
SenderGivesUp ==
    /\ rootDone
    /\ \E k \in DOMAIN events : k > Cap /\ events' = RemoveAt(events, k)
    /\ UNCHANGED <<cfg, running, claimed, retry, worker, tickArmed, pc,
                   rootDone, reloads>>

Finished == pc = "stopped" /\ DOMAIN worker = {} /\ Len(events) <= Cap

\* Run has returned and no goroutine of the orchestrator is left.
Terminated == Finished /\ UNCHANGED vars

-----------------------------------------------------------------------------
Init ==
    /\ cfg \in Configs
    /\ running = EmptyMap /\ retry = EmptyMap /\ worker = EmptyMap
    /\ claimed = {}
    /\ events = <<>>
    /\ tickArmed = FALSE
    /\ pc = "startup"
    /\ rootDone = FALSE
    /\ reloads = 0

Next ==
    \/ Loop
    \/ TickTimerFires
    \/ \E i \in Issues : RetryTimerFires(i)
    \/ \E r \in Runs : WorkerEmits(r) \/ \E ok \in BOOLEAN : WorkerReturns(r, ok)
    \/ RefreshIsRequested
    \/ \E c \in Configs : ReloadIsPosted(c)
    \/ RootIsCancelled
    \/ SenderGivesUp
    \/ Terminated

Spec == Init /\ [][Next]_vars

\* Goroutines and timers of the Go runtime get their turn.  A worker whose
\* context is cancelled ends after finitely many more updates (its process is
\* killed), hence strong fairness; nothing is assumed of the others.  The
\* select chooses at random between a pending event and the cancelled root.
Fairness ==
    /\ WF_vars(Loop)
    /\ SF_vars(Shutdown)
    /\ WF_vars(TickTimerFires)
    /\ \A i \in Issues : WF_vars(RetryTimerFires(i))
    /\ \A r \in Runs : SF_vars(/\ r \in DOMAIN worker /\ worker[r].cancelled
                               /\ \E ok \in BOOLEAN : WorkerReturns(r, ok))
    /\ WF_vars(SenderGivesUp)

FairSpec == Spec /\ Fairness

-----------------------------------------------------------------------------
(* Safety *)

IsMap(f, K, V) == DOMAIN f \subseteq K /\ f \in [DOMAIN f -> V]

TypeOK ==
    /\ cfg \in Configs
    /\ IsMap(running, Issues, Entry)
    /\ claimed \subseteq Issues
    /\ IsMap(retry, Issues, RetryEntry)
    /\ IsMap(worker, Runs, Worker)
    /\ events \in Seq(Event)
    /\ tickArmed \in BOOLEAN
    /\ pc \in {"startup", "select", "fetch", "dispatch", "stopped"}
    /\ rootDone \in BOOLEAN
    /\ reloads \in 0..MaxReloads

\* The claim of an issue, which keeps a second worker from being dispatched,
\* is held exactly while the issue has a running entry or a queued retry, and
\* never both (SPEC 7.1).  A leaked claim would block the issue for ever.
ClaimedIsRunningOrRetrying ==
    /\ claimed = DOMAIN running \cup DOMAIN retry
    /\ DOMAIN running \cap DOMAIN retry = {}

WorkersOf(i) == {r \in DOMAIN worker : worker[r].issue = i}
ExitsFor(i) == {k \in QueuedAs("exit") : events[k].issue = i}

\* Two workers never share an issue (and its workspace): an issue has a live
\* goroutine or the queued exit of one, not both, and only while it has a
\* running entry.  No entry waits for an exit that nobody will post.
OneWorkerPerIssue ==
    \A i \in Issues :
        LET n == Cardinality(WorkersOf(i)) + Cardinality(ExitsFor(i))
        IN IF i \in DOMAIN running THEN n = 1 \/ (rootDone /\ n = 0) ELSE n = 0

\* Updates and exits carry only the issue ID, yet an update never reaches the
\* session of a later run of the issue, and none is queued behind the exit.
EventsReachTheirRun ==
    \A k \in QueuedAs("update") \cup QueuedAs("exit") :
        /\ events[k].issue \in DOMAIN running
        /\ running[events[k].issue].run = events[k].run
        /\ \A j \in UpdatesOf(events[k].run) : events[k].kind = "exit" => j < k

\* What makes the two properties above inductive: no two entries share a
\* goroutine, a live worker is the one its
\* issue's entry names, an exit is the last sign of its goroutine, and each
\* entry still has a goroutine or an exit, as long as no sender gives up.
RunsInv ==
    /\ \A i, j \in DOMAIN running : running[i].run = running[j].run => i = j
    /\ \A r \in DOMAIN worker : /\ worker[r].issue \in DOMAIN running
                                /\ running[worker[r].issue].run = r
    /\ \A k \in QueuedAs("exit") : events[k].run \notin DOMAIN worker
    /\ \A k \in QueuedAs("exit"), j \in QueuedAs("exit") :
           events[k].run = events[j].run => k = j
    /\ EventsReachTheirRun
    /\ rootDone \/ \A i \in DOMAIN running : \/ running[i].run \in DOMAIN worker
                                             \/ ExitsOf(running[i].run) # {}

RetriesQueued(i) == {k \in QueuedAs("retry") : events[k].issue = i}

\* Every queued retry has exactly one wake-up on its way, a timer or an event,
\* and no wake-up is left over from an earlier retry: it would cut the backoff
\* of the next one short.
OneWakeupPerRetry ==
    \A i \in Issues :
        IF i \in DOMAIN retry
        THEN \/ retry[i].armed /\ RetriesQueued(i) = {}
             \/ ~retry[i].armed /\ Cardinality(RetriesQueued(i)) = 1
             \/ rootDone /\ ~retry[i].armed /\ RetriesQueued(i) = {}
        ELSE RetriesQueued(i) = {}

-----------------------------------------------------------------------------
(* What a step may never do *)

\* Dispatch, from a tick or a retry, never takes a slot beyond the global and
\* the per-state limit now in force, whatever reloads lowered them and
\* whatever reconciliation did to the states of the running entries.
SlotsAreRespected ==
    [][\A i \in DOMAIN running' \ DOMAIN running :
         LET same == {j \in DOMAIN running' : running'[j].state = running'[i].state}
         IN /\ Cardinality(DOMAIN running') <= cfg.max
            /\ Cardinality(same) <= cfg.limit[running'[i].state]]_vars

\* The first decision to terminate a worker stands: no later tick, update or
\* reload changes it, and when the worker is gone a stalled issue is retried
\* and one that left the active states is let go.
TerminationDecisionStands ==
    [][\A i \in DOMAIN running : running[i].terminating =>
         \/ i \in DOMAIN running' /\ running'[i] = running[i]
         \/ i \notin DOMAIN running' /\ (running[i].release <=> i \notin claimed')]_vars

AttemptOf(i) == IF i \in DOMAIN running THEN running[i].attempt ELSE retry[i].attempt

\* The attempt number, from which the backoff is computed, survives dispatch
\* and retry: only a normal exit lowers it, and a failed run raises it.
AttemptsAreCounted ==
    [][\A i \in claimed \cap claimed' :
         \/ AttemptOf(i)' >= AttemptOf(i) /\
              (i \in DOMAIN running /\ i \in DOMAIN retry' =>
                 AttemptOf(i)' > AttemptOf(i) \/ AttemptOf(i)' = MaxAttempt)
         \/ i \in DOMAIN retry' /\ Head(events).kind = "exit" /\ Head(events).ok]_vars

-----------------------------------------------------------------------------
(* Liveness, under Fairness *)

\* A worker that was told to stop is removed: neither a full channel nor a
\* loop that waits for the tracker keeps its exit from being handled.
TerminatingIsRemoved ==
    \A i \in Issues :
        i \in DOMAIN running /\ running[i].terminating ~> i \notin DOMAIN running \/ rootDone

\* The tracker is polled again and again until shutdown.
PollsForever == []<>(rootDone \/ pc = "fetch")

\* A worker never waits for ever on a full channel.
SendersAreServed == \A r \in Runs : Blocked(r) ~> ~Blocked(r)

\* After SIGTERM the loop returns and every goroutine ends, though those that
\* still post find no receiver.
ShutdownFinishes == rootDone ~> Finished

-----------------------------------------------------------------------------
(* Documented behaviour that the code does not have *)

\* SPEC 5.3.1: an issue must contain every required label to dispatch or
\* continue; so a worker whose issue was seen without them is being stopped.
LabelRemovalStopsWorker ==
    \A i \in DOMAIN running : running[i].labelled \/ running[i].terminating

-----------------------------------------------------------------------------
(* The abstract specification that the orchestrator implements *)

ClaimOf(i) == IF i \in DOMAIN running THEN "Running"
              ELSE IF i \in DOMAIN retry THEN "RetryQueued"
              ELSE "Unclaimed"

Lifecycle == INSTANCE ClaimLifecycle WITH
    Slots <- MaxSlots,
    claim <- [i \in Issues |-> ClaimOf(i)],
    working <- {worker[r].issue : r \in DOMAIN worker}

\* Every behaviour of the orchestrator is one of the claim lifecycle: a claim
\* moves only when the worker it protects is gone, through crashes of runs,
\* reloads, stalls and shutdown alike.
ImplementsLifecycle == Lifecycle!Spec

=============================================================================
