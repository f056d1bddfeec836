# my-symphony in TLA+

A verification project for the orchestrator daemon in `src/`: TLA+ modules
translated from its Go code, TLC configurations that check them on small
instances, and proofs that TLAPS checks for every value of the constants.

* [The system](#the-system) — its parts, their state and how they interact
* [Orchestrator](#the-module-orchestrator), [Worker](#the-module-worker),
  [ClaudeTurn](#the-module-claudeturn), [Watcher](#the-module-watcher),
  [Sessions](#the-module-sessions), [Tick](#the-module-tick),
  [Settings and Prompt](#the-modules-settings-and-prompt) — model, properties,
  bounds, fairness
* [Runs](#runs), [Documented behaviour the code does not have](#documented-behaviour-the-code-does-not-have)
* [Proofs](#proofs)
* [What is left out](#what-is-left-out), [Plan](#plan)

To repeat a check: `tlc -config OrchestratorChannel.cfg MCOrchestrator.tla`,
`tlc -config MCWorker.cfg MCWorker.tla`, `tlapm OrchestratorProofs.tla`; the other
runs and proofs alike.

How the modules fit together:

| Module | Stands on |
|---|---|
| `ClaimLifecycle` | the promise of the loop to an issue, abstract |
| `Orchestrator` | implements `ClaimLifecycle`; of a worker it assumes updates, one exit, and a return after cancellation |
| `Worker` | of the loop it assumes only `ClaimLifecycle` between restarts (`LifecycleBetweenRestarts`); of a turn that it ends when it is cancelled |
| `ClaudeTurn` | one turn; a turn whose context ends returns (`TurnReturns`); of the loop it assumes that `emit` returns (`SendersAreServed` of `Orchestrator`) |
| `Watcher` | what becomes of a saved file until the loop applies it; to `Orchestrator` a reload is one event |
| `Sessions` | the runs of `Orchestrator` and the turns of `ClaudeTurn` as their observers see them: of both it keeps what is reported, and leaves open what happens |
| `Tick` | one fetch and the decision on it, which `Orchestrator` takes as one arbitrary answer per candidate |
| `Settings`, `Prompt` | what is in a version of the file, which is a number to `Watcher` and a value to `Orchestrator`; the prompts and turns a worker is given |
| `...Proofs`, `MC...` | theorems about a module; its constants for TLC |
| `Induction` | lemmas on numbers, finite sets, walks, folds, sums and powers, which the proofs share |

## The system

The daemon polls a Linear project, runs the Claude Code CLI for each eligible
issue in a workspace directory of the issue, and retries, stops or releases
issues as they end, stall or change state in the tracker.

| Part (under `src/`) | State it keeps | Operations | Talks to |
|---|---|---|---|
| Orchestrator loop (`internal/orchestrator`) | running entries, claims, retry entries, totals, effective config | one handler per event: tick, agent update, worker exit, retry timer, reload, refresh, snapshot; shutdown | receives from the events channel; calls the tracker and the workspace manager synchronously; starts workers |
| Events channel and timers | 256 events; one poll timer, one timer per retry; a context per worker | `post` (blocks until there is room or the root context ends), sends with a `default` (reload, refresh, snapshot), `AfterFunc`, `Stop` | everybody posts, the loop receives |
| Worker (`internal/agent`) | turn number, session, its copy of the issue | workspace, `before_run`, turns with a state refresh after each, `after_run` | posts updates and one exit |
| Claude client (`internal/agent/claude`) | session id, malformed-line count, timers of a turn | start the subprocess, read its lines on a goroutine, finish on result, error, timeout, cancellation or end of stream | emits updates through the worker |
| Workspace manager (`internal/workspace`) | directories on disk | create (with `after_create`), hooks, cleanup (with `before_remove`), containment checks | called by workers and by the loop |
| Watcher (`internal/watcher`) | debounce timer | reload: read, validate, post if there is room | posts reloads |
| Configuration (`internal/config`, `internal/workflow`) | — | parse, default, validate, limits and overrides per state | used by all |
| Tracker client (`internal/tracker`) | — | paginated queries, normalization, error categories | called by the loop and by workers |
| Observers (`internal/httpserver`, `internal/status`) | — | snapshot with a time limit, refresh, issue detail | post snapshot and refresh requests |
| Prompt, `linear_graphql` tool and MCP server, logging, `cmd/symphony` | — | rendering, a stdin/stdout tool, wiring and signals | — |

Everything that decides what runs is in the first two rows, and that is where
the behaviour is hard to test:

* *Interleaving.* The loop is a single goroutine, but worker exits, updates,
  timer events, reloads and refreshes reach it in any order through one queue,
  and it waits for the network inside its handlers while the others go on.
* *Identity.* Events name an issue, not the run that sent them; a timer that has
  fired cannot be stopped any more.
* *Two-step termination.* Reconciliation only marks a worker and cancels its
  context; removal, cleanup and release follow when its exit arrives.
* *Limits.* A full channel blocks its senders; slots are checked against
  configuration and tracker states that change under the running workers.
* *Failure.* Every fetch can fail in the middle of a handler; after a signal the
  loop stops receiving while workers and timers still post.
* *Time.* Stalls, hook and turn timeouts, backoff; a debounce that runs reloads
  on goroutines of their own.
* *Crash.* Nothing but the workspaces survives the process.

What makes each part correct, in short. Loop: a claim is held exactly while it
is needed, one worker per issue, slots are never oversubscribed, each decision
is taken once, the poll loop survives every error. Channel: no exit and no
wake-up is lost or doubled, nobody blocks for ever. Worker: exactly one exit,
hooks in pairs, no turn under the prompt of another state. Client: one terminal
outcome per turn, no goroutine left. Workspace: `after_create` completes before
a directory is reused, terminal issues lose theirs. Watcher: the file that was
saved last is in force in the end. `PROJECT.json` lists the hazards one by one,
each at its line.

## The module `Orchestrator`

`Orchestrator.tla` is the loop with the channel, the timers, and the interface
of the workers, the watcher and the observers. It has one action per handler and
outcome.

| Variable | Code |
|---|---|
| `cfg` | `o.cfg`, with `PollIntervalMs` and `MaxConcurrentAgents`, which are only copies of it |
| `running` | `state.Running`: state and labels of the entry's issue, `RetryAttempt`, the three termination flags; `run` is a ghost that names the goroutine |
| `claimed`, `retry` | `state.Claimed`, `state.RetryAttempts`; `armed` says that the entry's timer has neither fired nor been stopped |
| `worker` | the goroutines of `dispatchIssue` that have not returned: their issue, and whether their context is cancelled |
| `events` | `o.events`: the first `Cap` elements are the buffer, those behind it are senders blocked in `post`, in the order in which Go's channel serves them |
| `tickArmed` | `o.tickTimer` has not fired |
| `pc` | where the loop is: before the first tick, at the `select`, waiting for the candidates of a tick, dispatching them, returned |
| `rootDone` | the root context is cancelled |

| Action | Code |
|---|---|
| `StartLoop`, `Receive` in every handler, `Shutdown` | `Run`, `handle`, `shutdown` |
| `OnTick`, `TickFetchFails`, `TickFetched`, `TickDispatches`, `TickDone` | `onTick`, split where it waits for the tracker and at each candidate; `OnTick` includes all of `reconcile` |
| `OnAgentUpdate`, `OnWorkerExit` | `onAgentUpdate`, `onWorkerExit` |
| `RetryIsPutOff`, `RetryReleases`, `RetryDispatches` | the ways through `onRetryTimer`, each in one step; its early return for an event without an entry is in the first, and by `OneWakeupPerRetry` never taken |
| `OnReload`, `OnReloadFails`, `OnRefreshRequest` | `onReload`, `handle` |
| `TickTimerFires`, `RetryTimerFires` | the `AfterFunc` callbacks of `scheduleTick` and `scheduleRetry` |
| `WorkerEmits`, `WorkerReturns` | the goroutine of `dispatchIssue`: `emit`, then one `WorkerExit` |
| `RefreshIsRequested`, `ReloadIsPosted` | the sends with a `default` case |
| `RootIsCancelled`, `SenderGivesUp` | the signal; the other case of the `select` in `post` |

Abstractions, all of data:

* The tracker answers anything at each fetch, and any fetch may fail; once the
  root context is cancelled, all do. Two fetches of one tick may disagree, a
  candidate may come twice, an issue may be missing. The order of candidates,
  and the eligibility rules that read only the returned issue (fields, assignee,
  blockers, labels), are part of that choice and the matter of `Tick`:
  `TickDispatches` reveals one accepted candidate at a time. A failed validation at a tick has the effect of a
  failed fetch.
* Stall detection may pick any worker that is not terminating: `lastActivity`
  is a clock value. So the properties hold for false stalls too.
* Reconciliation is one step though it makes a request between its two parts:
  only the loop reads or writes what it works on. That workers fill the channel
  during a request is seen while `pc` is `"fetch"`.
* Session fields, token totals, the activity list and snapshots are left to
  `Sessions`; the write-only set `Completed` is left out.
* Goroutine identities are drawn from a finite set, the least unused one, and
  may be used again once nothing refers to them.

Bounds: attempts saturate at `MaxAttempt`, a worker has at most `MaxUpdates`
queued updates, at most `MaxPolls` ticks and refreshes are pending when another
refresh is asked for, and a behaviour has at most `MaxReloads` reloads. No
handler behaves differently beyond them: the attempt only feeds the backoff, and
one event more of a kind is handled like the one before.

Definitions called `Bug...` are mutated forms of the definition that follows
them; no action uses them. They are there to see that each property can fail:
putting one in the place of its original must make TLC report a violation.

### Properties

Safety: `ClaimedIsRunningOrRetrying` (no claim leaks, none is dropped early),
`OneWorkerPerIssue`, `EventsReachTheirRun` (an update or exit is never taken for
one of a later run), `OneWakeupPerRetry` (no stale timer event, no lost one). Steps: `SlotsAreRespected`,
`TerminationDecisionStands`, `AttemptsAreCounted`. Liveness:
`TerminatingIsRemoved`, `PollsForever`, `SendersAreServed`, `ShutdownFinishes`.

`ClaimLifecycle.tla` is the abstract specification of what the loop promises to
an issue: unclaimed, running or queued for a retry; one worker at a time; no
more running issues than slots; a claim moves on only when the worker is gone.
`Orchestrator` implements it (`ImplementsLifecycle`), with `claim` computed from
the two maps and `working` from the live goroutines.

### Fairness

`FairSpec` assumes of the Go runtime that the loop, the timers and a sender whose
context ended get their turn (weak fairness), that `select` does not ignore a
cancelled root for ever (strong fairness of `Shutdown`: the choice is random),
and that a worker whose context is cancelled returns in the end (strong fairness:
it may emit a few more updates, but its subprocess is killed and its requests
fail). The last holds as long as no hook leaves a background process that keeps
the hook's output open. Nothing is assumed of workers that were not told to
stop, nor that the tracker answers well: `TickFetchFails` alone keeps `Loop` fair.

## The module `Worker`

`Worker.tla` is the life of one issue: the attempts of `agent.Runner`, the
directories of the workspace manager, and the part of the loop that touches both,
through crashes and restarts.

| Variable | Code |
|---|---|
| `tracker` | the state of the issue in Linear, which anybody may change at any time |
| `dir` | its directory under each value of `workspace.root`: absent, bare (`after_create` has not completed, or a removal failed halfway), ready |
| `spoiled` | ghost: the roots where a crash or a failed removal left it bare |
| `up`, `root` | whether the daemon still cleans up at its start; the root in force |
| `claim`, `entry` | the claim and the termination flags of the running entry |
| `w` | the worker goroutine: where it is, whether its context is cancelled, the root and the state it was dispatched with, the state it has seen last, its turn, and ghosts for its hooks |
| `crashes` | counts restarts |

| Action | Code |
|---|---|
| `Create`, `Reuse`, `CreateFails`, `AfterCreateSucceeds`, `AfterCreateFails` | `CreateForIssue` |
| `HookStarts`, `BeforeRun...`, `AfterRunReturns` | `RunHook`, `afterRun` |
| `TurnStarts`, `TurnSucceeds`, `TurnFails`, `Refreshed`, `RefreshFails` | the turn loop of `Runner.Run` |
| `StartupCleanup`, `StartupWithoutCleanup` | `startupTerminalCleanup` |
| `TickDispatches`, `RetryDispatches`, `RetryReleases`, `Stalls`, `ReconcileTerminal`, `ReconcileInactive`, `OnWorkerExit` | the handlers of the loop, for this issue |
| `OnReload`, `Crash` | a reload that moves the root; the end of the process, by a signal too: `main` returns as soon as the contexts are cancelled |

A hook, a turn or a request takes two steps, so that a cancellation can come
before it starts or while it is under way. Left out: the texts of prompts;
`before_remove`, whose result is ignored; `AssertLaunchCWD`, which holds because
the path comes from the same manager; processes that outlive the daemon. The set
of hooks with a script and the active and terminal states are constants.

Properties: `WorkspaceIsKeptAndReady` (no cleanup meets a live worker, and only a
crash or a failed removal lets an agent start in an unpopulated directory),
`HooksInPairs`, `TurnsKeepTheirState`, `LifecycleBetweenRestarts`,
`TerminatedWorkerIsGone`, `TerminatedLeavesNoWorkspace`.

Bounds: `MaxTurns` is a setting of the program, three turns let the state change
before, between and after turns; two crashes let a spoiled directory be met
again; two roots let a reload come between dispatch and exit.

Fairness: the loop and the worker goroutine go on, hooks and requests end (they
have time limits), a turn ends at least when its context is cancelled. Nothing
is assumed of turns otherwise, of the tracker or of the users.

## The module `ClaudeTurn`

`ClaudeTurn.tla` is one call of `Client.RunTurn`: the subprocess, the goroutine
that scans its output, the one that drains its standard error, the context of the
turn, the read timer, and `consume`.

| Variable | Code |
|---|---|
| `proc`, `written`, `pipe`, `eof` | the subprocess, which may be asleep on a full standard error; the lines it wrote; those nobody has scanned; whether all writers have closed the output |
| `closed` | `cmd.Wait` has closed the reading ends |
| `hand` | what the scanning goroutine offers on `linesCh`: a line, an error, or that it has ended |
| `drain` | the goroutine of `boundedTail.readFrom` |
| `ctx` | `turnCtx`: live, expired, cancelled by the worker, or released by `RunTurn` |
| `timer` | the read timer with `readCh` (`off` is a nil `readCh`; so it says whether an event was seen) |
| `pc` | where `RunTurn` is; in `consume` it looks for a ready case, sleeps in `select`, or has taken a case |
| `malformed`, `announced`, `code` | the locals of `consume`, the error code |
| `emitted`, `handled` | the events emitted; ghost: the lines taken, without the blank ones |

A line is its kind: an init event, another message, a success or error result,
malformed, blank, or beyond the size limit. A `select` that sleeps is given the
first case that becomes ready; one that is reached while several are ready takes
any. Emission belongs to the step that handles a case, and time passes before it:
that stands for `emit` waiting on a full events channel, which is when deadline,
kill and end of stream can all become ready together. Left out: session ids and
`--resume`, the content of events, and the goroutine that writes the prompt,
which ends at the latest when `Wait` closes the pipe.

Properties: `OutcomeIsReported` (one terminal event, last, matching what the
worker is told), `OutcomeMatchesStream` (a result decides; corruption is an
uninterrupted run of malformed lines; a stream is read to its end before it is
said to lack a result; the read timeout hits only turns without events),
`TurnReturns`, `SilentProcessIsGivenUp`.

Two things the model shows that no property forbids, since no document does. The
scanning goroutine is left behind for ever when `consume` returns before the end
of the stream and it holds a line or an error. And a deadline that passes while
`consume` waits in `emit` may be reported as `turn_failed` instead of
`turn_timeout`, the kill having ended the stream.

Bounds: three lines and a limit of two malformed ones are enough for a run that a
good or a blank line interrupts. Every kind can be at every place.

Fairness: goroutines, the timer and the kill get their turn (weak fairness), and a
`select` that is asked again and again does not pass over a ready case for ever
(strong fairness for the context and the timer: the choice is random). The
process may do what it likes, or nothing.

## The module `Watcher`

`Watcher.tla` follows the file from a save to its application.

| Variable | Code |
|---|---|
| `phase` | `Watcher.Run` before its watches exist, watching, returned |
| `saved`, `valid` | the version on disk; the versions that load, parse and validate |
| `notices` | events of fsnotify not yet received |
| `armed`, `loader` | the debounce timer; the goroutines of `reload`, each with what it has read |
| `queue` | the events channel, with the events of others among the reloads |
| `inForce` | the version of `o.cfg` and `o.template` |
| `lost` | ghost: why the version on disk may never be in force |

| Action | Code |
|---|---|
| `WatchStarts`, `WatchFails`, `Trigger`, `NoticesOverflow`, `Stop` | `Run`, `trigger` |
| `DebounceFires`, `LoaderReads`, `LoaderPosts` | the `AfterFunc` and `reload`, between whose reading and posting anything may come |
| `OnReload`, `OnReloadFails` | `onReload` |
| `Save`, `OtherIsPosted`, `LoopHandlesOther` | the user; everything else that uses the channel |

A version is its number; what is in the file does not matter beyond being valid.

Properties: `InvalidIsNeverInForce`; `OnlyKnownLosses` (a valid file is in force
or on its way, unless its events were missed, the channel was full, the loop
refused it or an older reload overtook it: these four and no other);
`SavedFileTakesEffect`.

Bounds: two overlapping goroutines are the least that can overtake each other,
two places in the channel the least that can hold two reloads; three saves.
Fairness: goroutines and the timer get their turn, and other events keep coming.

## The module `Sessions`

`Sessions.tla` is what the daemon shows: the events of the agent client, the
running entries and totals that the loop makes of them, and the snapshots that
HTTP handlers and the status surface ask for.

| Variable | Code |
|---|---|
| `clock` | the wall clock; `time.Now().UTC()` drops the monotonic reading, so that it may go back |
| `agent` | the worker goroutine of each issue: its `Session`, its turn, and what it has to post; ghosts for what it has spent and said |
| `events` | the channel, without blocked senders: an agent that waits in `post` still has the event in `out` |
| `session`, `retrying` | the `Session` and `StartedAt` of each running entry; the keys of `RetryAttempts` |
| `totals` | `ClaudeTotals` |
| `reported` | ghost: tokens of the results the agents have read |
| `tick` | the poll timer, or its event in the channel |
| `rootCtx`, `up` | the field that `Run` assigns: an interface of two words, so `torn` between them; whether `Run` has returned |
| `requests`, `replies` | snapshot requests, and the reply channel of each |
| `observer`, `answer` | where each caller of `Snapshot` is; what it was given last |

| Action | Code |
|---|---|
| `HandlesInit`, `HandlesMessage`, `HandlesResult`, `TurnFails` | `handleEvent` and the error paths of `consume`, by what they emit |
| `TurnStarts`, `RunEnds`, `Posts` | the turn loop of `Run`, `post` |
| `Dispatches`, `RetryReleases`, `OnAgentUpdate`, `OnWorkerExit`, `OnTick`, `OnSnapshotRequest` | the handlers of the loop, as far as they touch sessions and totals |
| `Asks`, `Waits`, `Receives`, `TimesOut`, `SeesShutdown` | the two `select`s of `Snapshot`; each reads `rootCtx` again |
| `RunSetsContext`, `Signalled`, `RunReturns`, `TimePasses` | `Run`, the signal, time |

The texts of a run are numbered, its tokens are one sum, and a session id is the
run and turn that announced it. When runs are dispatched and why they end is
open here, so the properties hold for every schedule `Orchestrator` allows. A
reader that meets the torn context calls a method on a value whose type is new
and whose data is old: it panics, and `net/http` aborts the request. (The status
surface has no such net, but it asks for the first time after five seconds.)

Properties: `ReportsAreKept` (tokens counted once, on every path; the newest texts
without a gap; the id and turn of the run itself), `SecondsFollowTheClock` (ended
and live seconds add up, also when the clock is set back),
`StalledIsSilentOrWaiting`, `AnswersAreFresh`, `ObserverIsAnswered`.

Two things they do not promise, since the code does not. A clock that is set
back takes the seconds shown back with it, and one that is set forward makes a
silent worker stalled early. And a worker that has reported may be stopped as
stalled while its updates wait behind the tick: that is the second case of
`StalledIsSilentOrWaiting`.

Bounds: one issue with two runs, of two turns each, is the least that lets events
of one be taken for the other's; a channel of two blocks agents; a window of one
text drops some; an observer with two requests can leave a reply behind.
`MaxEffort` bounds the runs, lines, requests and moves of the clock of a behaviour
together. Fairness: the loop, `post` and observers get their turn; nothing is
assumed of agents or of time, for a time limit may fire at any moment.

## The module `Tick`

`Tick.tla` gives the tracker its contents: four issues with states, priorities,
dates, assignees, labels and blockers, which users move while the loop fetches
them page by page.

| Variable | Code |
|---|---|
| `node` | the issues in Linear, as `issueNode` has them |
| `running`, `claimed`, `retrying` | the keys of the three maps, with the state of a running issue |
| `call` | the fetch the loop waits for: whom it is for, the cursor, the issues normalized so far |
| `truth` | ghost: which issues matched the filter throughout the fetch, and which were, or were not, ready at some moment of it |

| Action | Code |
|---|---|
| `TickBegins`, `RetryBegins` | `onTick` after `reconcile`; `onRetryTimer`, which takes the entry first |
| `GetsPage`, `FetchFails` | one round of `paginateWith` with `normalizeIssue`; an error of `do`, or a page without its cursor |
| `OnTick` | the sort and the walk of `onTick`, one step: nobody else touches what it reads |
| `RetryReleases`, `RetryIsPutOff`, `RetryDispatches` | the ways through `onRetryTimer` |
| `OnWorkerExit`, `Moves` | exits between two fetches; users and agents |

A text is one of a few spellings with its normal form; a priority is counted in
halves so that 1.5 has a number, and what is missing is sorted as `MaxInt`, which
no priority or date reaches. Of Linear the model assumes that a connection
has a fixed order, that a page follows its cursor, and that the state of a
blocker is the one at the moment its page is sent. The filter compares names as
the workflow file writes them, and what arrives is normalized: an issue whose
state differs from the file in case is never fetched, though `isActiveState`
would take it.

Properties: `FetchIsExact`; `SlotsGoInOrder`, against the order of `SPEC.md`
stated on its own (`MoreUrgent`); `DecisionsFollowTheTracker`, against readiness
stated on the tracker itself (`Ready`). The last is as much as can be had: an
issue may be dispatched that was ready when its page was sent and is not now.

Bounds: pages of two for four issues, so that a move can meet a fetch before,
between and after its pages; two slots with a limit of one for a state; three
fetches, two moves. The trackers to begin with hold each special value beside an
ordinary one. No liveness here: that fetches go on is `PollsForever`.

## The modules `Settings` and `Prompt`

`Settings.tla` follows a setting from the file to the worker that uses it: YAML
values and their coercion, `config.New` with its defaults and errors, start and
reload, the routing of a dispatch by the state of its issue, the prompts of its
turns, the delay of a retry.

| Variable | Code |
|---|---|
| `file`, `promptFile` | `WORKFLOW.md` and the file that the `prompt` of a state names |
| `effective` | `o.cfg` and `o.template` |
| `source` | ghost: the two files as they were when they were read |
| `worker` | the settings of the last dispatch, its turn and prompt |
| `retry` | the attempt and delay of an issue that keeps failing |

| Action | Code |
|---|---|
| `Starts`, `Reloads` | `run` of `main`, `reload` and `onReload`; `Configs` is `config.New`, `ValidateDispatch` its namesake |
| `Dispatches`, `Continues` | the factory of the runner with the `ForState` functions; `buildTurnPrompt` |
| `RetryIsQueued`, `ContinuationIsQueued` | `scheduleRetry` |
| `SavesWorkflow`, `SavesPrompt` | the user |

`Configs` is a set because a Go map has no order: of two keys that are the same
state in different spellings either may be the one that is kept. Texts count as
trimmed, but for those that are blank.

`Prompt.tla` holds the check for unknown variables. A template is the sequence of
its tags with the names they read and bind; the Liquid engine is external, and
modelled by which names it would read without a value (`ReadsUnbound`), once with
the bodies of loops and conditions evaluated and once without. That only tags
with an expression read names is assumed of templates (`IsTemplate`).

Properties: `RoutingFollowsTheFile` (each setting from the entry for the state,
under any spelling, else from the file; never a mixture of two entries; the
guidance of later turns in the mode of the first prompt), `PromptIsStrict` (what the
check lets through, and what it refuses), `RetriesBackOff` (doubling up to a cap
that reloads may change, zero only if the cap is).

Bounds: twenty files, each of which differs from an ordinary one where the code
decides something, four contents of the prompt file, and two saves of either, so
that a worker can be older than the file; attempts to 3, which is beyond one cap
and below another.

`RoutingFollowsTheFile` has an exception that is worth knowing: a prompt file that
is empty counts as none, and the state falls back to the body of the workflow
file. And an edit of a prompt file is noticed by nobody until the workflow file
is saved too.

## Runs

| Run | Instance | Shows |
|---|---|---|
| `channel` | two issues, a channel of two, one active and one terminal state, stalls, attempts to 2, shutdown; 1.7 M states | the five invariants and the two step properties about termination and attempts, with senders blocked, exits racing ticks, and retries racing dispatch |
| `slots` | four tracker states, a limit of one for `todo`, reloads between two slots and one that also take an active state away; 2.5 M states | no dispatch oversubscribes a limit; the loop implements `ClaimLifecycle` |
| `live` | one issue, a channel of one, so that every other event blocks its sender; two polls, a reload | the liveness properties |
| `worker` | two active states, a terminal and another one, two roots, three turns, two crashes; 153 k states | directories, hooks and states of attempts; the claim between restarts; terminated workers go, and leave no directory |
| `turn` | three lines of any kind, two malformed ones end a turn; 0.6 M states | the outcome agrees with lines and events whoever is first; the turn returns; a silent process is given up |
| `watch` | three saves, two reloads at a time, a channel of two; 14 k states | only valid files come into force, and those left alone do, but for four losses |
| `sessions` | one issue, two runs of two turns, a channel of two, an observer with two requests; 1.4 M states | reports, seconds, stalls and answers, with updates queued, requests given up, the clock set back and the daemon stopping |
| `tick` | four trackers of four issues, pages of two, two slots; 87 k states | fetches are exact, slots go in order, decisions agree with the tracker |
| `settings` | twenty workflow files, four prompt files, two saves; 0.6 M states | routing, strict prompts, backoff |
| `labels`, `watch_overtaken`, `worker_terminal` | small instances | the divergences below |

Why these are enough to be interesting: with two issues and a channel of two,
both workers, both retry timers and a tick compete for the channel, and each
kind of sender blocks. Two slots with a limit of one in a state let a reload
lower the maximum below the number running, and reconciliation push a state
above its limit. Three goroutine identities leave one for a second run of an
issue while an event of the first is queued.

The issues are interchangeable, and the runs of `Orchestrator` without liveness
use that symmetry.
Deadlock is checked where a finished system has a step of its own (`Terminated`
in `Orchestrator`, `Returned` in `ClaudeTurn`) or never finishes. `sessions`,
`tick` and `settings` do not check it: a daemon that was stopped, or that refuses
its file, does nothing more, and a behaviour whose bounds are used up ends too.

## Documented behaviour the code does not have

* `labels`: `SPEC.md:373` wants an issue to carry every required label to
  dispatch *or continue*, and `SPEC.md:1239` wants a refresh to stop work when a
  label is removed. `reconcile` stores the new labels and nothing looks at them
  until the next dispatch (`reconcile.go:60`).
* `watch_overtaken`: `SPEC.md:587` wants the file to be read and applied again
  when it changes. Each debounce runs `reload` on a goroutine of its own
  (`watcher.go:50`); an older reload that posts last stays in force.
* `worker_terminal`: `SPEC.md:838` wants the workspace of an issue that turns
  terminal while it is running cleaned up. When the worker sees it first, after a
  turn (`runner.go:142`), it exits normally and the retry releases the claim
  without cleanup (`orchestrator.go:381`).

Others, met while modelling, without a run of their own:

* `docs/GO_DESIGN.md:850` says that a signal "cancels the orchestrator loop and
  drains workers". `Run` returns right after cancelling them
  (`orchestrator.go:93`, `:469`), and `main` returns.
* `docs/GO_DESIGN.md:282` says that a missed filesystem event is corrected on the
  next tick. `onTick` validates the configuration it has in memory; only the
  watcher reads the file.
* `SPEC.md:411` wants `after_run` after cancellations too. `afterRun` hands the
  cancelled context of the worker to the hook (`runner.go:190`); `HooksInPairs`
  makes the exception.
* `SPEC.md:524` says that unknown variables must fail rendering. The check passes
  over names that are words of Liquid, such as `limit` (`strict.go:167`), over the
  end of a range, which follows a dot (`strict.go:173`), and over locals and loop
  objects such as `forloop` (`strict.go:15`) outside their scope; all show as
  nothing. `PromptIsStrict` names them.
* `SPEC.md:796` prefers priorities 1 to 4 and sorts unknown ones last. A priority
  of 0, which is Linear's "no priority", sorts before 1 (`orchestrator.go:513`).
* `SPEC.md:256` calls the due time of a retry monotonic; `DueAtMs` is of the wall
  clock. It is only shown.

`docs/GO_DESIGN.md:713` calls refreshes coalesced, but every request is an event
of its own and schedules another tick, also behind a queued one
(`orchestrator.go:116`). `SPEC.md:1068` says that the subprocess exits at the end
of its turn, but `RunTurn` kills it as soon as it has read the result
(`client.go:181`). `SPEC.md:1075` wants standard error drained, but a line beyond
1 MB ends the draining (`tail.go:19`). A turn that starts with a cancelled context is
reported as `claude_not_found` (`client.go:137`).

## Proofs

`OrchestratorProofs.tla` proves, for all sets of issues, states and
configurations, every channel capacity and every bound, from the three
assumptions of `Orchestrator` (identities are numbers, configurations are well
formed, bounds are natural numbers and the channel holds at least one event):

| Theorem | Says |
|---|---|
| `TypeCorrect` | `Spec => []TypeOK` |
| `ClaimsAreExact` | `Spec => []ClaimedIsRunningOrRetrying` |
| `RunsCorrespond` | `Spec => []RunsInv` |
| `EventsAreNotMixedUp` | `Spec => []EventsReachTheirRun` |
| `OneWorker` | `Spec => []OneWorkerPerIssue` |

`ClaimedIsRunningOrRetrying` is inductive by itself: every action that moves an
issue goes through dispatch, `ScheduleRetry` or a release (`ClaimsMove`).

`OneWorkerPerIssue` and `EventsReachTheirRun` are not. An exit that is handled
removes the entry its issue has *now*; to know that it is the entry of the run
that sent it, one needs that every queued event of a run finds its entry, that a
run posts nothing after its exit and has only one, and that entries do not share
runs. `RunsInv` says this. Its proof looks at what a step does to the channel
rather than at the handlers: events are dropped from the head (`DroppedRuns`),
appended (`AppendedRuns`), the exit of a run that ends is posted or lost
(`ExitPostedRuns`, `ExitLostRuns`), a sender gives up (`RemovedRuns`), an exit
is handled (`ExitHandledRuns`), or an issue is dispatched (`DispatchedRuns`);
`NextRuns` puts every action into one of these cases. That a retry is dispatched
only for an issue without an entry is where `ClaimsAreExact` is needed.

`RunsInv` holds in the `channel` instance as well.

About retries, slots and the abstract specification the module proves as well:

| Theorem | Says |
|---|---|
| `SlotsRespected` | `Spec => SlotsAreRespected` |
| `TerminationStands` | `Spec => TerminationDecisionStands` |
| `Refines` | `Spec => ImplementsLifecycle` |
| `RetriesAreWokenOnce` | `Spec => []OneWakeupPerRetry` |
| `AttemptsSurvive` | `Spec => AttemptsAreCounted` |

The other proof modules, each for all values of the constants of its module,
under the assumption declared there:

| Module | Theorem | Says |
|---|---|---|
| `WorkerProofs` | `WorkerTypeCorrect`, `WorkspaceIsSafe`, `HooksArePaired`, `TurnsAreBound` | the four invariants of `Worker` |
| | `WorkerRefines` | `Spec => LifecycleBetweenRestarts` |
| `ClaudeTurnProofs` | `TurnTypeCorrect`, `OutcomeIsRight`, `OutcomeIsTold` | the three invariants of `ClaudeTurn` |
| `WatcherProofs` | `WatcherTypeCorrect`, `LastGoodIsKept`, `NothingElseIsLost` | the three invariants of `Watcher` |
| `SessionsProofs` | `RepliesMatch` | `Spec => []IInv`: the types of `Sessions`, and its reply channels |
| | `AnswersFollowRequests` | `Spec => AnswersAreFresh` |
| | `SessionInvariant` | `Spec => [](IInv /\ BothInv)`: with it, what queues hold and sessions show |
| | `SessionsReport` | `Spec => []ReportsAreKept` |
| | `SecondsAddUp` | `Spec => SecondsFollowTheClock` |
| | `StalledWorkersAreSilent` | `Spec => StalledIsSilentOrWaiting` |
| `TickProofs` | `TickInvariant` | `Spec => []IInv`: the types of `Tick`, its pages and its ghost |
| | `FetchesAreExact` | `Spec => []FetchIsExact` |
| | `TickDecidesOnTheTracker` | `Spec => DecisionsFollowTheTracker` |
| | `TickServesTheUrgentFirst` | `Spec => SlotsGoInOrder` |
| `SettingsProofs` | `RoutingIsOfTheFile` | `Spec => []RoutingFollowsTheFile` |
| | `PromptsAreStrict` | `Spec => []PromptIsStrict` |
| | `RetriesDouble` | `Spec => RetriesBackOff` |

* `Refines` needs `RunsCorrespond`: an exit may move the claim only because the
  goroutine that sent it is gone, and a dispatch may start one because none is
  left. That the slots of the abstract specification suffice needs that the
  running entries are finitely many (`FinitelyManyRunning`).
* `WorkspaceIsSafe` needs to know where a worker and its claim go together
  (`Bookkeeping`), so that no cleanup is enabled while the worker lives, and that
  a bare directory is explained by `spoiled` or by the worker that is filling it
  (`BareIsExplained`). `HooksArePaired` and `TurnsAreBound` follow from what each
  place in `Run` says about the attempt so far (`AttemptInv`).
* `OutcomeIsRight` needs that `malformed` is the length of the run at the end of
  the lines taken (`MalformedRun`), that a scanning goroutine that has ended left
  nothing in the pipe unless a read failed (`ScannedToEnd`), and that an armed
  timer has seen no event (`NothingSeen`). `OutcomeIsTold` uses a statement about
  sequences that one more event preserves (`TellsMore`), applied twice for a
  result that also announces the session.
* `InvalidIsNeverInForce` and `OnlyKnownLosses` are inductive together with the
  types.
* `RetriesAreWokenOnce` rests on `WakeInv`, which says the same without
  counting: no wake-up is queued for an issue without a retry or with an armed
  timer, and otherwise at most one, and one unless the root is cancelled. Like
  `RunsInv` it is proved by what a step does to the channel (`ShiftKeeps`,
  `AppendKeeps` and their like). That no second
  timer is armed while an event is on its way needs `ClaimsAreExact`: an exit
  schedules a retry for an issue that has none, and otherwise only the retry's
  own event replaces or removes it.
* `AnswersFollowRequests` needs that reply channels are not reused: each holds at
  most one snapshot, of a request that was made, and its tokens are at least
  those the loop had counted when its asker asked.
* `RoutingIsOfTheFile` needs that the settings in force are one of the results of
  `New` for the files they were read from, and those of the worker the routing of
  such settings. Keys that meet after trimming and lowering are a choice of
  `Kept`, and the proof is about every choice.
* `FetchesAreExact` needs that the pages so far are exact up to the cursor
  (`PagesAreExact`): an issue that has matched all the time is behind the cursor
  and in them, or still to come. `TickDecidesOnTheTracker` needs that a candidate
  was what it looks like at some moment of the fetch (`CandidatesWereTrue`), with
  the ghost kept through every move (`TruthIsKept`), and that on a fetched issue
  `IsEligible` and the tracker's `Ready` agree (`ReadyIsEligible`).
* `TickServesTheUrgentFirst` has three parts. What `InOrder` gives lists a set in
  its order (`InOrderLists`), so that a sorted list is a rearrangement in which
  nothing follows what it comes before (`SortForDispatchSorts`). The walk over it
  only adds running issues, one at a time (`WalkGrows`). And an eligible candidate
  it passes over found its state full or no slot at all, which stays so for all
  who come after it (`WalkDispatches`, `SlotsFill`).
* `SessionsReport` relates what a session shows to what its goroutine has said
  and to the messages between the two. `QueueInv` says that these are of its own
  run and end with the exit, `KeptInv` that tokens shown and on their way are
  those spent (and over all issues, with the totals, those reported), that the
  texts on their way continue those shown, and that the last update, or else the
  session, says how the goroutine stands. What the channel holds for an issue is
  a filter, a fold; `SiftExists` makes a walk of it, and what a step does to it
  follows: a message appended, taken from the head, or nobody's. The sums over it
  are split, continued and changed at one place by the lemmas of `Induction`.
* `SecondsAddUp` needs no more than the types and sums: a session that starts
  adds nothing, and one that ends moves its seconds to the totals.
  `StalledWorkersAreSilent` reads `KeptInv`: without an update on its way, the
  last activity of a session is that of its goroutine.
* `PromptsAreStrict` is about a fold as well: from a state of the engine whose
  unbound names are excused, every tag of a known template leads to another
  (`EvaluatedStays`).
* `RetriesDouble` needs a bound on the last delay that does not speak of the cap
  (`RetryInv`), since a reload may have changed it; that powers of two double is
  counted on sets of subsets (`PowerDoubles`).

The induction theorems of the library take a property as a parameter, which the
provers cannot instantiate. `Induction.tla` derives from the well-foundedness of
`<` on numbers what the proofs need instead, with properties that are sets: for
numbers and for finite sets, then that walks, folds and sums are defined, where
TLA+ only has a function chosen to satisfy an equation.

All safety and step properties of the passing runs are proved. Only
model-checked are the liveness properties: `TerminatingIsRemoved`, `PollsForever`,
`SendersAreServed`, `ShutdownFinishes`, `TerminatedWorkerIsGone`,
`TerminatedLeavesNoWorkspace`, `TurnReturns`, `SilentProcessIsGivenUp`,
`SavedFileTakesEffect`, `ObserverIsAnswered`. They rest on `ENABLED` and fairness,
which the provers do not handle. What the environment is assumed to do (Linear's
connections, Liquid's engine, the file system) is part of the models, not of the
theorems.

## What is left out

See `components` in `PROJECT.json` for each part. In short:

* Functions from texts to texts without state that others see: the splitting of
  front matter and its YAML, rendered prompts, the dashboard and the bodies of
  HTTP answers, sanitized keys and containment checks, path expansion, log lines.
* The `linear_graphql` tool with its MCP server, a program of its own that
  answers one request after the other and keeps nothing. Its scanner counts the
  operations of a document; what is hard about it is characters.
* Rate limits, which are stored and shown as they come.
* Real time. Timers fire in any order and at any moment, so that a reload storm
  that puts polling off for ever (`orchestrator.go:415`), or a poll interval of
  zero, which makes the loop a hot one, has nothing to violate here.
* An issue that the tracker no longer returns at all (`reconcile.go:50`): it is
  neither terminal nor inactive, and its worker is never told to stop.
* Processes that outlive the daemon, or the shell that was killed for them.

## Plan

In this order; each module gets its runs, its mutants and its theorems before
the next one is begun.

1. The attempt of `Worker` with the turn of `ClaudeTurn` inside, and `--resume`.
2. That `Sessions` and `Tick` implement `ClaimLifecycle` as far as they keep claims.

Done so far, in this order: `Orchestrator` with `ClaimLifecycle`, `Watcher`,
`Worker` with the workspaces, `ClaudeTurn`, and their proofs; `Sessions`, `Tick`,
`Settings` with `Prompt`; the proofs about retries, answers and routing; `Induction`
with the proofs about sessions, ticks, prompts and backoff.
