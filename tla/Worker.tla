------------------------------- MODULE Worker -------------------------------
(***************************************************************************)
(* One issue: the attempts of internal/agent at it, its directories of     *)
(* internal/workspace, and what the loop of Orchestrator does to both,     *)
(* through restarts of the daemon.                                         *)
(*                                                                         *)
(* A hook, a turn or a request is two steps, for its context may be         *)
(* cancelled before it starts or while it is under way.                    *)
(***************************************************************************)
EXTENDS Integers

CONSTANTS
    States,     \* states of an issue in the tracker
    Active,     \* tracker.active_states
    Terminal,   \* tracker.terminal_states
    Roots,      \* values of workspace.root
    Scripts,    \* hooks that have a script
    MaxTurns,   \* agent.max_turns
    MaxCrashes  \* bound: restarts in a behaviour

Hooks == {"after_create", "before_run", "after_run"}

ASSUME WorkerAssumption ==
    /\ Active \subseteq States /\ Terminal \subseteq States
    /\ Scripts \subseteq Hooks
    /\ MaxTurns \in Nat \ {0} /\ MaxCrashes \in Nat

VARIABLES
    tracker,    \* state of the issue in the tracker
    dir,        \* its directory under each root: "absent", "bare" while its
                \* content is not complete, or "ready"
    spoiled,    \* ghost: roots where a crash or a failed removal left it bare
    up,         \* the daemon is "starting" or "running"
    root,       \* root of the workspace manager in force
    claim,      \* as in ClaimLifecycle
    entry,      \* termination flags of the running entry
    w,          \* the worker goroutine and its context, until its exit is handled
    crashes

disk == <<dir, spoiled>>
loop == <<up, root, claim, entry>>
vars == <<tracker, disk, loop, w, crashes>>

NoWorker == [pc |-> "none"]
Worker == [
    pc: {"create", "after_create", "before_run", "turn", "refresh", "after_run", "done"},
    busy: BOOLEAN,          \* a script, a turn or a request has been started
    cancelled: BOOLEAN,
    root: Roots,
    state: Active,          \* dispatchState
    seen: States,           \* issue.State
    turn: 1..MaxTurns,
    began: BOOLEAN,         \* ghost: before_run has succeeded
    after: {"none", "missed", "run"},   \* ghost: what became of after_run
    normal: BOOLEAN]        \* Run returns nil

NoFlags == [terminating |-> FALSE, cleanup |-> FALSE, release |-> FALSE]
Flags == [terminating: BOOLEAN, cleanup: BOOLEAN, release: BOOLEAN]

-----------------------------------------------------------------------------
(* The tracker, whose users are people and the agents themselves *)

TrackerMoves(s) ==
    /\ tracker' = s
    /\ UNCHANGED <<disk, loop, w, crashes>>

-----------------------------------------------------------------------------
(* The workspace manager *)

\* os.RemoveAll, which may fail halfway.
Remove(r, ok) ==
    /\ dir' = [dir EXCEPT ![r] = IF ok \/ @ = "absent" THEN "absent" ELSE "bare"]
    /\ spoiled' = IF dir'[r] = "absent" THEN spoiled \ {r} ELSE spoiled \cup {r}

Becomes(pc) == w' = [w EXCEPT !.pc = pc, !.busy = FALSE]
WorkerOnly == UNCHANGED <<tracker, disk, loop, crashes>>

\* RunHook under a cancelled context fails without having run the script; a
\* script that runs when the context is cancelled may just have ended.
HookStarts(h) ==
    /\ w.pc = h /\ h \in Scripts
    /\ ~w.busy /\ ~w.cancelled
    /\ w' = [w EXCEPT !.busy = TRUE, !.after = IF h = "after_run" THEN "run" ELSE @]
    /\ WorkerOnly

HookSucceeds(h) == w.pc = h /\ (w.busy \/ h \notin Scripts)
HookFails(h) == w.pc = h /\ h \in Scripts /\ (w.busy \/ w.cancelled)

\* CreateForIssue: an existing directory is used as it is.
Reuse ==
    /\ w.pc = "create"
    /\ dir[w.root] # "absent"
    /\ Becomes("before_run")
    /\ WorkerOnly

Create ==
    /\ w.pc = "create"
    /\ dir[w.root] = "absent"
    /\ IF "after_create" \in Scripts
       THEN dir' = [dir EXCEPT ![w.root] = "bare"] /\ Becomes("after_create")
       ELSE dir' = [dir EXCEPT ![w.root] = "ready"] /\ Becomes("before_run")
    /\ UNCHANGED <<tracker, spoiled, loop, crashes>>

CreateFails ==
    /\ w.pc = "create"
    /\ Becomes("done")
    /\ WorkerOnly

AfterCreateSucceeds ==
    /\ HookSucceeds("after_create")
    /\ dir' = [dir EXCEPT ![w.root] = "ready"]
    /\ Becomes("before_run")
    /\ UNCHANGED <<tracker, spoiled, loop, crashes>>

BugAfterCreateFails ==
    /\ HookFails("after_create")
    /\ Becomes("before_run")
    /\ WorkerOnly

AfterCreateFails ==
    /\ HookFails("after_create")
    /\ \E ok \in BOOLEAN : Remove(w.root, ok)
    /\ Becomes("done")
    /\ UNCHANGED <<tracker, loop, crashes>>

-----------------------------------------------------------------------------
(* Run *)

BeforeRunSucceeds ==
    /\ HookSucceeds("before_run")
    /\ w' = [w EXCEPT !.pc = "turn", !.busy = FALSE, !.began = TRUE]
    /\ WorkerOnly

BeforeRunFails ==
    /\ HookFails("before_run")
    /\ Becomes("done")
    /\ WorkerOnly

TurnStarts ==
    /\ w.pc = "turn"
    /\ ~w.busy /\ ~w.cancelled
    /\ w' = [w EXCEPT !.busy = TRUE]
    /\ WorkerOnly

\* The request that follows starts at once.
TurnSucceeds ==
    /\ w.pc = "turn"
    /\ w.busy
    /\ w' = [w EXCEPT !.pc = "refresh", !.busy = ~w.cancelled]
    /\ WorkerOnly

BugTurnFails ==
    /\ w.pc = "turn"
    /\ Becomes("done")
    /\ WorkerOnly

\* Also: no prompt, or no process.
TurnFails ==
    /\ w.pc = "turn"
    /\ Becomes("after_run")
    /\ WorkerOnly

RefreshFails ==
    /\ w.pc = "refresh"
    /\ Becomes("after_run")
    /\ WorkerOnly

BugRefreshed ==
    /\ w.pc = "refresh"
    /\ w.busy
    /\ \E s \in {tracker, w.seen} :
         w' = IF s \in Active /\ w.turn < MaxTurns
              THEN [w EXCEPT !.pc = "turn", !.busy = FALSE, !.seen = s, !.turn = @ + 1]
              ELSE [w EXCEPT !.pc = "after_run", !.busy = FALSE, !.seen = s, !.normal = TRUE]
    /\ WorkerOnly

BugTurnLimit ==
    /\ w.pc = "refresh"
    /\ w.busy
    /\ \E s \in {tracker, w.seen} :
         w' = IF s \in Active /\ s = w.state /\ w.turn <= MaxTurns
              THEN [w EXCEPT !.pc = "turn", !.busy = FALSE, !.seen = s, !.turn = @ + 1]
              ELSE [w EXCEPT !.pc = "after_run", !.busy = FALSE, !.seen = s, !.normal = TRUE]
    /\ WorkerOnly

\* The answer may leave the issue out; then it is as it was.
Refreshed ==
    /\ w.pc = "refresh"
    /\ w.busy
    /\ \E s \in {tracker, w.seen} :
         w' = IF s \in Active /\ s = w.state /\ w.turn < MaxTurns
              THEN [w EXCEPT !.pc = "turn", !.busy = FALSE, !.seen = s, !.turn = @ + 1]
              ELSE [w EXCEPT !.pc = "after_run", !.busy = FALSE, !.seen = s, !.normal = TRUE]
    /\ WorkerOnly

\* An error of after_run is only logged.
AfterRunReturns ==
    /\ HookSucceeds("after_run") \/ HookFails("after_run")
    /\ w' = [w EXCEPT !.pc = "done", !.busy = FALSE,
                      !.after = IF w.busy \/ "after_run" \notin Scripts THEN "run" ELSE "missed"]
    /\ WorkerOnly

\* Everything a worker does but for ending a turn.
Run ==
    \/ \E h \in Hooks : HookStarts(h)
    \/ Reuse \/ Create \/ CreateFails
    \/ AfterCreateSucceeds \/ AfterCreateFails
    \/ BeforeRunSucceeds \/ BeforeRunFails
    \/ TurnStarts
    \/ Refreshed \/ RefreshFails
    \/ AfterRunReturns

-----------------------------------------------------------------------------
(* The loop *)

\* before_remove cannot change what happens: its errors are only logged.
StartupCleanup ==
    /\ up = "starting"
    /\ up' = "running"
    /\ tracker \in Terminal
    /\ \E ok \in BOOLEAN : Remove(root, ok)
    /\ UNCHANGED <<tracker, root, claim, entry, w, crashes>>

\* The issue is not terminal, or the fetch fails.
StartupWithoutCleanup ==
    /\ up = "starting"
    /\ up' = "running"
    /\ UNCHANGED <<tracker, disk, root, claim, entry, w, crashes>>

DispatchIssue ==
    /\ claim' = "Running"
    /\ entry' = NoFlags
    /\ w' = [pc |-> "create", busy |-> FALSE, cancelled |-> FALSE, root |-> root,
             state |-> tracker, seen |-> tracker, turn |-> 1,
             began |-> FALSE, after |-> "none", normal |-> FALSE]
    /\ UNCHANGED <<tracker, disk, up, root, crashes>>

IsEligible == tracker \in Active \ Terminal

BugTickDispatches ==
    /\ up = "running"
    /\ IsEligible
    /\ DispatchIssue

TickDispatches ==
    /\ up = "running"
    /\ claim = "Unclaimed"
    /\ IsEligible
    /\ DispatchIssue

RetryDispatches ==
    /\ claim = "RetryQueued"
    /\ IsEligible
    /\ DispatchIssue

RetryReleases ==
    /\ claim = "RetryQueued"
    /\ ~IsEligible
    /\ claim' = "Unclaimed"
    /\ UNCHANGED <<tracker, disk, up, root, entry, w, crashes>>

BugTerminate(cleanup, release) ==
    /\ claim = "Running"
    /\ ~entry.terminating
    /\ entry' = [terminating |-> TRUE, cleanup |-> cleanup, release |-> release]
    /\ UNCHANGED <<tracker, disk, up, root, claim, w, crashes>>

Terminate(cleanup, release) ==
    /\ claim = "Running"
    /\ ~entry.terminating
    /\ entry' = [terminating |-> TRUE, cleanup |-> cleanup, release |-> release]
    /\ w' = [w EXCEPT !.cancelled = TRUE]
    /\ UNCHANGED <<tracker, disk, up, root, claim, crashes>>

Stalls == Terminate(FALSE, FALSE)

ReconcileTerminal ==
    /\ tracker \in Terminal
    /\ Terminate(TRUE, TRUE)

ReconcileInactive ==
    /\ tracker \notin Active \cup Terminal
    /\ Terminate(FALSE, TRUE)

BugOnWorkerExit ==
    /\ w.pc = "done"
    /\ claim' = IF entry.release THEN "Unclaimed" ELSE "RetryQueued"
    /\ entry' = NoFlags
    /\ w' = NoWorker
    /\ UNCHANGED <<tracker, disk, up, root, crashes>>

\* The directory is removed under the root of today.
OnWorkerExit ==
    /\ w.pc = "done"
    /\ IF entry.cleanup
       THEN \E ok \in BOOLEAN : Remove(root, ok)
       ELSE UNCHANGED disk
    /\ claim' = IF entry.release THEN "Unclaimed" ELSE "RetryQueued"
    /\ entry' = NoFlags
    /\ w' = NoWorker
    /\ UNCHANGED <<tracker, up, root, crashes>>

OnReload(r) ==
    /\ up = "running"
    /\ root' = r
    /\ UNCHANGED <<tracker, disk, up, claim, entry, w, crashes>>

\* Only the directories survive; the configuration is read anew.  A signal
\* ends no better: main returns as soon as the contexts are cancelled.
Crash(r) ==
    /\ crashes < MaxCrashes
    /\ crashes' = crashes + 1
    /\ up' = "starting" /\ root' = r /\ claim' = "Unclaimed" /\ entry' = NoFlags
    /\ w' = NoWorker
    /\ spoiled' = IF w.pc = "after_create" THEN spoiled \cup {w.root} ELSE spoiled
    /\ UNCHANGED <<tracker, dir>>

Loop ==
    \/ StartupCleanup \/ StartupWithoutCleanup
    \/ TickDispatches \/ RetryDispatches \/ RetryReleases
    \/ ReconcileTerminal \/ ReconcileInactive
    \/ OnWorkerExit

-----------------------------------------------------------------------------
Init ==
    /\ tracker \in States
    /\ dir = [r \in Roots |-> "absent"]
    /\ spoiled = {}
    /\ up = "starting"
    /\ root \in Roots
    /\ claim = "Unclaimed"
    /\ entry = NoFlags
    /\ w = NoWorker
    /\ crashes = 0

Next ==
    \/ \E s \in States : TrackerMoves(s)
    \/ Run \/ TurnSucceeds \/ TurnFails
    \/ Loop \/ Stalls
    \/ \E r \in Roots : OnReload(r) \/ Crash(r)

Spec == Init /\ [][Next]_vars

\* The loop and the worker go on; hooks and requests end, for they have time
\* limits; a turn ends at least when its context is cancelled.
FairSpec ==
    /\ Spec
    /\ WF_vars(Run)
    /\ WF_vars(w.pc = "turn" /\ w.cancelled /\ TurnFails)
    /\ WF_vars(StartupCleanup \/ StartupWithoutCleanup)
    /\ WF_vars(TickDispatches \/ RetryDispatches \/ RetryReleases)
    /\ WF_vars(ReconcileTerminal \/ ReconcileInactive)
    /\ WF_vars(OnWorkerExit)

-----------------------------------------------------------------------------
TypeOK ==
    /\ tracker \in States
    /\ dir \in [Roots -> {"absent", "bare", "ready"}]
    /\ spoiled \subseteq Roots
    /\ up \in {"starting", "running"}
    /\ root \in Roots
    /\ claim \in {"Unclaimed", "Running", "RetryQueued"}
    /\ entry \in Flags
    /\ w \in {NoWorker} \cup Worker
    /\ crashes \in 0..MaxCrashes

\* From its creation to the exit of the worker nobody removes the directory,
\* and hooks and agents other than after_create meet it ready, unless a crash
\* or a failed removal spoiled it.
WorkspaceIsKeptAndReady ==
    w.pc \in {"after_create", "before_run", "turn", "refresh", "after_run"} =>
        /\ dir[w.root] # "absent"
        /\ w.pc # "after_create" /\ dir[w.root] = "bare" => w.root \in spoiled

\* after_run belongs to a successful before_run: none without the other, and
\* its script is run unless the worker was cancelled.
HooksInPairs ==
    w.pc = "done" =>
        /\ w.began <=> w.after # "none"
        /\ w.after = "missed" => w.cancelled

\* The prompt of a worker is that of one state: no turn begins once it has
\* seen the issue in another one.
TurnsKeepTheirState ==
    w.pc = "turn" => w.seen = w.state

\* A worker that was told to stop gives back its claim and slot.
TerminatedWorkerIsGone ==
    claim = "Running" /\ entry.terminating ~> claim # "Running"

\* A worker terminated because its issue is terminal loses its directory,
\* unless its removal fails or the root has moved away meanwhile.
TerminatedLeavesNoWorkspace ==
    \A r \in Roots :
        claim = "Running" /\ entry.cleanup /\ w.root = r
            ~> dir[r] = "absent" \/ r \in spoiled \/ root # r \/ up = "starting"

Lifecycle == INSTANCE ClaimLifecycle WITH
    Issues <- {"issue"},
    Slots <- 1,
    claim <- [i \in {"issue"} |-> claim],
    working <- IF w.pc \in {"none", "done"} THEN {} ELSE {"issue"}

\* What this module assumes of the loop is what Orchestrator promises: the
\* claim lifecycle of one issue, begun again with every restart.
LifecycleBetweenRestarts ==
    /\ Lifecycle!Init
    /\ [][crashes' = crashes => Lifecycle!Next]_(Lifecycle!vars)

-----------------------------------------------------------------------------
(* Documented behaviour that the code does not have *)

\* SPEC 8.4: terminal transitions of running issues are cleaned up too; so
\* also when it is the worker that sees the issue terminal, after a turn.
TerminalTransitionIsCleaned ==
    claim = "Running" /\ w.normal /\ w.seen \in Terminal
        ~> dir[root] = "absent" \/ tracker \notin Terminal \/ spoiled # {}

=============================================================================
