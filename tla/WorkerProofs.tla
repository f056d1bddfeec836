---------------------------- MODULE WorkerProofs ----------------------------
(* Theorems about Worker, for all tracker states, roots and scripts, any    *)
(* number of turns and, but for the refinement, of restarts.                *)
EXTENDS Worker, TLAPS, FiniteSetTheorems

\* A worker exists exactly while its entry does, and none before the loop.
Bookkeeping ==
    /\ claim = "Running" <=> w # NoWorker
    /\ up = "starting" => claim = "Unclaimed"

-----------------------------------------------------------------------------
(* Types *)

LEMMA WorkersAreWorkers ==
    ASSUME TypeOK, w.pc # "none"
    PROVE  w \in Worker /\ w # NoWorker
BY DEF TypeOK, NoWorker

LEMMA RemoveType ==
    ASSUME TypeOK, NEW r \in Roots, NEW ok \in BOOLEAN, Remove(r, ok)
    PROVE  /\ dir' \in [Roots -> {"absent", "bare", "ready"}]
           /\ spoiled' \subseteq Roots
BY DEF TypeOK, Remove

LEMMA HookStartsType ==
    ASSUME TypeOK, NEW h \in Hooks, HookStarts(h)
    PROVE  w \in Worker /\ w' \in Worker /\ UNCHANGED <<tracker, disk, loop, crashes>>
<1>1. w \in Worker
  BY WorkersAreWorkers DEF HookStarts, Hooks
<1> QED
  BY <1>1 DEF HookStarts, WorkerOnly, Worker

LEMMA BecomesType ==
    ASSUME TypeOK, w \in Worker,
           NEW pc \in {"create", "after_create", "before_run", "turn", "refresh", "after_run", "done"},
           Becomes(pc)
    PROVE  w' \in Worker /\ w'.pc = pc
BY DEF Becomes, Worker

LEMMA CreationType ==
    ASSUME TypeOK,
           Reuse \/ Create \/ CreateFails \/ AfterCreateSucceeds \/ AfterCreateFails
    PROVE  /\ w \in Worker /\ w' \in Worker
           /\ dir' \in [Roots -> {"absent", "bare", "ready"}]
           /\ spoiled' \subseteq Roots
           /\ UNCHANGED <<tracker, loop, crashes>>
<1>1. w \in Worker
  BY WorkersAreWorkers DEF Reuse, Create, CreateFails,
     AfterCreateSucceeds, AfterCreateFails, HookSucceeds, HookFails
<1>2. w.root \in Roots
  BY <1>1 DEF Worker
<1>3. CASE Reuse \/ CreateFails
  BY <1>1, <1>3, BecomesType DEF Reuse, CreateFails, WorkerOnly, TypeOK, disk
<1>4. CASE Create
  <2>1. w' \in Worker
    BY <1>1, <1>4, BecomesType DEF Create
  <2> QED
    BY <1>1, <1>2, <1>4, <2>1 DEF Create, TypeOK
<1>5. CASE AfterCreateSucceeds
  <2>1. w' \in Worker
    BY <1>1, <1>5, BecomesType DEF AfterCreateSucceeds
  <2> QED
    BY <1>1, <1>2, <1>5, <2>1 DEF AfterCreateSucceeds, TypeOK
<1>6. CASE AfterCreateFails
  <2>1. w' \in Worker
    BY <1>1, <1>6, BecomesType DEF AfterCreateFails
  <2> QED
    BY <1>1, <1>2, <1>6, <2>1, RemoveType DEF AfterCreateFails
<1> QED
  BY <1>3, <1>4, <1>5, <1>6

Attempt ==
    \/ BeforeRunSucceeds \/ BeforeRunFails
    \/ TurnStarts \/ TurnSucceeds \/ TurnFails
    \/ Refreshed \/ RefreshFails \/ AfterRunReturns

LEMMA AttemptType ==
    ASSUME TypeOK, Attempt
    PROVE  w \in Worker /\ w' \in Worker /\ UNCHANGED <<tracker, disk, loop, crashes>>
<1>1. w \in Worker
  BY WorkersAreWorkers DEF Attempt, BeforeRunSucceeds, BeforeRunFails, TurnStarts,
     TurnSucceeds, TurnFails, Refreshed, RefreshFails, AfterRunReturns,
     HookSucceeds, HookFails
<1>2. CASE BeforeRunFails \/ TurnFails \/ RefreshFails
  BY <1>1, <1>2, BecomesType DEF BeforeRunFails, TurnFails, RefreshFails, WorkerOnly
<1>3. CASE BeforeRunSucceeds \/ TurnStarts \/ TurnSucceeds \/ AfterRunReturns
  BY <1>1, <1>3 DEF BeforeRunSucceeds, TurnStarts, TurnSucceeds, AfterRunReturns,
     WorkerOnly, Worker
<1>4. CASE Refreshed
  <2>1. PICK s \in {tracker, w.seen} :
          w' = IF s \in Active /\ s = w.state /\ w.turn < MaxTurns
               THEN [w EXCEPT !.pc = "turn", !.busy = FALSE, !.seen = s, !.turn = @ + 1]
               ELSE [w EXCEPT !.pc = "after_run", !.busy = FALSE, !.seen = s, !.normal = TRUE]
    BY <1>4 DEF Refreshed
  <2>2. s \in States /\ (w.turn < MaxTurns => w.turn + 1 \in 1..MaxTurns)
    BY <1>1, WorkerAssumption DEF TypeOK, Worker
  <2>3. w' \in Worker
    BY <1>1, <2>1, <2>2 DEF Worker
  <2> QED
    BY <1>1, <1>4, <2>3 DEF Refreshed, WorkerOnly
<1> QED
  BY <1>2, <1>3, <1>4 DEF Attempt

LEMMA WorkerStepType ==
    ASSUME TypeOK, Run \/ TurnSucceeds \/ TurnFails
    PROVE  /\ w \in Worker /\ w' \in Worker
           /\ dir' \in [Roots -> {"absent", "bare", "ready"}]
           /\ spoiled' \subseteq Roots
           /\ UNCHANGED <<tracker, loop, crashes>>
<1>1. CASE \E h \in Hooks : HookStarts(h)
  BY <1>1, HookStartsType DEF TypeOK, disk
<1>2. CASE Reuse \/ Create \/ CreateFails \/ AfterCreateSucceeds \/ AfterCreateFails
  BY <1>2, CreationType
<1>3. CASE Attempt
  BY <1>3, AttemptType DEF TypeOK, disk
<1> QED
  BY <1>1, <1>2, <1>3 DEF Run, Attempt

LEMMA DispatchType ==
    ASSUME TypeOK, IsEligible, DispatchIssue
    PROVE  w' \in Worker /\ TypeOK'
<1>1. w' \in Worker
  BY WorkerAssumption DEF TypeOK, IsEligible, DispatchIssue, Worker
<1> QED
  BY <1>1 DEF TypeOK, DispatchIssue, NoFlags, Flags, disk

LEMMA TerminateType ==
    ASSUME TypeOK, Bookkeeping, NEW cleanup \in BOOLEAN, NEW release \in BOOLEAN,
           Terminate(cleanup, release)
    PROVE  w \in Worker /\ w' \in Worker /\ TypeOK'
<1>1. w \in Worker
  BY DEF TypeOK, Bookkeeping, Terminate
<1>2. w' \in Worker
  BY <1>1 DEF Terminate, Worker
<1> QED
  BY <1>1, <1>2 DEF TypeOK, Terminate, Flags, disk

LEMMA NextType ==
    ASSUME TypeOK, Bookkeeping, [Next]_vars
    PROVE  TypeOK' /\ Bookkeeping'
<1>1. NoWorker \notin Worker
  BY DEF NoWorker, Worker
<1>2. CASE Run \/ TurnSucceeds \/ TurnFails
  BY <1>1, <1>2, WorkerStepType DEF TypeOK, Bookkeeping, loop
<1>3. CASE \E s \in States : TrackerMoves(s)
  BY <1>3 DEF TrackerMoves, TypeOK, Bookkeeping, disk, loop
<1>4. CASE StartupCleanup
  BY <1>4, RemoveType DEF StartupCleanup, TypeOK, Bookkeeping
<1>5. CASE StartupWithoutCleanup
  BY <1>5 DEF StartupWithoutCleanup, TypeOK, Bookkeeping, disk
<1>6. CASE TickDispatches \/ RetryDispatches
  <2>1. w' \in Worker /\ TypeOK'
    BY <1>6, DispatchType DEF TickDispatches, RetryDispatches
  <2>2. up' = "running"
    BY <1>6 DEF TickDispatches, RetryDispatches, DispatchIssue, Bookkeeping, TypeOK
  <2> QED
    BY <1>1, <1>6, <2>1, <2>2 DEF TickDispatches, RetryDispatches, DispatchIssue, Bookkeeping
<1>7. CASE RetryReleases
  BY <1>7 DEF RetryReleases, TypeOK, Bookkeeping, disk
<1>8. CASE Stalls \/ ReconcileTerminal \/ ReconcileInactive
  <2>1. PICK cleanup \in BOOLEAN, release \in BOOLEAN : Terminate(cleanup, release)
    BY <1>8 DEF Stalls, ReconcileTerminal, ReconcileInactive
  <2>2. w \in Worker /\ w' \in Worker /\ TypeOK'
    BY <2>1, TerminateType
  <2> QED
    BY <1>1, <2>1, <2>2 DEF Terminate, Bookkeeping
<1>9. CASE OnWorkerExit
  <2>1. /\ dir' \in [Roots -> {"absent", "bare", "ready"}]
        /\ spoiled' \subseteq Roots
    BY <1>9, RemoveType DEF OnWorkerExit, TypeOK, disk
  <2>2. up = "running"
    BY <1>9, WorkersAreWorkers DEF OnWorkerExit, TypeOK, Bookkeeping
  <2> QED
    BY <1>9, <2>1, <2>2 DEF OnWorkerExit, TypeOK, Bookkeeping, NoFlags, Flags
<1>10. CASE \E r \in Roots : OnReload(r)
  BY <1>10 DEF OnReload, TypeOK, Bookkeeping, disk
<1>11. ASSUME NEW r \in Roots, Crash(r) PROVE TypeOK' /\ Bookkeeping'
  <2>1. crashes' \in 0..MaxCrashes
    BY <1>11, WorkerAssumption DEF Crash, TypeOK
  <2>2. spoiled' \subseteq Roots
    BY <1>11, WorkersAreWorkers DEF Crash, TypeOK, Worker
  <2> QED
    BY <1>11, <2>1, <2>2 DEF Crash, TypeOK, Bookkeeping, NoFlags, Flags
<1>12. CASE UNCHANGED vars
  BY <1>12 DEF vars, disk, loop, TypeOK, Bookkeeping
<1> QED
  BY <1>2, <1>3, <1>4, <1>5, <1>6, <1>7, <1>8, <1>9, <1>10, <1>11, <1>12 DEF Next, Loop

LEMMA TypedAndBooked == Spec => [](TypeOK /\ Bookkeeping)
<1>1. Init => TypeOK /\ Bookkeeping
  BY WorkerAssumption DEF Init, TypeOK, Bookkeeping, NoFlags, Flags
<1> QED
  BY <1>1, NextType, PTL DEF Spec

\* Every variable keeps its type, also through crashes at any point.
THEOREM WorkerTypeCorrect == Spec => []TypeOK
BY TypedAndBooked, PTL

-----------------------------------------------------------------------------
(* The directory of a worker *)

\* A directory without its content is being made, or was spoiled; so the one
\* that a worker finds is ready or spoiled.
BareIsExplained == \A r \in Roots :
    dir[r] = "bare" => r \in spoiled \/ (w.pc = "after_create" /\ w.root = r)

LEMMA RemoveExplains ==
    ASSUME TypeOK, BareIsExplained, NEW r \in Roots, NEW ok \in BOOLEAN, Remove(r, ok),
           w.pc # "after_create" \/ w.root = r
    PROVE  \A q \in Roots : dir'[q] = "bare" => q \in spoiled'
BY DEF TypeOK, BareIsExplained, Remove

LEMMA NextExplainsBare ==
    ASSUME TypeOK, Bookkeeping, BareIsExplained, [Next]_vars
    PROVE  BareIsExplained'
<1>1. CASE \E h \in Hooks : HookStarts(h)
  <2>1. PICK h \in Hooks : HookStarts(h)
    BY <1>1
  <2>2. w \in Worker /\ UNCHANGED disk
    BY <2>1, HookStartsType
  <2>3. w'.pc = w.pc /\ w'.root = w.root
    BY <2>1, <2>2 DEF HookStarts, Worker
  <2> QED
    BY <2>2, <2>3 DEF BareIsExplained, disk
<1>2. CASE Reuse \/ Create \/ CreateFails \/ AfterCreateSucceeds \/ AfterCreateFails
  <2>1. w \in Worker /\ w.root \in Roots
    BY <1>2, CreationType DEF Worker
  <2>2. CASE Reuse \/ CreateFails
    BY <2>1, <2>2 DEF Reuse, CreateFails, Becomes, WorkerOnly, disk, BareIsExplained
  <2>3. CASE Create
    <3>1. /\ w.pc = "create" /\ spoiled' = spoiled
          /\ \A q \in Roots \ {w.root} : dir'[q] = dir[q]
          /\ dir'[w.root] = "bare" => w'.pc = "after_create" /\ w'.root = w.root
      BY <2>1, <2>3 DEF Create, Becomes, Worker, TypeOK
    <3> QED
      BY <3>1 DEF BareIsExplained
  <2>4. CASE AfterCreateSucceeds
    BY <2>1, <2>4 DEF AfterCreateSucceeds, HookSucceeds, Becomes, TypeOK, BareIsExplained
  <2>5. CASE AfterCreateFails
    BY <2>1, <2>5, RemoveExplains DEF AfterCreateFails, HookFails, BareIsExplained
  <2> QED
    BY <1>2, <2>2, <2>3, <2>4, <2>5
<1>3. CASE Attempt
  <2>1. w.pc # "after_create" /\ UNCHANGED disk
    BY <1>3, AttemptType DEF Attempt, BeforeRunSucceeds, BeforeRunFails, TurnStarts,
       TurnSucceeds, TurnFails, Refreshed, RefreshFails, AfterRunReturns,
       HookSucceeds, HookFails
  <2> QED
    BY <2>1 DEF disk, BareIsExplained
<1>4. CASE StartupCleanup \/ OnWorkerExit
  <2>1. w.pc # "after_create"
    BY <1>4 DEF StartupCleanup, OnWorkerExit, Bookkeeping, NoWorker
  <2>2. CASE UNCHANGED disk
    BY <2>1, <2>2 DEF disk, BareIsExplained
  <2>3. CASE \E ok \in BOOLEAN : Remove(root, ok)
    BY <2>1, <2>3, RemoveExplains DEF TypeOK, BareIsExplained
  <2> QED
    BY <1>4, <2>2, <2>3 DEF StartupCleanup, OnWorkerExit
<1>5. CASE TickDispatches \/ RetryDispatches
  <2>1. w.pc # "after_create" /\ UNCHANGED disk
    BY <1>5 DEF TickDispatches, RetryDispatches, DispatchIssue, Bookkeeping, NoWorker
  <2> QED
    BY <2>1 DEF disk, BareIsExplained
<1>6. CASE Stalls \/ ReconcileTerminal \/ ReconcileInactive
  <2>1. PICK cleanup \in BOOLEAN, release \in BOOLEAN : Terminate(cleanup, release)
    BY <1>6 DEF Stalls, ReconcileTerminal, ReconcileInactive
  <2>2. w \in Worker
    BY <2>1, TerminateType
  <2>3. w'.pc = w.pc /\ w'.root = w.root /\ UNCHANGED disk
    BY <2>1, <2>2 DEF Terminate, Worker
  <2> QED
    BY <2>3 DEF BareIsExplained, disk
<1>7. CASE \E r \in Roots : Crash(r)
  BY <1>7 DEF Crash, BareIsExplained
<1>8. CASE \/ StartupWithoutCleanup \/ RetryReleases
           \/ \E s \in States : TrackerMoves(s)
           \/ \E r \in Roots : OnReload(r)
           \/ UNCHANGED vars
  <2>1. w' = w /\ UNCHANGED disk
    BY <1>8 DEF StartupWithoutCleanup, RetryReleases, TrackerMoves, OnReload, vars
  <2> QED
    BY <2>1 DEF disk, BareIsExplained
<1> QED
  BY <1>1, <1>2, <1>3, <1>4, <1>5, <1>6, <1>7, <1>8 DEF Next, Run, Loop, Attempt

LEMMA NextKeepsWorkspace ==
    ASSUME TypeOK, Bookkeeping, BareIsExplained, WorkspaceIsKeptAndReady, [Next]_vars
    PROVE  WorkspaceIsKeptAndReady'
<1> USE DEF WorkspaceIsKeptAndReady
<1>1. CASE \E h \in Hooks : HookStarts(h)
  <2>1. PICK h \in Hooks : HookStarts(h)
    BY <1>1
  <2>2. w \in Worker
    BY <2>1, HookStartsType
  <2> QED
    BY <2>1, <2>2 DEF HookStarts, WorkerOnly, Worker, disk
<1>2. CASE Reuse \/ Create \/ CreateFails \/ AfterCreateSucceeds \/ AfterCreateFails
  <2>1. w \in Worker /\ w.root \in Roots
    BY <1>2, CreationType DEF Worker
  <2>2. CASE Reuse
    BY <2>1, <2>2 DEF Reuse, Becomes, WorkerOnly, disk, Worker, BareIsExplained
  <2>3. CASE Create
    BY <2>1, <2>3 DEF Create, Becomes, Worker, TypeOK
  <2>4. CASE CreateFails \/ AfterCreateFails
    BY <2>1, <2>4 DEF CreateFails, AfterCreateFails, Becomes, Worker
  <2>5. CASE AfterCreateSucceeds
    BY <2>1, <2>5 DEF AfterCreateSucceeds, Becomes, Worker, TypeOK
  <2> QED
    BY <1>2, <2>2, <2>3, <2>4, <2>5
<1>3. CASE Attempt
  <2>1. w \in Worker /\ UNCHANGED disk
    BY <1>3, AttemptType
  <2>2. CASE BeforeRunSucceeds \/ BeforeRunFails \/ AfterRunReturns
    BY <2>1, <2>2 DEF BeforeRunSucceeds, BeforeRunFails, AfterRunReturns, HookSucceeds,
       HookFails, Becomes, Worker, disk
  <2>3. CASE TurnStarts \/ TurnSucceeds \/ TurnFails \/ RefreshFails
    BY <2>1, <2>3 DEF TurnStarts, TurnSucceeds, TurnFails, RefreshFails, Becomes, Worker, disk
  <2>4. CASE Refreshed
    BY <2>1, <2>4 DEF Refreshed, Worker, disk
  <2> QED
    BY <1>3, <2>2, <2>3, <2>4 DEF Attempt
<1>4. CASE \E s \in States : TrackerMoves(s)
  BY <1>4 DEF TrackerMoves, disk
<1>5. CASE StartupCleanup \/ StartupWithoutCleanup
  <2>1. w.pc = "none" /\ w' = w
    BY <1>5 DEF StartupCleanup, StartupWithoutCleanup, Bookkeeping, NoWorker
  <2> QED
    BY <2>1
<1>6. CASE TickDispatches \/ RetryDispatches
  <2>1. w'.pc = "create"
    BY <1>6 DEF TickDispatches, RetryDispatches, DispatchIssue
  <2> QED
    BY <2>1
<1>7. CASE RetryReleases
  BY <1>7 DEF RetryReleases, disk
<1>8. CASE Stalls \/ ReconcileTerminal \/ ReconcileInactive
  <2>1. PICK cleanup \in BOOLEAN, release \in BOOLEAN : Terminate(cleanup, release)
    BY <1>8 DEF Stalls, ReconcileTerminal, ReconcileInactive
  <2>2. w \in Worker
    BY <2>1, TerminateType
  <2> QED
    BY <2>1, <2>2 DEF Terminate, disk, Worker
<1>9. CASE OnWorkerExit \/ \E r \in Roots : Crash(r)
  <2>1. w'.pc = "none"
    BY <1>9 DEF OnWorkerExit, Crash, NoWorker
  <2> QED
    BY <2>1
<1>10. CASE \E r \in Roots : OnReload(r)
  BY <1>10 DEF OnReload, disk
<1>11. CASE UNCHANGED vars
  BY <1>11 DEF vars, disk
<1> QED
  BY <1>1, <1>2, <1>3, <1>4, <1>5, <1>6, <1>7, <1>8, <1>9, <1>10, <1>11
     DEF Next, Run, Loop, Attempt

\* Nobody removes the directory of a live worker, and no agent is started in
\* one that is not ready, but for a crash or a failed removal.
THEOREM WorkspaceIsSafe == Spec => []WorkspaceIsKeptAndReady
<1>1. Init => WorkspaceIsKeptAndReady /\ BareIsExplained
  BY DEF Init, NoWorker, WorkspaceIsKeptAndReady, BareIsExplained
<1> QED
  BY <1>1, TypedAndBooked, NextExplainsBare, NextKeepsWorkspace, PTL DEF Spec

-----------------------------------------------------------------------------
(* Hooks and turns *)

\* How far an attempt has come determines what it has done; only after the
\* last refresh may the issue be seen in another state.
AttemptInv ==
    /\ w.pc \in {"create", "after_create", "before_run"} => ~w.began /\ w.after = "none"
    /\ w.pc \in {"turn", "refresh"} => w.began /\ w.after = "none"
    /\ w.pc = "after_run" => w.began
    /\ w.pc \in {"create", "after_create", "before_run", "turn", "refresh"} => w.seen = w.state

LEMMA AttemptSteps ==
    ASSUME TypeOK, AttemptInv, HooksInPairs, Attempt
    PROVE  AttemptInv' /\ HooksInPairs'
<1> USE DEF AttemptInv, HooksInPairs
<1>1. w \in Worker
  BY AttemptType
<1>2. CASE BeforeRunSucceeds \/ BeforeRunFails
  BY <1>1, <1>2 DEF BeforeRunSucceeds, BeforeRunFails, HookSucceeds, HookFails, Becomes, Worker
<1>3. CASE TurnStarts \/ TurnSucceeds \/ TurnFails
  BY <1>1, <1>3 DEF TurnStarts, TurnSucceeds, TurnFails, Becomes, Worker
<1>4. CASE Refreshed
  <2>1. PICK s \in {tracker, w.seen} :
          w' = IF s \in Active /\ s = w.state /\ w.turn < MaxTurns
               THEN [w EXCEPT !.pc = "turn", !.busy = FALSE, !.seen = s, !.turn = @ + 1]
               ELSE [w EXCEPT !.pc = "after_run", !.busy = FALSE, !.seen = s, !.normal = TRUE]
    BY <1>4 DEF Refreshed
  <2>2. CASE s \in Active /\ s = w.state /\ w.turn < MaxTurns
    BY <1>1, <1>4, <2>1, <2>2 DEF Refreshed, Worker
  <2>3. CASE ~(s \in Active /\ s = w.state /\ w.turn < MaxTurns)
    BY <1>1, <1>4, <2>1, <2>3 DEF Refreshed, Worker
  <2> QED
    BY <2>2, <2>3
<1>5. CASE RefreshFails
  BY <1>1, <1>5 DEF RefreshFails, Becomes, Worker
<1>6. CASE AfterRunReturns
  BY <1>1, <1>6 DEF AfterRunReturns, HookSucceeds, HookFails, Worker
<1> QED
  BY <1>2, <1>3, <1>4, <1>5, <1>6 DEF Attempt

LEMMA CreationSteps ==
    ASSUME TypeOK, AttemptInv, HooksInPairs,
           Reuse \/ Create \/ CreateFails \/ AfterCreateSucceeds \/ AfterCreateFails
    PROVE  AttemptInv' /\ HooksInPairs'
<1> USE DEF AttemptInv, HooksInPairs
<1>1. w \in Worker
  BY CreationType
<1>2. CASE Reuse \/ Create \/ CreateFails
  BY <1>1, <1>2 DEF Reuse, Create, CreateFails, Becomes, Worker
<1>3. CASE AfterCreateSucceeds \/ AfterCreateFails
  BY <1>1, <1>3 DEF AfterCreateSucceeds, AfterCreateFails, HookSucceeds, HookFails,
     Becomes, Worker
<1> QED
  BY <1>2, <1>3

LEMMA NextAttemptInv ==
    ASSUME TypeOK, Bookkeeping, AttemptInv, HooksInPairs, [Next]_vars
    PROVE  AttemptInv' /\ HooksInPairs'
<1>1. CASE \E h \in Hooks : HookStarts(h)
  <2>1. PICK h \in Hooks : HookStarts(h)
    BY <1>1
  <2>2. w \in Worker
    BY <2>1, HookStartsType
  <2> QED
    BY <2>1, <2>2 DEF HookStarts, Worker, AttemptInv, HooksInPairs
<1>2. CASE TickDispatches \/ RetryDispatches
  BY <1>2 DEF TickDispatches, RetryDispatches, DispatchIssue, AttemptInv, HooksInPairs
<1>3. CASE Stalls \/ ReconcileTerminal \/ ReconcileInactive
  <2>1. PICK cleanup \in BOOLEAN, release \in BOOLEAN : Terminate(cleanup, release)
    BY <1>3 DEF Stalls, ReconcileTerminal, ReconcileInactive
  <2>2. w \in Worker
    BY <2>1, TerminateType
  <2> QED
    BY <2>1, <2>2 DEF Terminate, Worker, AttemptInv, HooksInPairs
<1>4. CASE OnWorkerExit \/ \E r \in Roots : Crash(r)
  BY <1>4 DEF OnWorkerExit, Crash, NoWorker, AttemptInv, HooksInPairs
<1>5. CASE \/ StartupCleanup \/ StartupWithoutCleanup \/ RetryReleases
           \/ \E s \in States : TrackerMoves(s)
           \/ \E r \in Roots : OnReload(r)
           \/ UNCHANGED vars
  <2>1. w' = w
    BY <1>5 DEF StartupCleanup, StartupWithoutCleanup, RetryReleases, TrackerMoves, OnReload, vars
  <2> QED
    BY <2>1 DEF AttemptInv, HooksInPairs
<1> QED
  BY <1>1, <1>2, <1>3, <1>4, <1>5, AttemptSteps, CreationSteps DEF Next, Run, Loop, Attempt

LEMMA AttemptIsInvariant == Spec => [](AttemptInv /\ HooksInPairs)
<1>1. Init => AttemptInv /\ HooksInPairs
  BY DEF Init, NoWorker, AttemptInv, HooksInPairs
<1> QED
  BY <1>1, TypedAndBooked, NextAttemptInv, PTL DEF Spec

\* after_run is reached exactly by the attempts whose before_run succeeded,
\* and its script is left out only after a cancellation.
THEOREM HooksArePaired == Spec => []HooksInPairs
BY AttemptIsInvariant, PTL

\* However the issue moves, a worker runs no turn after it has seen it in a
\* state other than that of its dispatch.
THEOREM TurnsAreBound == Spec => []TurnsKeepTheirState
<1>1. AttemptInv => TurnsKeepTheirState
  BY DEF AttemptInv, TurnsKeepTheirState
<1> QED
  BY <1>1, AttemptIsInvariant, PTL

-----------------------------------------------------------------------------
(* Between restarts the loop treats the issue as ClaimLifecycle demands. *)

LEMMA LifecycleInit == Init => Lifecycle!Init
BY DEF Init, NoWorker, Lifecycle!Init

LEMMA RestartIsCounted ==
    ASSUME TypeOK, NEW r \in Roots, Crash(r)
    PROVE  crashes' # crashes
BY DEF TypeOK, Crash

LEMMA FreeSlot ==
    ASSUME claim # "Running"
    PROVE  Lifecycle!Cardinality(Lifecycle!RunningIssues) < 1
<1>1. Lifecycle!RunningIssues = {}
  BY DEF Lifecycle!RunningIssues
<1>2. Lifecycle!Cardinality({}) = Cardinality({})
  BY DEF Cardinality, Lifecycle!Cardinality
<1>3. Cardinality({}) = 0
  BY FS_EmptySet
<1> QED
  BY <1>1, <1>2, <1>3

LEMMA StepImplements ==
    ASSUME TypeOK, Bookkeeping, [Next]_vars
    PROVE  [crashes' = crashes => Lifecycle!Next]_(Lifecycle!vars)
<1>1. CASE Run \/ TurnSucceeds \/ TurnFails
  <2>1. w \in Worker /\ w' \in Worker /\ claim' = claim
    BY <1>1, WorkerStepType DEF loop
  <2>2. w.pc # "done"
    BY <1>1 DEF Run, TurnSucceeds, TurnFails, HookStarts, Hooks, Reuse, Create, CreateFails,
       AfterCreateSucceeds, AfterCreateFails, BeforeRunSucceeds, BeforeRunFails, TurnStarts,
       Refreshed, RefreshFails, AfterRunReturns, HookSucceeds, HookFails
  <2>3. w.pc # "none" /\ w'.pc # "none"
    BY <2>1 DEF Worker
  <2>4. CASE w'.pc = "done"
    BY <2>1, <2>2, <2>3, <2>4 DEF Lifecycle!Next, Lifecycle!WorkerEnds
  <2>5. CASE w'.pc # "done"
    BY <2>1, <2>2, <2>3, <2>5 DEF Lifecycle!vars
  <2> QED
    BY <2>4, <2>5
<1>2. CASE TickDispatches \/ RetryDispatches
  <2>1. claim # "Running" /\ claim' = "Running" /\ w'.pc = "create" /\ w = NoWorker
    BY <1>2 DEF TickDispatches, RetryDispatches, DispatchIssue, Bookkeeping
  <2>2. Lifecycle!Dispatch("issue")
    BY <2>1, FreeSlot DEF Lifecycle!Dispatch, NoWorker
  <2> QED
    BY <2>2 DEF Lifecycle!Next
<1>3. CASE RetryReleases
  <2>1. claim = "RetryQueued" /\ claim' = "Unclaimed" /\ w' = w /\ w = NoWorker
    BY <1>3 DEF RetryReleases, Bookkeeping
  <2>2. Lifecycle!Release("issue")
    BY <2>1 DEF Lifecycle!Release, NoWorker
  <2> QED
    BY <2>2 DEF Lifecycle!Next
<1>4. CASE Stalls \/ ReconcileTerminal \/ ReconcileInactive
  <2>1. PICK cleanup \in BOOLEAN, release \in BOOLEAN : Terminate(cleanup, release)
    BY <1>4 DEF Stalls, ReconcileTerminal, ReconcileInactive
  <2>2. w \in Worker
    BY <2>1, TerminateType
  <2>3. w'.pc = w.pc /\ claim' = claim
    BY <2>1, <2>2 DEF Terminate, Worker
  <2> QED
    BY <2>3 DEF Lifecycle!vars
<1>5. CASE OnWorkerExit
  <2>1. w.pc = "done" /\ w' = NoWorker /\ claim = "Running"
    BY <1>5, WorkersAreWorkers DEF OnWorkerExit, Bookkeeping
  <2>2. CASE entry.release
    <3>1. Lifecycle!Release("issue")
      BY <1>5, <2>1, <2>2 DEF OnWorkerExit, Lifecycle!Release, NoWorker
    <3> QED
      BY <3>1 DEF Lifecycle!Next
  <2>3. CASE ~entry.release
    <3>1. Lifecycle!QueueRetry("issue")
      BY <1>5, <2>1, <2>3 DEF OnWorkerExit, Lifecycle!QueueRetry, NoWorker
    <3> QED
      BY <3>1 DEF Lifecycle!Next
  <2> QED
    BY <2>2, <2>3
<1>6. CASE \/ StartupCleanup \/ StartupWithoutCleanup
           \/ \E s \in States : TrackerMoves(s)
           \/ \E r \in Roots : OnReload(r)
           \/ UNCHANGED vars
  <2>1. w' = w /\ claim' = claim
    BY <1>6 DEF StartupCleanup, StartupWithoutCleanup, TrackerMoves, OnReload, vars, loop
  <2> QED
    BY <2>1 DEF Lifecycle!vars
<1> QED
  BY <1>1, <1>2, <1>3, <1>4, <1>5, <1>6, RestartIsCounted DEF Next, Loop

\* So what Worker assumes of the loop is what Orchestrator implements.
THEOREM WorkerRefines == Spec => LifecycleBetweenRestarts
<1>1. TypeOK /\ Bookkeeping /\ [Next]_vars
          => [crashes' = crashes => Lifecycle!Next]_(Lifecycle!vars)
  BY StepImplements
<1> QED
  BY <1>1, LifecycleInit, TypedAndBooked, PTL DEF Spec, LifecycleBetweenRestarts

=============================================================================
