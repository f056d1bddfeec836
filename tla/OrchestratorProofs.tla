-------------------------- MODULE OrchestratorProofs --------------------------
(* Theorems about Orchestrator, for all values of its constants. *)
EXTENDS Orchestrator, TLAPS, SequenceTheorems, FiniteSetTheorems

-----------------------------------------------------------------------------
(* Maps and the channel *)

\* Adding a pair to a map, or taking one away, keeps its type.
LEMMA PutType ==
    ASSUME NEW K, NEW V, NEW f, IsMap(f, K, V), NEW k \in K, NEW v \in V
    PROVE  IsMap(Put(f, k, v), K, V)
BY DEF Put, IsMap

LEMMA DelType ==
    ASSUME NEW K, NEW V, NEW f, IsMap(f, K, V), NEW k
    PROVE  IsMap(Del(f, k), K, V)
BY DEF Del, IsMap

\* A channel stays a sequence of events when one is posted, ...
LEMMA PostType ==
    ASSUME events \in Seq(Event), NEW e \in Event, Post(e)
    PROVE  events' \in Seq(Event)
BY AppendProperties DEF Post

\* ... received, ...
LEMMA ReceiveType ==
    ASSUME events \in Seq(Event), Receive
    PROVE  /\ Head(events) \in Event
           /\ events' \in Seq(Event)
BY HeadTailProperties DEF Receive

\* ... or taken back by a sender that stops waiting.
LEMMA RemoveAtType ==
    ASSUME NEW S, NEW s \in Seq(S), NEW k \in DOMAIN s
    PROVE  RemoveAt(s, k) \in Seq(S)
<1>1. /\ k \in 1..Len(s)
      /\ \A j \in 1..Len(s) : s[j] \in S
  BY LenProperties, ElementOfSeq
<1>2. SubSeq(s, 1, k-1) \in Seq(S)
  BY <1>1, SubSeqProperties
<1>3. SubSeq(s, k+1, Len(s)) \in Seq(S)
  BY <1>1, SubSeqProperties
<1> QED
  BY <1>2, <1>3, ConcatProperties DEF RemoveAt

\* Where the elements of a sequence are that one has been taken out of.
LEMMA RemoveAtElements ==
    ASSUME NEW S, NEW s \in Seq(S), NEW m \in DOMAIN s
    PROVE  \A k \in DOMAIN RemoveAt(s, m) :
             /\ k \in Nat
             /\ (IF k < m THEN k ELSE k + 1) \in DOMAIN s
             /\ RemoveAt(s, m)[k] = s[IF k < m THEN k ELSE k + 1]
<1> DEFINE old(k) == IF k < m THEN k ELSE k + 1
<1>1. /\ m \in 1..Len(s) /\ Len(s) \in Nat
      /\ \A j \in 1..Len(s) : s[j] \in S
  BY LenProperties, ElementOfSeq
<1>2. /\ SubSeq(s, 1, m-1) \in Seq(S)
      /\ Len(SubSeq(s, 1, m-1)) = m-1
      /\ \A k \in 1..m-1 : SubSeq(s, 1, m-1)[k] = s[k]
  BY <1>1, SubSeqProperties
<1>3. /\ SubSeq(s, m+1, Len(s)) \in Seq(S)
      /\ Len(SubSeq(s, m+1, Len(s))) = Len(s) - m
      /\ \A k \in 1..Len(s)-m : SubSeq(s, m+1, Len(s))[k] = s[m+k]
  BY <1>1, SubSeqProperties
<1>4. /\ Len(RemoveAt(s, m)) = Len(s)-1
      /\ \A k \in 1..Len(s)-1 : RemoveAt(s, m)[k] = s[old(k)]
  <2> DEFINE s1 == SubSeq(s, 1, m-1)
             s2 == SubSeq(s, m+1, Len(s))
  <2>1. /\ RemoveAt(s, m) = s1 \o s2
        /\ Len(s1 \o s2) = Len(s1) + Len(s2)
        /\ \A k \in 1..Len(s1) + Len(s2) :
              (s1 \o s2)[k] = IF k <= Len(s1) THEN s1[k] ELSE s2[k - Len(s1)]
    BY <1>2, <1>3, ConcatProperties DEF RemoveAt
  <2>2. /\ Len(s1) = m-1 /\ Len(s2) = Len(s) - m
        /\ \A k \in 1..m-1 : s1[k] = s[k]
        /\ \A k \in 1..Len(s)-m : s2[k] = s[m+k]
    BY <1>2, <1>3
  <2> HIDE DEF s1, s2
  <2>3. Len(RemoveAt(s, m)) = Len(s)-1
    BY <1>1, <2>1, <2>2
  <2>4. ASSUME NEW k \in 1..Len(s)-1 PROVE RemoveAt(s, m)[k] = s[old(k)]
    <3>1. CASE k < m
      <4>1. RemoveAt(s, m)[k] = s1[k] /\ k \in 1..m-1
        BY <1>1, <2>1, <2>2, <2>4, <3>1
      <4> QED
        BY <2>2, <3>1, <4>1
    <3>2. CASE ~(k < m)
      <4>0. /\ k \in 1..Len(s1) + Len(s2) /\ ~(k <= Len(s1))
            /\ k - Len(s1) = k-(m-1) /\ k-(m-1) \in 1..Len(s)-m
        BY <1>1, <2>2, <2>4, <3>2
      <4>1. RemoveAt(s, m)[k] = s2[k-(m-1)]
        BY <2>1, <4>0
      <4>2. s2[k-(m-1)] = s[m+(k-(m-1))]
        BY <2>2, <4>0
      <4>3. m+(k-(m-1)) = k+1
        BY <1>1, <2>4
      <4> QED
        BY <3>2, <4>1, <4>2, <4>3
    <3> QED
      BY <3>1, <3>2
  <2> QED
    BY <2>3, <2>4
<1>5. \A k \in DOMAIN RemoveAt(s, m) : /\ k \in Nat
                                        /\ old(k) \in DOMAIN s
                                        /\ RemoveAt(s, m)[k] = s[old(k)]
  <2>1. RemoveAt(s, m) \in Seq(S)
    BY RemoveAtType
  <2>2. DOMAIN RemoveAt(s, m) = 1..Len(s)-1 /\ DOMAIN s = 1..Len(s)
    BY <1>4, <2>1, LenProperties
  <2> QED
    BY <1>1, <1>4, <2>2
<1> QED
  BY <1>5

-----------------------------------------------------------------------------
(* Types *)

\* An attempt number never exceeds its bound.
LEMMA NextAttemptType ==
    ASSUME NEW n \in 0..MaxAttempt
    PROVE  NextAttempt(n) \in 0..MaxAttempt
BY BoundsAssumption DEF NextAttempt

LEMMA CancelType ==
    ASSUME IsMap(worker, Runs, Worker), NEW rs, Cancel(rs)
    PROVE  IsMap(worker', Runs, Worker)
BY DEF Cancel, Worker, IsMap

LEMMA ScheduleRetryType ==
    ASSUME IsMap(retry, Issues, RetryEntry), claimed \subseteq Issues,
           NEW i \in Issues, NEW n \in 0..MaxAttempt, ScheduleRetry(i, n)
    PROVE  /\ IsMap(retry', Issues, RetryEntry)
           /\ claimed' \subseteq Issues
<1>1. [attempt |-> n, armed |-> TRUE] \in RetryEntry
  BY DEF RetryEntry
<1> QED
  BY <1>1, PutType DEF ScheduleRetry

LEMMA DispatchIssueType ==
    ASSUME TypeOK, NEW i \in Issues, NEW s \in States, NEW n \in 0..MaxAttempt,
           DispatchIssue(i, s, n)
    PROVE  /\ IsMap(running', Issues, Entry)
           /\ claimed' \subseteq Issues
           /\ IsMap(retry', Issues, RetryEntry)
           /\ IsMap(worker', Runs, Worker)
<1>1. PICK r \in FreshRuns :
        /\ running' = Put(running, i,
               [run |-> r, state |-> s, labelled |-> TRUE, attempt |-> n,
                terminating |-> FALSE, cleanup |-> FALSE, release |-> FALSE])
        /\ claimed' = claimed \cup {i}
        /\ retry' = Del(retry, i)
        /\ worker' = Put(worker, r, [issue |-> i, cancelled |-> rootDone])
  BY DEF DispatchIssue
<1>2. r \in Runs
  BY DEF FreshRuns
<1>3. [run |-> r, state |-> s, labelled |-> TRUE, attempt |-> n,
       terminating |-> FALSE, cleanup |-> FALSE, release |-> FALSE] \in Entry
  BY <1>2 DEF Entry
<1>4. [issue |-> i, cancelled |-> rootDone] \in Worker
  BY DEF Worker, TypeOK
<1>5. IsMap(running', Issues, Entry)
  BY <1>1, <1>3, PutType DEF TypeOK
<1>6. IsMap(retry', Issues, RetryEntry)
  BY <1>1, DelType DEF TypeOK
<1>7. IsMap(worker', Runs, Worker)
  BY <1>1, <1>2, <1>4, PutType DEF TypeOK
<1> QED
  BY <1>1, <1>5, <1>6, <1>7 DEF TypeOK

\* Whatever the tracker says of an issue, its entry stays an entry.
LEMMA ObserveType ==
    ASSUME NEW e \in Entry, NEW o \in Observations
    PROVE  Observe(e, o) \in Entry
BY DEF Observe, Terminate, Entry, Observations

LEMMA ReconcileType ==
    ASSUME TypeOK, Reconcile
    PROVE  /\ IsMap(running', Issues, Entry)
           /\ IsMap(worker', Runs, Worker)
<1>1. PICK stalled \in SUBSET Issues, seen \in Refreshes(Undecided) :
        /\ running' = Reconciled(stalled, seen)
        /\ Cancel({running[i].run : i \in {j \in Undecided : running'[j].terminating}})
  <2>1. PICK stalled \in SUBSET (IF cfg.stall THEN Undecided ELSE {}) :
             \E seen \in Refreshes(IF FetchCanSucceed THEN Undecided \ stalled ELSE {}) :
               /\ running' = Reconciled(stalled, seen)
               /\ Cancel({running[i].run : i \in {j \in Undecided : running'[j].terminating}})
    BY Zenon DEF Reconcile
  <2>2. stalled \in SUBSET Issues
    BY DEF Undecided, TypeOK, IsMap
  <2>3. Refreshes(IF FetchCanSucceed THEN Undecided \ stalled ELSE {}) \subseteq Refreshes(Undecided)
    BY DEF Refreshes
  <2> QED
    BY <2>1, <2>2, <2>3, Zenon
<1>2. \A i \in DOMAIN seen : seen[i] \in Observations
  BY <1>1 DEF Refreshes
<1>3. \A e \in Entry : Terminate(e, FALSE, FALSE) \in Entry
  BY DEF Terminate, Entry
<1>4. IsMap(running', Issues, Entry)
  BY <1>1, <1>2, <1>3, ObserveType DEF TypeOK, Reconciled, IsMap
<1> QED
  BY <1>1, <1>4, CancelType DEF TypeOK

\* The handlers of the loop, its select and the steps of onTick.
LEMMA LoopType ==
    ASSUME TypeOK, Loop
    PROVE  TypeOK'
<1> USE DEF TypeOK
<1>1. CASE StartLoop
  BY <1>1 DEF StartLoop
<1>2. CASE OnTick
  BY <1>2, ReceiveType, ReconcileType DEF OnTick
<1>3. CASE TickFetchFails \/ TickFetched \/ TickDone
  BY <1>3 DEF TickFetchFails, TickFetched, TickDone
<1>4. CASE OnAgentUpdate \/ OnReloadFails \/ OnRefreshRequest
  BY <1>4, ReceiveType DEF OnAgentUpdate, OnReloadFails, OnRefreshRequest
<1>5. CASE OnReload
  <2>1. Head(events).cfg \in Configs
    BY <1>5, ReceiveType DEF OnReload, Event, TickEvent, RefreshRequest
  <2> QED
    BY <1>5, <2>1, ReceiveType DEF OnReload
<1>6. CASE Shutdown
  <2>1. IsMap(retry', Issues, RetryEntry)
    BY <1>6 DEF Shutdown, IsMap, RetryEntry
  <2>2. IsMap(worker', Runs, Worker)
    BY <1>6, CancelType DEF Shutdown
  <2> QED
    BY <1>6, <2>1, <2>2 DEF Shutdown
<1>7. ASSUME NEW i \in Issues, NEW ok \in BOOLEAN, OnWorkerExit(i, ok)
      PROVE  TypeOK'
  <2>1. events' \in Seq(Event)
    BY <1>7, ReceiveType DEF OnWorkerExit
  <2>2. CASE i \notin DOMAIN running
    BY <1>7, <2>1, <2>2 DEF OnWorkerExit
  <2>3. CASE i \in DOMAIN running
    <3>1. IsMap(running', Issues, Entry)
      BY <1>7, <2>3, DelType DEF OnWorkerExit
    <3>2. running[i].attempt \in 0..MaxAttempt
      <4>1. running[i] \in Entry
        BY <2>3 DEF IsMap
      <4> QED
        BY <4>1 DEF Entry
    <3>3. (IF ok THEN 1 ELSE NextAttempt(running[i].attempt)) \in 0..MaxAttempt
      <4>1. 1 \in 0..MaxAttempt
        BY BoundsAssumption
      <4>2. NextAttempt(running[i].attempt) \in 0..MaxAttempt
        BY <3>2, NextAttemptType
      <4> QED
        BY <4>1, <4>2
    <3>4. IsMap(retry', Issues, RetryEntry) /\ claimed' \subseteq Issues
      BY <1>7, <2>3, <3>3, ScheduleRetryType DEF OnWorkerExit
    <3> QED
      BY <1>7, <2>1, <3>1, <3>4 DEF OnWorkerExit
  <2> QED
    BY <2>2, <2>3
<1>8. ASSUME NEW i \in Issues, RetryIsDue(i)
      PROVE  /\ events' \in Seq(Event)
             /\ retry[i].attempt \in 0..MaxAttempt
  BY <1>8, ReceiveType DEF RetryIsDue, IsMap, RetryEntry
<1>9. ASSUME NEW i \in Issues, RetryIsPutOff(i), i \notin DOMAIN retry
      PROVE  TypeOK'
  BY <1>9, ReceiveType DEF RetryIsPutOff
<1>10. ASSUME NEW i \in Issues, RetryIsPutOff(i), i \in DOMAIN retry
       PROVE  TypeOK'
  <2>1. RetryIsDue(i)
    BY <1>10 DEF RetryIsPutOff, RetryIsDue
  <2>2. NextAttempt(retry[i].attempt) \in 0..MaxAttempt
    BY <1>8, <2>1, NextAttemptType
  <2>3. IsMap(retry', Issues, RetryEntry) /\ claimed' \subseteq Issues
    BY <1>10, <2>2, ScheduleRetryType DEF RetryIsPutOff
  <2> QED
    BY <1>8, <1>10, <2>1, <2>3 DEF RetryIsPutOff
<1>11. ASSUME NEW i \in Issues, RetryReleases(i)
       PROVE  TypeOK'
  BY <1>8, <1>11, DelType DEF RetryReleases
<1>12. ASSUME NEW i \in Issues, NEW s \in States, TickDispatches(i, s)
       PROVE  TypeOK'
  <2>1. 0 \in 0..MaxAttempt
    BY BoundsAssumption
  <2> QED
    BY <1>12, <2>1, DispatchIssueType DEF TickDispatches
<1>13. ASSUME NEW i \in Issues, NEW s \in States, RetryDispatches(i, s)
       PROVE  TypeOK'
  BY <1>8, <1>13, DispatchIssueType DEF RetryDispatches
<1> QED
  BY <1>1, <1>2, <1>3, <1>4, <1>5, <1>6, <1>7, <1>9, <1>10, <1>11, <1>12, <1>13
  DEF Loop

\* The timers, the worker goroutines and the environment.
LEMMA OthersType ==
    ASSUME TypeOK
    PROVE  /\ TickTimerFires => TypeOK'
           /\ \A i \in Issues : RetryTimerFires(i) => TypeOK'
           /\ \A r \in Runs : WorkerEmits(r) => TypeOK'
           /\ \A r \in Runs, ok \in BOOLEAN : WorkerReturns(r, ok) => TypeOK'
           /\ RefreshIsRequested => TypeOK'
           /\ \A c \in Configs : ReloadIsPosted(c) => TypeOK'
           /\ RootIsCancelled => TypeOK'
           /\ SenderGivesUp => TypeOK'
<1> USE DEF TypeOK
<1>1. ASSUME TickTimerFires PROVE TypeOK'
  <2>1. TickEvent \in Event
    BY DEF Event
  <2> QED
    BY <1>1, <2>1, PostType DEF TickTimerFires
<1>2. ASSUME NEW i \in Issues, RetryTimerFires(i) PROVE TypeOK'
  <2>1. RetryTimerFired(i) \in Event
    BY DEF Event, RetryTimerFired
  <2>2. IsMap(retry', Issues, RetryEntry)
    BY <1>2 DEF RetryTimerFires, IsMap, RetryEntry
  <2> QED
    BY <1>2, <2>1, <2>2, PostType DEF RetryTimerFires
<1>3. ASSUME NEW r \in Runs, WorkerEmits(r) PROVE TypeOK'
  <2>1. worker[r].issue \in Issues
    BY <1>3 DEF WorkerEmits, IsMap, Worker
  <2>2. AgentUpdate(worker[r].issue, r) \in Event
    BY <2>1 DEF Event, AgentUpdate
  <2> QED
    BY <1>3, <2>2, PostType DEF WorkerEmits
<1>4. ASSUME NEW r \in Runs, NEW ok \in BOOLEAN, WorkerReturns(r, ok) PROVE TypeOK'
  <2>1. worker[r].issue \in Issues
    BY <1>4 DEF WorkerReturns, IsMap, Worker
  <2>2. WorkerExit(worker[r].issue, r, ok) \in Event
    BY <2>1 DEF Event, WorkerExit
  <2> QED
    BY <1>4, <2>2, PostType, DelType DEF WorkerReturns
<1>5. ASSUME RefreshIsRequested PROVE TypeOK'
  <2>1. RefreshRequest \in Event
    BY DEF Event
  <2> QED
    BY <1>5, <2>1, AppendProperties DEF RefreshIsRequested, TrySend
<1>6. ASSUME NEW c \in Configs, ReloadIsPosted(c) PROVE TypeOK'
  <2>1. ReloadConfig(c) \in Event
    BY DEF Event, ReloadConfig
  <2>2. reloads' \in 0..MaxReloads
    BY <1>6, BoundsAssumption DEF ReloadIsPosted
  <2> QED
    BY <1>6, <2>1, <2>2, AppendProperties DEF ReloadIsPosted, TrySend
<1>7. ASSUME RootIsCancelled PROVE TypeOK'
  BY <1>7, CancelType DEF RootIsCancelled
<1>8. ASSUME SenderGivesUp PROVE TypeOK'
  BY <1>8, RemoveAtType DEF SenderGivesUp
<1> QED
  BY <1>1, <1>2, <1>3, <1>4, <1>5, <1>6, <1>7, <1>8

LEMMA NextType ==
    ASSUME TypeOK, [Next]_vars
    PROVE  TypeOK'
<1>1. CASE UNCHANGED vars
  BY <1>1 DEF vars, TypeOK
<1>2. CASE Terminated
  BY <1>2 DEF Terminated, vars, TypeOK
<1> QED
  BY <1>1, <1>2, LoopType, OthersType DEF Next

\* Every variable keeps its type, whatever the interleaving: attempts and
\* reloads stay within their bounds, maps keep their domains, and the channel
\* holds only events of the declared kinds.
THEOREM TypeCorrect == Spec => []TypeOK
<1>1. ASSUME Init PROVE TypeOK
  <2>1. /\ IsMap(EmptyMap, Issues, Entry)
        /\ IsMap(EmptyMap, Issues, RetryEntry)
        /\ IsMap(EmptyMap, Runs, Worker)
    BY DEF IsMap, EmptyMap
  <2>2. <<>> \in Seq(Event)
    OBVIOUS
  <2>3. 0 \in 0..MaxReloads
    BY BoundsAssumption
  <2>4. running = EmptyMap /\ retry = EmptyMap /\ worker = EmptyMap
    BY <1>1 DEF Init
  <2>5. /\ IsMap(running, Issues, Entry)
        /\ IsMap(retry, Issues, RetryEntry)
        /\ IsMap(worker, Runs, Worker)
    BY <2>1, <2>4, Zenon
  <2> QED
    BY <1>1, <2>2, <2>3, <2>5 DEF Init, TypeOK
<1> QED
  BY <1>1, NextType, PTL DEF Spec

-----------------------------------------------------------------------------
(* Claims *)

LEMMA MapDomains ==
    ASSUME NEW f, NEW k, NEW v
    PROVE  /\ DOMAIN Put(f, k, v) = DOMAIN f \cup {k}
           /\ DOMAIN Del(f, k) = DOMAIN f \ {k}
BY DEF Put, Del

\* Dispatch and ScheduleRetry move the claim along with the entry.
LEMMA ClaimsMove ==
    ASSUME ClaimedIsRunningOrRetrying
    PROVE  /\ \A i, s, n : DispatchIssue(i, s, n) => ClaimedIsRunningOrRetrying'
           /\ \A i, n : /\ ScheduleRetry(i, n)
                        /\ DOMAIN running' = DOMAIN running \ {i}
                        => ClaimedIsRunningOrRetrying'
<1>1. ASSUME NEW i, NEW s, NEW n, DispatchIssue(i, s, n)
      PROVE  ClaimedIsRunningOrRetrying'
  <2>1. claimed' = claimed \cup {i}
    BY <1>1 DEF DispatchIssue
  <2>2. DOMAIN retry' = DOMAIN retry \ {i}
    BY <1>1, MapDomains DEF DispatchIssue
  <2>3. DOMAIN running' = DOMAIN running \cup {i}
    <3>1. PICK v : running' = Put(running, i, v)
      BY <1>1, Zenon DEF DispatchIssue
    <3> QED
      BY <3>1, MapDomains
  <2>4. /\ claimed = DOMAIN running \cup DOMAIN retry
        /\ DOMAIN running \cap DOMAIN retry = {}
    BY DEF ClaimedIsRunningOrRetrying
  <2>5. claimed' = DOMAIN running' \cup DOMAIN retry'
    BY <2>1, <2>2, <2>3, <2>4
  <2>6. DOMAIN running' \cap DOMAIN retry' = {}
    BY <2>2, <2>3, <2>4
  <2> QED
    BY <2>5, <2>6 DEF ClaimedIsRunningOrRetrying
<1>2. ASSUME NEW i, NEW n, ScheduleRetry(i, n), DOMAIN running' = DOMAIN running \ {i}
      PROVE  ClaimedIsRunningOrRetrying'
  <2>1. /\ claimed' = claimed \cup {i}
        /\ DOMAIN retry' = DOMAIN retry \cup {i}
    BY <1>2, MapDomains DEF ScheduleRetry
  <2> QED
    BY <1>2, <2>1 DEF ClaimedIsRunningOrRetrying
<1> QED
  BY <1>1, <1>2

LEMMA ReconcileKeepsDomain ==
    ASSUME Reconcile
    PROVE  DOMAIN running' = DOMAIN running
BY DEF Reconcile, Reconciled

LEMMA NextClaims ==
    ASSUME ClaimedIsRunningOrRetrying, [Next]_vars
    PROVE  ClaimedIsRunningOrRetrying'
<1>1. CASE UNCHANGED <<running, claimed, retry>>
  BY <1>1 DEF ClaimedIsRunningOrRetrying
<1>2. CASE OnTick
  BY <1>2, ReconcileKeepsDomain DEF OnTick, ClaimedIsRunningOrRetrying
<1>3. ASSUME NEW i \in Issues, NEW ok \in BOOLEAN, OnWorkerExit(i, ok),
             i \in DOMAIN running
      PROVE  ClaimedIsRunningOrRetrying'
  <2>1. DOMAIN running' = DOMAIN running \ {i}
    BY <1>3, MapDomains DEF OnWorkerExit
  <2>2. CASE running[i].release
    BY <1>3, <2>1, <2>2 DEF OnWorkerExit, ClaimedIsRunningOrRetrying
  <2>3. CASE ~running[i].release
    BY <1>3, <2>1, <2>3, ClaimsMove DEF OnWorkerExit
  <2> QED
    BY <2>2, <2>3
<1>4. ASSUME NEW i \in Issues, RetryIsPutOff(i), i \in DOMAIN retry
      PROVE  ClaimedIsRunningOrRetrying'
  <2>1. i \notin DOMAIN running
    BY <1>4 DEF ClaimedIsRunningOrRetrying
  <2>2. DOMAIN running' = DOMAIN running \ {i}
    BY <1>4, <2>1 DEF RetryIsPutOff
  <2> QED
    BY <1>4, <2>2, ClaimsMove DEF RetryIsPutOff
<1>5. ASSUME NEW i \in Issues, RetryReleases(i)
      PROVE  ClaimedIsRunningOrRetrying'
  <2>1. DOMAIN retry' = DOMAIN retry \ {i}
    BY <1>5, MapDomains DEF RetryReleases
  <2> QED
    BY <1>5, <2>1 DEF RetryReleases, RetryIsDue, ClaimedIsRunningOrRetrying
<1>6. ASSUME NEW i \in Issues, NEW s \in States,
             TickDispatches(i, s) \/ RetryDispatches(i, s)
      PROVE  ClaimedIsRunningOrRetrying'
  BY <1>6, ClaimsMove DEF TickDispatches, RetryDispatches
<1>7. CASE Shutdown \/ \E i \in Issues : RetryTimerFires(i)
  <2>1. DOMAIN retry' = DOMAIN retry /\ UNCHANGED <<running, claimed>>
    BY <1>7 DEF Shutdown, RetryTimerFires
  <2> QED
    BY <2>1 DEF ClaimedIsRunningOrRetrying
<1>8. ASSUME NEW i \in Issues, NEW ok \in BOOLEAN, OnWorkerExit(i, ok),
             i \notin DOMAIN running
      PROVE  UNCHANGED <<running, claimed, retry>>
  BY <1>8 DEF OnWorkerExit
<1>9. ASSUME Loop
      PROVE  ClaimedIsRunningOrRetrying'
  <2>1. CASE \/ StartLoop \/ TickFetchFails \/ TickFetched \/ TickDone
             \/ OnAgentUpdate \/ OnReload \/ OnReloadFails \/ OnRefreshRequest
             \/ \E i \in Issues : RetryIsPutOff(i) /\ i \notin DOMAIN retry
    BY <1>1, <2>1 DEF StartLoop, TickFetchFails, TickFetched, TickDone, OnAgentUpdate,
       OnReload, OnReloadFails, OnRefreshRequest, RetryIsPutOff
  <2> QED
    BY <1>1, <1>2, <1>3, <1>4, <1>5, <1>6, <1>7, <1>8, <1>9, <2>1, Zenon DEF Loop
<1>10. CASE \/ TickTimerFires \/ RefreshIsRequested \/ RootIsCancelled
            \/ SenderGivesUp \/ Terminated \/ UNCHANGED vars
            \/ \E r \in Runs : WorkerEmits(r) \/ \E ok \in BOOLEAN : WorkerReturns(r, ok)
            \/ \E c \in Configs : ReloadIsPosted(c)
  BY <1>1, <1>10 DEF TickTimerFires, RefreshIsRequested, RootIsCancelled, SenderGivesUp,
     Terminated, vars, WorkerEmits, WorkerReturns, ReloadIsPosted
<1> QED
  BY <1>7, <1>9, <1>10 DEF Next

\* No handler leaks a claim or drops one that is still needed: an issue is
\* claimed exactly while it has a running entry or a queued retry, never both.
THEOREM ClaimsAreExact == Spec => []ClaimedIsRunningOrRetrying
<1>1. Init => ClaimedIsRunningOrRetrying
  BY DEF Init, ClaimedIsRunningOrRetrying, EmptyMap
<1> QED
  BY <1>1, NextClaims, PTL DEF Spec

-----------------------------------------------------------------------------
(* Runs: the correspondence of entries, goroutines and queued events *)

\* The step leaves every entry with its run and every worker with its issue.
SameRuns ==
    /\ DOMAIN running' = DOMAIN running
    /\ \A i \in DOMAIN running : running'[i].run = running[i].run
    /\ DOMAIN worker' = DOMAIN worker
    /\ \A r \in DOMAIN worker : worker'[r].issue = worker[r].issue

\* The step takes the first d events off the channel, and none is an exit.
Dropped(d) ==
    /\ events \in Seq(Event) /\ events' \in Seq(Event)
    /\ Len(events') = Len(events) - d
    /\ \A k \in 1..Len(events') : events'[k] = events[k + d]
    /\ d = 1 => events[1].kind # "exit"

\* The step puts e at the end of the channel.
Appended(e) ==
    /\ events \in Seq(Event) /\ events' \in Seq(Event)
    /\ Len(events') = Len(events) + 1
    /\ \A k \in 1..Len(events) : events'[k] = events[k]
    /\ events'[Len(events) + 1] = e

LEMMA DroppedRuns ==
    ASSUME RunsInv, SameRuns, rootDone => rootDone', NEW d \in {0, 1}, Dropped(d)
    PROVE  RunsInv'
<1> USE DEF Dropped, SameRuns
<1>1. /\ DOMAIN events = 1..Len(events) /\ Len(events) \in Nat
      /\ DOMAIN events' = 1..Len(events') /\ Len(events') \in Nat
  BY LenProperties
<1>2. \A k \in DOMAIN events' : k + d \in DOMAIN events /\ events'[k] = events[k + d]
  <2>1. CASE d = 0
    BY <1>1, <2>1
  <2>2. CASE d = 1
    BY <1>1, <2>2
  <2> QED
    BY <2>1, <2>2
<1>3. (\A r \in DOMAIN worker : /\ worker[r].issue \in DOMAIN running
                                /\ running[worker[r].issue].run = r)'
  BY DEF RunsInv
<1>4. (\A k \in QueuedAs("exit") : events[k].run \notin DOMAIN worker)'
  BY <1>2 DEF RunsInv, QueuedAs
<1>5. (\A k \in QueuedAs("exit"), j \in QueuedAs("exit") :
           events[k].run = events[j].run => k = j)'
  <2> SUFFICES ASSUME NEW k \in QueuedAs("exit")', NEW j \in QueuedAs("exit")',
                      events'[k].run = events'[j].run
               PROVE  k = j
    OBVIOUS
  <2>1. k \in Nat /\ j \in Nat
    BY <1>1 DEF QueuedAs
  <2>2. k + d \in QueuedAs("exit") /\ j + d \in QueuedAs("exit")
    BY <1>2 DEF QueuedAs
  <2>3. events[k + d].run = events[j + d].run
    BY <1>2 DEF QueuedAs
  <2>4. k + d = j + d
    BY <2>2, <2>3 DEF RunsInv
  <2> QED
    BY <2>1, <2>4
<1>6. EventsReachTheirRun'
  <2> SUFFICES ASSUME NEW k \in (QueuedAs("update") \cup QueuedAs("exit"))'
               PROVE  /\ events'[k].issue \in DOMAIN running'
                      /\ running'[events'[k].issue].run = events'[k].run
                      /\ \A j \in UpdatesOf(events[k].run)' :
                             events'[k].kind = "exit" => j < k
    BY DEF EventsReachTheirRun
  <2>1. /\ k + d \in QueuedAs("update") \cup QueuedAs("exit")
        /\ events'[k] = events[k + d]
        /\ k \in Nat
    BY <1>1, <1>2 DEF QueuedAs
  <2>2. ASSUME NEW j \in UpdatesOf(events[k].run)', events'[k].kind = "exit"
        PROVE  j < k
    <3>1. j + d \in UpdatesOf(events[k + d].run) /\ j \in Nat
      BY <1>1, <1>2, <2>1 DEF UpdatesOf, QueuedAs
    <3>2. j + d < k + d
      BY <2>1, <2>2, <3>1 DEF RunsInv, EventsReachTheirRun
    <3> QED
      BY <2>1, <3>1, <3>2
  <2> QED
    BY <2>1, <2>2 DEF RunsInv, EventsReachTheirRun
<1>7. (rootDone \/ \A i \in DOMAIN running : \/ running[i].run \in DOMAIN worker
                                             \/ ExitsOf(running[i].run) # {})'
  <2> SUFFICES ASSUME ~rootDone', ~rootDone, NEW i \in DOMAIN running,
                      running[i].run \notin DOMAIN worker
               PROVE  ExitsOf(running[i].run)' # {}
    OBVIOUS
  <2>1. PICK k \in ExitsOf(running[i].run) : TRUE
    BY DEF RunsInv
  <2>2. k \in 1..Len(events) /\ events[k].kind = "exit" /\ events[k].run = running[i].run
    BY <1>1 DEF ExitsOf, QueuedAs
  <2>3. k - d \in 1..Len(events')
    BY <1>1, <2>2
  <2>4. events'[k - d] = events[k]
    BY <2>2, <2>3
  <2> QED
    BY <1>1, <2>2, <2>3, <2>4 DEF ExitsOf, QueuedAs
<1>8. (\A i, j \in DOMAIN running : running[i].run = running[j].run => i = j)'
  BY DEF RunsInv
<1> QED
  BY <1>3, <1>4, <1>5, <1>6, <1>7, <1>8 DEF RunsInv

\* An update is posted by a live worker; other events do not concern runs.
LEMMA AppendedRuns ==
    ASSUME RunsInv, SameRuns, rootDone' = rootDone, NEW e, Appended(e),
           e.kind # "exit",
           e.kind = "update" => /\ e.run \in DOMAIN worker
                                /\ e.issue = worker[e.run].issue
    PROVE  RunsInv'
<1> USE DEF Appended, SameRuns
<1>1. /\ DOMAIN events = 1..Len(events) /\ Len(events) \in Nat
      /\ DOMAIN events' = 1..(Len(events) + 1)
  BY LenProperties
<1>2. \A k \in DOMAIN events' : IF k \in DOMAIN events THEN events'[k] = events[k]
                                ELSE k = Len(events) + 1 /\ events'[k] = e
  BY <1>1
<1>3. QueuedAs("exit")' = QueuedAs("exit")
  BY <1>1, <1>2 DEF QueuedAs
<1>4. (\A r \in DOMAIN worker : /\ worker[r].issue \in DOMAIN running
                                /\ running[worker[r].issue].run = r)'
  BY DEF RunsInv
<1>5. (\A k \in QueuedAs("exit") : events[k].run \notin DOMAIN worker)'
  BY <1>2, <1>3 DEF RunsInv, QueuedAs
<1>6. (\A k \in QueuedAs("exit"), j \in QueuedAs("exit") :
           events[k].run = events[j].run => k = j)'
  BY <1>2, <1>3 DEF RunsInv, QueuedAs
<1>7. EventsReachTheirRun'
  <2> SUFFICES ASSUME NEW k \in (QueuedAs("update") \cup QueuedAs("exit"))'
               PROVE  /\ events'[k].issue \in DOMAIN running'
                      /\ running'[events'[k].issue].run = events'[k].run
                      /\ \A j \in UpdatesOf(events[k].run)' :
                             events'[k].kind = "exit" => j < k
    BY DEF EventsReachTheirRun
  <2>1. CASE k \in DOMAIN events
    <3>1. k \in QueuedAs("update") \cup QueuedAs("exit") /\ events'[k] = events[k]
      BY <1>2, <2>1 DEF QueuedAs
    <3>2. ASSUME NEW j \in UpdatesOf(events[k].run)', events'[k].kind = "exit"
          PROVE  j < k
      <4>1. k \in QueuedAs("exit")
        BY <3>1, <3>2 DEF QueuedAs
      <4>2. j \in DOMAIN events
        <5> SUFFICES ASSUME j \notin DOMAIN events PROVE FALSE
          OBVIOUS
        <5>1. e.kind = "update" /\ e.run = events[k].run
          BY <1>2, <3>1 DEF UpdatesOf, QueuedAs
        <5> QED
          BY <5>1, <4>1 DEF RunsInv
      <4>3. j \in UpdatesOf(events[k].run)
        BY <1>2, <3>1, <4>2 DEF UpdatesOf, QueuedAs
      <4> QED
        BY <3>1, <3>2, <4>3 DEF RunsInv, EventsReachTheirRun
    <3> QED
      BY <3>1, <3>2 DEF RunsInv, EventsReachTheirRun
  <2>2. CASE k \notin DOMAIN events
    <3>1. events'[k] = e /\ e.kind = "update"
      BY <1>2, <2>2 DEF QueuedAs
    <3> QED
      BY <3>1 DEF RunsInv
  <2> QED
    BY <2>1, <2>2
<1>8. (rootDone \/ \A i \in DOMAIN running : \/ running[i].run \in DOMAIN worker
                                             \/ ExitsOf(running[i].run) # {})'
  <2> SUFFICES ASSUME ~rootDone, NEW i \in DOMAIN running,
                      running[i].run \notin DOMAIN worker
               PROVE  ExitsOf(running[i].run)' # {}
    OBVIOUS
  <2>1. PICK k \in ExitsOf(running[i].run) : TRUE
    BY DEF RunsInv
  <2>2. k \in ExitsOf(running[i].run)'
    BY <1>2, <1>3, <2>1 DEF ExitsOf, QueuedAs
  <2> QED
    BY <2>2
<1>9. (\A i, j \in DOMAIN running : running[i].run = running[j].run => i = j)'
  BY DEF RunsInv
<1> QED
  BY <1>4, <1>5, <1>6, <1>7, <1>8, <1>9 DEF RunsInv

\* The goroutine of run r ends and posts its exit.
LEMMA ExitPostedRuns ==
    ASSUME RunsInv, UNCHANGED <<running, rootDone>>, NEW r \in DOMAIN worker,
           worker' = Del(worker, r), NEW e, Appended(e),
           e.kind = "exit", e.run = r, e.issue = worker[r].issue
    PROVE  RunsInv'
<1> USE DEF Appended
<1>1. /\ DOMAIN events = 1..Len(events) /\ Len(events) \in Nat
      /\ DOMAIN events' = 1..(Len(events) + 1)
  BY LenProperties
<1>2. \A k \in DOMAIN events' : IF k \in DOMAIN events THEN events'[k] = events[k]
                                ELSE k = Len(events) + 1 /\ events'[k] = e
  BY <1>1
<1>3. /\ DOMAIN worker' = DOMAIN worker \ {r}
      /\ \A q \in DOMAIN worker' : worker'[q] = worker[q]
  BY DEF Del
<1>4. (\A q \in DOMAIN worker : /\ worker[q].issue \in DOMAIN running
                                /\ running[worker[q].issue].run = q)'
  BY <1>3 DEF RunsInv
<1>5. \A k \in QueuedAs("exit")' : \/ k \in QueuedAs("exit") /\ events'[k] = events[k]
                                   \/ k = Len(events) + 1 /\ events'[k] = e
  BY <1>2 DEF QueuedAs
<1>6. \A k \in QueuedAs("exit") : events[k].run # r
  BY DEF RunsInv
<1>7. (\A k \in QueuedAs("exit") : events[k].run \notin DOMAIN worker)'
  BY <1>3, <1>5 DEF RunsInv
<1>8. (\A k \in QueuedAs("exit"), j \in QueuedAs("exit") :
           events[k].run = events[j].run => k = j)'
  BY <1>5, <1>6 DEF RunsInv
<1>9. EventsReachTheirRun'
  <2> SUFFICES ASSUME NEW k \in (QueuedAs("update") \cup QueuedAs("exit"))'
               PROVE  /\ events'[k].issue \in DOMAIN running'
                      /\ running'[events'[k].issue].run = events'[k].run
                      /\ \A j \in UpdatesOf(events[k].run)' :
                             events'[k].kind = "exit" => j < k
    BY DEF EventsReachTheirRun
  <2>1. \A q : UpdatesOf(q)' = UpdatesOf(q)
    BY <1>1, <1>2 DEF UpdatesOf, QueuedAs
  <2>2. CASE k \in DOMAIN events
    <3>1. k \in QueuedAs("update") \cup QueuedAs("exit") /\ events'[k] = events[k]
      BY <1>2, <2>2 DEF QueuedAs
    <3> QED
      BY <2>1, <3>1 DEF RunsInv, EventsReachTheirRun
  <2>3. CASE k \notin DOMAIN events
    <3>1. events'[k] = e /\ k = Len(events) + 1
      BY <1>2, <2>3 DEF QueuedAs
    <3>2. \A j \in UpdatesOf(events[k].run)' : j < k
      BY <1>1, <2>1, <3>1 DEF UpdatesOf, QueuedAs
    <3> QED
      BY <3>1, <3>2 DEF RunsInv
  <2> QED
    BY <2>2, <2>3
<1>10. (rootDone \/ \A i \in DOMAIN running : \/ running[i].run \in DOMAIN worker
                                              \/ ExitsOf(running[i].run) # {})'
  <2> SUFFICES ASSUME ~rootDone, NEW i \in DOMAIN running,
                      running[i].run \notin DOMAIN worker'
               PROVE  ExitsOf(running[i].run)' # {}
    OBVIOUS
  <2>1. CASE running[i].run = r
    <3>1. Len(events) + 1 \in ExitsOf(r)'
      BY <1>1 DEF ExitsOf, QueuedAs
    <3> QED
      BY <2>1, <3>1
  <2>2. CASE running[i].run # r
    <3>1. PICK k \in ExitsOf(running[i].run) : TRUE
      BY <1>3, <2>2 DEF RunsInv
    <3>2. k \in ExitsOf(running[i].run)'
      BY <1>1, <1>2, <3>1 DEF ExitsOf, QueuedAs
    <3> QED
      BY <3>2
  <2> QED
    BY <2>1, <2>2
<1> QED
  BY <1>4, <1>7, <1>8, <1>9, <1>10 DEF RunsInv

\* After the root is cancelled, an exit may be lost ...
LEMMA ExitLostRuns ==
    ASSUME RunsInv, UNCHANGED <<running, events, rootDone>>, rootDone,
           NEW r \in DOMAIN worker, worker' = Del(worker, r)
    PROVE  RunsInv'
<1>1. /\ DOMAIN worker' = DOMAIN worker \ {r}
      /\ \A q \in DOMAIN worker' : worker'[q] = worker[q]
  BY DEF Del
<1>2. /\ \A k : QueuedAs(k)' = QueuedAs(k)
      /\ \A q : UpdatesOf(q)' = UpdatesOf(q)
  BY DEF QueuedAs, UpdatesOf
<1> QED
  BY <1>1, <1>2 DEF RunsInv, EventsReachTheirRun

\* ... or any event whose sender waits.
LEMMA RemovedRuns ==
    ASSUME RunsInv, events \in Seq(Event), UNCHANGED <<running, worker, rootDone>>,
           rootDone, NEW m \in DOMAIN events, events' = RemoveAt(events, m)
    PROVE  RunsInv'
<1> DEFINE old(k) == IF k < m THEN k ELSE k + 1
<1>1. \A k \in DOMAIN events' : /\ k \in Nat
                                /\ old(k) \in DOMAIN events
                                /\ events'[k] = events[old(k)]
  BY RemoveAtElements
<1>2. \A j, k \in DOMAIN events' : /\ old(j) = old(k) => j = k
                                   /\ old(j) < old(k) => j < k
  BY <1>1, LenProperties
<1> HIDE DEF old
<1>3. (\A k \in QueuedAs("exit") : events[k].run \notin DOMAIN worker)'
  BY <1>1 DEF RunsInv, QueuedAs
<1>4. (\A k \in QueuedAs("exit"), j \in QueuedAs("exit") :
           events[k].run = events[j].run => k = j)'
  BY <1>1, <1>2 DEF RunsInv, QueuedAs
<1>5. EventsReachTheirRun'
  BY <1>1, <1>2 DEF RunsInv, EventsReachTheirRun, QueuedAs, UpdatesOf
<1> QED
  BY <1>3, <1>4, <1>5 DEF RunsInv

\* The exit of run r is received, and the entry that names r is removed: no
\* event of r is left behind it.
LEMMA ExitHandledRuns ==
    ASSUME RunsInv, TypeOK, Receive, UNCHANGED <<worker, rootDone>>,
           Head(events).kind = "exit",
           running' = Del(running, Head(events).issue)
    PROVE  RunsInv'
<1> DEFINE i == Head(events).issue
           r == Head(events).run
<1>1. /\ events \in Seq(Event) /\ events # <<>> /\ events' = Tail(events)
  BY DEF Receive, TypeOK
<1>2. /\ Len(events) \in Nat /\ Len(events) > 0
      /\ DOMAIN events = 1..Len(events)
      /\ DOMAIN events' = 1..Len(events)-1
      /\ \A k \in 1..Len(events)-1 : events'[k] = events[k+1]
      /\ Head(events) = events[1]
  BY <1>1, HeadTailProperties, LenProperties
<1>3. \A k \in DOMAIN events' : /\ k \in Nat \ {0}
                                /\ k + 1 \in DOMAIN events
                                /\ events'[k] = events[k+1]
  BY <1>2
<1>4. 1 \in QueuedAs("exit") /\ events[1].issue = i /\ events[1].run = r
  BY <1>2 DEF QueuedAs
<1>5. i \in DOMAIN running /\ running[i].run = r /\ r \notin DOMAIN worker
  BY <1>4 DEF RunsInv, EventsReachTheirRun
<1>6. /\ DOMAIN running' = DOMAIN running \ {i}
      /\ \A j \in DOMAIN running' : running'[j] = running[j]
  BY DEF Del
<1>7. \A k \in (QueuedAs("update") \cup QueuedAs("exit"))' : events'[k].run # r
  <2> SUFFICES ASSUME NEW k \in (QueuedAs("update") \cup QueuedAs("exit"))',
                      events'[k].run = r
               PROVE  FALSE
    OBVIOUS
  <2>1. /\ k + 1 \in QueuedAs("update") \cup QueuedAs("exit")
        /\ events[k+1].run = r /\ k \in Nat /\ k + 1 > 1
    BY <1>3 DEF QueuedAs
  <2>2. CASE k + 1 \in QueuedAs("exit")
    BY <1>4, <2>1, <2>2 DEF RunsInv
  <2>3. CASE k + 1 \in QueuedAs("update")
    <3>1. k + 1 \in UpdatesOf(r)
      BY <2>1, <2>3 DEF UpdatesOf
    <3>2. \A j \in UpdatesOf(events[1].run) : events[1].kind = "exit" => j < 1
      BY <1>4 DEF RunsInv, EventsReachTheirRun
    <3>3. k + 1 < 1
      BY <1>4, <3>1, <3>2 DEF QueuedAs
    <3> QED
      BY <2>1, <3>3
  <2> QED
    BY <2>1, <2>2, <2>3
<1>8. (\A q \in DOMAIN worker : /\ worker[q].issue \in DOMAIN running
                                /\ running[worker[q].issue].run = q)'
  BY <1>5, <1>6 DEF RunsInv
<1>9. (\A k \in QueuedAs("exit") : events[k].run \notin DOMAIN worker)'
  BY <1>3 DEF RunsInv, QueuedAs
<1>10. (\A k \in QueuedAs("exit"), j \in QueuedAs("exit") :
           events[k].run = events[j].run => k = j)'
  BY <1>3 DEF RunsInv, QueuedAs
<1>11. EventsReachTheirRun'
  <2> SUFFICES ASSUME NEW k \in (QueuedAs("update") \cup QueuedAs("exit"))'
               PROVE  /\ events'[k].issue \in DOMAIN running'
                      /\ running'[events'[k].issue].run = events'[k].run
                      /\ \A j \in UpdatesOf(events[k].run)' :
                             events'[k].kind = "exit" => j < k
    BY DEF EventsReachTheirRun
  <2>1. /\ k + 1 \in QueuedAs("update") \cup QueuedAs("exit")
        /\ events'[k] = events[k+1] /\ k \in Nat
    BY <1>3 DEF QueuedAs
  <2>2. events[k+1].issue \in DOMAIN running /\ running[events[k+1].issue].run = events[k+1].run
    BY <2>1 DEF RunsInv, EventsReachTheirRun
  <2>3. events[k+1].issue # i
    BY <1>5, <1>7, <2>1, <2>2
  <2>4. ASSUME NEW j \in UpdatesOf(events[k].run)', events'[k].kind = "exit"
        PROVE  j < k
    <3>1. j + 1 \in UpdatesOf(events[k+1].run) /\ j \in Nat
      BY <1>3, <2>1 DEF UpdatesOf, QueuedAs
    <3>2. j + 1 < k + 1
      BY <2>1, <2>4, <3>1 DEF RunsInv, EventsReachTheirRun
    <3> QED
      BY <2>1, <3>1, <3>2
  <2> QED
    BY <1>6, <2>1, <2>2, <2>3, <2>4
<1>12. (rootDone \/ \A j \in DOMAIN running : \/ running[j].run \in DOMAIN worker
                                              \/ ExitsOf(running[j].run) # {})'
  <2> SUFFICES ASSUME ~rootDone, NEW j \in DOMAIN running',
                      running[j].run \notin DOMAIN worker
               PROVE  ExitsOf(running[j].run)' # {}
    BY <1>6
  <2>1. j # i /\ j \in DOMAIN running
    BY <1>6
  <2>2. PICK k \in ExitsOf(running[j].run) : TRUE
    BY <2>1 DEF RunsInv
  <2>3. k \in DOMAIN events /\ events[k].kind = "exit" /\ events[k].run = running[j].run
    BY DEF ExitsOf, QueuedAs
  <2>4. k # 1
    BY <1>4, <1>5, <2>1, <2>3 DEF RunsInv
  <2>5. k - 1 \in DOMAIN events' /\ events'[k - 1] = events[k]
    BY <1>2, <2>3, <2>4
  <2>6. running'[j] = running[j]
    BY <1>6
  <2>7. k - 1 \in ExitsOf(running[j].run)'
    BY <2>3, <2>5, <2>6 DEF ExitsOf, QueuedAs
  <2> QED
    BY <2>7
<1>13. (\A j, q \in DOMAIN running : running[j].run = running[q].run => j = q)'
  BY <1>6 DEF RunsInv
<1> QED
  BY <1>8, <1>9, <1>10, <1>11, <1>12, <1>13 DEF RunsInv

\* An issue without an entry is given a goroutine that nothing refers to.
LEMMA DispatchedRuns ==
    ASSUME RunsInv, rootDone' = rootDone, NEW d \in {0, 1}, Dropped(d),
           NEW i \in Issues, i \notin DOMAIN running,
           NEW s, NEW n, DispatchIssue(i, s, n)
    PROVE  RunsInv'
<1>1. PICK r \in FreshRuns :
         /\ running' = Put(running, i,
               [run |-> r, state |-> s, labelled |-> TRUE, attempt |-> n,
                terminating |-> FALSE, cleanup |-> FALSE, release |-> FALSE])
         /\ worker' = Put(worker, r, [issue |-> i, cancelled |-> rootDone])
  BY Zenon DEF DispatchIssue
<1>2. /\ DOMAIN running' = DOMAIN running \cup {i} /\ running'[i].run = r
      /\ \A j \in DOMAIN running : running'[j] = running[j]
  BY <1>1 DEF Put
<1>3. /\ DOMAIN worker' = DOMAIN worker \cup {r} /\ worker'[r].issue = i
      /\ \A q \in DOMAIN worker : q # r => worker'[q] = worker[q]
  BY <1>1 DEF Put
<1>4. /\ r \notin DOMAIN worker
      /\ \A k \in QueuedAs("update") \cup QueuedAs("exit") : events[k].run # r
      /\ \A j \in DOMAIN running : running[j].run # r
  BY DEF FreshRuns, UpdatesOf, ExitsOf
<1>5. \A k \in DOMAIN events' :
         k \in Nat /\ k + d \in DOMAIN events /\ events'[k] = events[k + d]
  BY LenProperties DEF Dropped
<1>6. (\A j, k \in DOMAIN running : running[j].run = running[k].run => j = k)'
  BY <1>2, <1>4 DEF RunsInv
<1>7. (\A q \in DOMAIN worker : /\ worker[q].issue \in DOMAIN running
                                /\ running[worker[q].issue].run = q)'
  BY <1>2, <1>3 DEF RunsInv
<1>8. (\A k \in QueuedAs("exit") : events[k].run \notin DOMAIN worker)'
  <2> SUFFICES ASSUME NEW k \in QueuedAs("exit")' PROVE events'[k].run \notin DOMAIN worker'
    OBVIOUS
  <2>1. k + d \in QueuedAs("exit") /\ events'[k] = events[k + d]
    BY <1>5 DEF QueuedAs
  <2> QED
    BY <1>3, <1>4, <2>1 DEF RunsInv
<1>9. (\A k \in QueuedAs("exit"), j \in QueuedAs("exit") :
           events[k].run = events[j].run => k = j)'
  <2> SUFFICES ASSUME NEW k \in QueuedAs("exit")', NEW j \in QueuedAs("exit")',
                      events'[k].run = events'[j].run
               PROVE  k = j
    OBVIOUS
  <2>1. /\ k \in Nat /\ j \in Nat
        /\ k + d \in QueuedAs("exit") /\ j + d \in QueuedAs("exit")
        /\ events[k + d].run = events[j + d].run
    BY <1>5 DEF QueuedAs
  <2>2. k + d = j + d
    BY <2>1 DEF RunsInv
  <2> QED
    BY <2>1, <2>2
<1>10. EventsReachTheirRun'
  <2> SUFFICES ASSUME NEW k \in (QueuedAs("update") \cup QueuedAs("exit"))'
               PROVE  /\ events'[k].issue \in DOMAIN running'
                      /\ running'[events'[k].issue].run = events'[k].run
                      /\ \A j \in UpdatesOf(events[k].run)' :
                             events'[k].kind = "exit" => j < k
    BY DEF EventsReachTheirRun
  <2>1. /\ k + d \in QueuedAs("update") \cup QueuedAs("exit")
        /\ events'[k] = events[k + d] /\ k \in Nat
    BY <1>5 DEF QueuedAs
  <2>2. /\ events[k + d].issue \in DOMAIN running
        /\ running[events[k + d].issue].run = events[k + d].run
    BY <2>1 DEF RunsInv, EventsReachTheirRun
  <2>3. ASSUME NEW j \in UpdatesOf(events[k].run)', events'[k].kind = "exit"
        PROVE  j < k
    <3>1. j + d \in UpdatesOf(events[k + d].run) /\ j \in Nat
      BY <1>5, <2>1 DEF UpdatesOf, QueuedAs
    <3>2. j + d < k + d
      BY <2>1, <2>3, <3>1 DEF RunsInv, EventsReachTheirRun
    <3> QED
      BY <2>1, <3>1, <3>2
  <2> QED
    BY <1>2, <2>1, <2>2, <2>3
<1>11. (rootDone \/ \A j \in DOMAIN running : \/ running[j].run \in DOMAIN worker
                                              \/ ExitsOf(running[j].run) # {})'
  <2> SUFFICES ASSUME ~rootDone, NEW j \in DOMAIN running',
                      running'[j].run \notin DOMAIN worker'
               PROVE  ExitsOf(running[j].run)' # {}
    OBVIOUS
  <2>1. j \in DOMAIN running /\ running'[j] = running[j] /\ running[j].run \notin DOMAIN worker
    BY <1>2, <1>3
  <2>2. PICK k \in ExitsOf(running[j].run) : TRUE
    BY <2>1 DEF RunsInv
  <2>3. /\ k \in 1..Len(events) /\ Len(events) \in Nat
        /\ events[k].kind = "exit" /\ events[k].run = running[j].run
    BY LenProperties DEF ExitsOf, QueuedAs, Dropped
  <2>4. k - d \in DOMAIN events' /\ events'[k - d] = events[k]
    <3>1. k - d \in 1..Len(events') /\ (k - d) + d = k
      BY <2>3 DEF Dropped
    <3>2. k - d \in DOMAIN events'
      BY <3>1, LenProperties DEF Dropped
    <3> QED
      BY <1>5, <3>1, <3>2
  <2>5. k - d \in ExitsOf(running[j].run)'
    BY <2>1, <2>3, <2>4 DEF ExitsOf, QueuedAs
  <2> QED
    BY <2>5
<1> QED
  BY <1>6, <1>7, <1>8, <1>9, <1>10, <1>11 DEF RunsInv

\* How the actions meet the premises of these lemmas.
LEMMA KeptIsDropped ==
    ASSUME events \in Seq(Event), UNCHANGED events
    PROVE  Dropped(0)
BY LenProperties DEF Dropped

LEMMA ReceivedIsDropped ==
    ASSUME events \in Seq(Event), Receive, Head(events).kind # "exit"
    PROVE  Dropped(1)
<1>1. /\ events' \in Seq(Event) /\ Len(events') = Len(events) - 1
      /\ \A k \in 1..Len(events') : events'[k] = events[k + 1]
      /\ Head(events) = events[1]
  BY HeadTailProperties, LenProperties DEF Receive
<1> QED
  BY <1>1 DEF Dropped

LEMMA PostedIsAppended ==
    ASSUME events \in Seq(Event), NEW e \in Event, Post(e)
    PROVE  Appended(e) \/ (rootDone /\ UNCHANGED events)
BY AppendProperties, LenProperties DEF Post, Appended

LEMMA CancelKeepsRuns ==
    ASSUME IsMap(worker, Runs, Worker), NEW rs, Cancel(rs)
    PROVE  /\ DOMAIN worker' = DOMAIN worker
           /\ \A r \in DOMAIN worker : worker'[r].issue = worker[r].issue
BY DEF Cancel, IsMap, Worker

LEMMA ReconcileKeepsRuns ==
    ASSUME TypeOK, Reconcile
    PROVE  SameRuns
<1>1. PICK stalled, seen :
         /\ running' = Reconciled(stalled, seen)
         /\ Cancel({running[i].run : i \in {j \in Undecided : running'[j].terminating}})
  BY Zenon DEF Reconcile
<1>2. \A i \in DOMAIN running : running[i] \in Entry
  BY DEF TypeOK, IsMap
<1>3. ASSUME NEW i \in DOMAIN running PROVE running'[i].run = running[i].run
  <2>1. \/ running'[i] = Terminate(running[i], FALSE, FALSE)
        \/ running'[i] = Observe(running[i], seen[i])
        \/ running'[i] = running[i]
    BY <1>1 DEF Reconciled
  <2> QED
    BY <1>2, <2>1 DEF Observe, Terminate, Entry
<1> QED
  BY <1>1, <1>3, ReconcileKeepsDomain, CancelKeepsRuns DEF SameRuns, TypeOK

LEMMA NextRuns ==
    ASSUME TypeOK, ClaimedIsRunningOrRetrying, RunsInv, [Next]_vars
    PROVE  RunsInv'
<1>1. events \in Seq(Event) /\ IsMap(worker, Runs, Worker)
  BY DEF TypeOK
<1>2. SUFFICES ASSUME Next PROVE RunsInv'
  <2>1. CASE UNCHANGED vars
    BY <1>1, <2>1, KeptIsDropped, DroppedRuns DEF SameRuns, vars
  <2> QED
    BY <1>2, <2>1
<1>3. ASSUME UNCHANGED <<running, worker, events>>, rootDone' = rootDone
      PROVE  RunsInv'
  BY <1>1, <1>3, KeptIsDropped, DroppedRuns DEF SameRuns
<1>4. ASSUME UNCHANGED <<running, worker, rootDone>>, Receive, Head(events).kind # "exit"
      PROVE  RunsInv'
  BY <1>1, <1>4, ReceivedIsDropped, DroppedRuns DEF SameRuns
<1>5. ASSUME UNCHANGED <<running, worker, rootDone>>, NEW e \in Event, Appended(e),
             e.kind # "exit",
             e.kind = "update" => /\ e.run \in DOMAIN worker
                                  /\ e.issue = worker[e.run].issue
      PROVE  RunsInv'
  BY <1>5, AppendedRuns DEF SameRuns
<1>6. CASE OnTick
  <2>1. SameRuns /\ rootDone' = rootDone
    BY <1>6, ReconcileKeepsRuns DEF OnTick
  <2>2. Dropped(1)
    BY <1>1, <1>6, ReceivedIsDropped DEF OnTick, TickEvent
  <2> QED
    BY <2>1, <2>2, DroppedRuns
<1>7. ASSUME NEW i \in Issues, NEW ok \in BOOLEAN, OnWorkerExit(i, ok)
      PROVE  RunsInv'
  <2>1. 1 \in QueuedAs("exit") /\ Head(events) = events[1]
    BY <1>1, <1>7, HeadTailProperties, LenProperties DEF OnWorkerExit, Receive, QueuedAs
  <2>2. i \in DOMAIN running
    BY <1>7, <2>1 DEF OnWorkerExit, RunsInv, EventsReachTheirRun
  <2> QED
    BY <1>7, <2>2, ExitHandledRuns DEF OnWorkerExit
<1>8. ASSUME NEW i \in Issues, NEW s \in States, TickDispatches(i, s)
      PROVE  RunsInv'
  <2>1. /\ rootDone' = rootDone /\ Dropped(0) /\ i \notin DOMAIN running
        /\ DispatchIssue(i, s, 0)
    BY <1>1, <1>8, KeptIsDropped DEF TickDispatches
  <2> QED
    BY <2>1, DispatchedRuns
<1>9. ASSUME NEW i \in Issues, NEW s \in States, RetryDispatches(i, s)
      PROVE  RunsInv'
  <2>1. /\ rootDone' = rootDone /\ Receive /\ Head(events) = RetryTimerFired(i)
        /\ i \in DOMAIN retry /\ DispatchIssue(i, s, retry[i].attempt)
    BY <1>9 DEF RetryDispatches, RetryIsDue
  <2>2. Dropped(1)
    BY <1>1, <2>1, ReceivedIsDropped DEF RetryTimerFired
  <2>3. i \notin DOMAIN running
    BY <2>1 DEF ClaimedIsRunningOrRetrying
  <2> QED
    BY <2>1, <2>2, <2>3, DispatchedRuns
<1>10. CASE \/ OnAgentUpdate \/ OnReload \/ OnReloadFails \/ OnRefreshRequest
            \/ \E i \in Issues : RetryIsPutOff(i) \/ RetryReleases(i)
  BY <1>4, <1>10 DEF OnAgentUpdate, OnReload, OnReloadFails, OnRefreshRequest,
     RefreshRequest, RetryIsPutOff, RetryReleases, RetryIsDue,
     RetryTimerFired
<1>11. CASE StartLoop \/ TickFetchFails \/ TickFetched \/ TickDone \/ Terminated
  BY <1>3, <1>11 DEF StartLoop, TickFetchFails, TickFetched, TickDone, Terminated, vars
<1>12. CASE Shutdown \/ RootIsCancelled
  <2>1. SameRuns /\ UNCHANGED events /\ (rootDone => rootDone')
    BY <1>1, <1>12, CancelKeepsRuns DEF Shutdown, RootIsCancelled, SameRuns
  <2> QED
    BY <1>1, <2>1, KeptIsDropped, DroppedRuns
<1>13. CASE TickTimerFires
  <2>1. TickEvent \in Event /\ TickEvent.kind = "tick"
    BY DEF TickEvent, Event
  <2>2. Appended(TickEvent) \/ UNCHANGED events
    BY <1>1, <1>13, <2>1, PostedIsAppended DEF TickTimerFires
  <2> QED
    BY <1>3, <1>5, <1>13, <2>1, <2>2 DEF TickTimerFires
<1>14. ASSUME NEW i \in Issues, RetryTimerFires(i)
       PROVE  RunsInv'
  <2>1. RetryTimerFired(i) \in Event /\ RetryTimerFired(i).kind = "retry"
    BY DEF RetryTimerFired, Event
  <2>2. Appended(RetryTimerFired(i)) \/ UNCHANGED events
    BY <1>1, <1>14, <2>1, PostedIsAppended DEF RetryTimerFires
  <2> QED
    BY <1>3, <1>5, <1>14, <2>1, <2>2 DEF RetryTimerFires
<1>15. CASE RefreshIsRequested
  <2>1. RefreshRequest \in Event /\ RefreshRequest.kind = "refresh"
    BY DEF RefreshRequest, Event
  <2>2. Appended(RefreshRequest)
    BY <1>1, <1>15, <2>1, AppendProperties, LenProperties
       DEF RefreshIsRequested, TrySend, Appended
  <2> QED
    BY <1>5, <1>15, <2>1, <2>2 DEF RefreshIsRequested
<1>16. ASSUME NEW c \in Configs, ReloadIsPosted(c)
       PROVE  RunsInv'
  <2>1. ReloadConfig(c) \in Event /\ ReloadConfig(c).kind = "reload"
    BY DEF ReloadConfig, Event
  <2>2. Appended(ReloadConfig(c))
    BY <1>1, <1>16, <2>1, AppendProperties, LenProperties
       DEF ReloadIsPosted, TrySend, Appended
  <2> QED
    BY <1>5, <1>16, <2>1, <2>2 DEF ReloadIsPosted
<1>17. ASSUME NEW r \in Runs, WorkerEmits(r)
       PROVE  RunsInv'
  <2> DEFINE e == AgentUpdate(worker[r].issue, r)
  <2>1. r \in DOMAIN worker /\ worker[r].issue \in Issues
    BY <1>1, <1>17 DEF WorkerEmits, IsMap, Worker
  <2>2. e \in Event /\ e.kind = "update" /\ e.run = r /\ e.issue = worker[r].issue
    BY <2>1 DEF AgentUpdate, Event
  <2>3. Post(e) /\ UNCHANGED <<running, worker, rootDone>>
    BY <1>17 DEF WorkerEmits
  <2> HIDE DEF e
  <2>4. Appended(e) \/ UNCHANGED events
    BY <1>1, <2>2, <2>3, PostedIsAppended
  <2> QED
    BY <1>3, <1>5, <2>1, <2>2, <2>3, <2>4
<1>18. ASSUME NEW r \in Runs, NEW ok \in BOOLEAN, WorkerReturns(r, ok)
       PROVE  RunsInv'
  <2> DEFINE e == WorkerExit(worker[r].issue, r, ok)
  <2>1. r \in DOMAIN worker /\ worker[r].issue \in Issues
    BY <1>1, <1>18 DEF WorkerReturns, IsMap, Worker
  <2>2. e \in Event /\ e.kind = "exit" /\ e.run = r /\ e.issue = worker[r].issue
    BY <2>1 DEF WorkerExit, Event
  <2>3. Post(e) /\ UNCHANGED <<running, rootDone>> /\ worker' = Del(worker, r)
    BY <1>18 DEF WorkerReturns
  <2> HIDE DEF e
  <2>4. Appended(e) \/ (rootDone /\ UNCHANGED events)
    BY <1>1, <2>2, <2>3, PostedIsAppended
  <2>5. CASE Appended(e)
    BY <2>1, <2>2, <2>3, <2>5, ExitPostedRuns
  <2>6. CASE rootDone /\ UNCHANGED events
    BY <2>1, <2>3, <2>6, ExitLostRuns
  <2> QED
    BY <2>4, <2>5, <2>6
<1>19. CASE SenderGivesUp
  <2>1. PICK k \in DOMAIN events : events' = RemoveAt(events, k)
    BY <1>19 DEF SenderGivesUp
  <2> QED
    BY <1>1, <1>19, <2>1, RemovedRuns DEF SenderGivesUp
<1>20. ASSUME Loop PROVE RunsInv'
  BY <1>6, <1>7, <1>8, <1>9, <1>10, <1>11, <1>12, <1>20, Zenon DEF Loop
<1> QED
  BY <1>2, <1>11, <1>12, <1>13, <1>14, <1>15, <1>16, <1>17, <1>18, <1>19, <1>20,
     Zenon DEF Next

\* Entries, goroutines and queued events correspond, whatever the order in
\* which workers end, stall and are retried.
THEOREM RunsCorrespond == Spec => []RunsInv
<1>1. Init => RunsInv
  BY DEF Init, EmptyMap, RunsInv, EventsReachTheirRun, QueuedAs, UpdatesOf
<1>2. TypeOK /\ ClaimedIsRunningOrRetrying /\ RunsInv /\ [Next]_vars => RunsInv'
  BY NextRuns
<1> QED
  BY <1>1, <1>2, TypeCorrect, ClaimsAreExact, PTL DEF Spec

\* An update or an exit names only the issue, and yet reaches the run that
\* sent it.
THEOREM EventsAreNotMixedUp == Spec => []EventsReachTheirRun
<1>1. RunsInv => EventsReachTheirRun
  BY DEF RunsInv
<1> QED
  BY <1>1, RunsCorrespond, PTL

LEMMA OneOrNone ==
    ASSUME NEW S, NEW x, S \subseteq {x}
    PROVE  Cardinality(S) = IF S = {} THEN 0 ELSE 1
<1>1. CASE S = {}
  BY <1>1, FS_EmptySet
<1>2. CASE S = {x}
  BY <1>2, FS_Singleton
<1> QED
  BY <1>1, <1>2

LEMMA RunsAreOne == RunsInv => OneWorkerPerIssue
<1> SUFFICES ASSUME RunsInv, NEW i \in Issues
             PROVE  LET n == Cardinality(WorkersOf(i)) + Cardinality(ExitsFor(i))
                    IN IF i \in DOMAIN running THEN n = 1 \/ (rootDone /\ n = 0) ELSE n = 0
  BY DEF OneWorkerPerIssue
<1>1. CASE i \notin DOMAIN running
  <2>1. WorkersOf(i) = {} /\ ExitsFor(i) = {}
    BY <1>1 DEF RunsInv, EventsReachTheirRun, WorkersOf, ExitsFor
  <2> QED
    BY <1>1, <2>1, FS_EmptySet
<1>2. CASE i \in DOMAIN running
  <2> DEFINE r == running[i].run
  <2>1. WorkersOf(i) \subseteq {r}
    BY DEF RunsInv, WorkersOf
  <2>2. \A k \in ExitsFor(i) : k \in QueuedAs("exit") /\ events[k].run = r
    BY DEF RunsInv, EventsReachTheirRun, ExitsFor
  <2>3. PICK x : ExitsFor(i) \subseteq {x}
    <3>1. \A j, k \in ExitsFor(i) : j = k
      BY <2>2 DEF RunsInv
    <3> QED
      BY <3>1
  <2>4. WorkersOf(i) = {} \/ ExitsFor(i) = {}
    BY <2>1, <2>2 DEF RunsInv, WorkersOf
  <2>5. rootDone \/ WorkersOf(i) # {} \/ ExitsFor(i) # {}
    <3>1. CASE r \in DOMAIN worker
      <4>1. worker[r].issue \in DOMAIN running /\ running[worker[r].issue].run = r
        BY <3>1 DEF RunsInv
      <4>2. worker[r].issue = i
        BY <1>2, <4>1 DEF RunsInv
      <4> QED
        BY <3>1, <4>2 DEF WorkersOf
    <3>2. ASSUME NEW k \in ExitsOf(r)
          PROVE  ExitsFor(i) # {}
      <4>1. /\ k \in QueuedAs("exit") /\ events[k].run = r
            /\ events[k].issue \in DOMAIN running
            /\ running[events[k].issue].run = r
        BY DEF ExitsOf, RunsInv, EventsReachTheirRun
      <4>2. events[k].issue = i
        BY <1>2, <4>1 DEF RunsInv
      <4> QED
        BY <4>1, <4>2 DEF ExitsFor
    <3>3. rootDone \/ r \in DOMAIN worker \/ ExitsOf(r) # {}
      BY <1>2 DEF RunsInv
    <3> QED
      BY <3>1, <3>2, <3>3
  <2>6. /\ Cardinality(WorkersOf(i)) = IF WorkersOf(i) = {} THEN 0 ELSE 1
        /\ Cardinality(ExitsFor(i)) = IF ExitsFor(i) = {} THEN 0 ELSE 1
    BY <2>1, <2>3, OneOrNone
  <2> QED
    BY <1>2, <2>4, <2>5, <2>6
<1> QED
  BY <1>1, <1>2

\* No two goroutines ever work on one issue, and none that ends is forgotten.
THEOREM OneWorker == Spec => []OneWorkerPerIssue
BY RunsAreOne, RunsCorrespond, PTL


-----------------------------------------------------------------------------
(* Slots *)

RunningIsFinite == IsFiniteSet(DOMAIN running)

\* Which issues are running, in one step: one joins by a dispatch, one leaves
\* when its exit is handled, or nothing changes.
LEMMA RunningMoves ==
    ASSUME [Next]_vars
    PROVE  \/ DOMAIN running' = DOMAIN running
           \/ \E i \in Issues, ok \in BOOLEAN :
                 /\ i \in DOMAIN running /\ OnWorkerExit(i, ok)
                 /\ DOMAIN running' = DOMAIN running \ {i}
           \/ \E i \in Issues, s \in States :
                 /\ TickDispatches(i, s) \/ RetryDispatches(i, s)
                 /\ DOMAIN running' = DOMAIN running \cup {i}
<1>1. CASE OnTick
  BY <1>1, ReconcileKeepsDomain DEF OnTick
<1>2. ASSUME NEW i \in Issues, NEW ok \in BOOLEAN, OnWorkerExit(i, ok)
      PROVE  \/ DOMAIN running' = DOMAIN running
             \/ i \in DOMAIN running /\ DOMAIN running' = DOMAIN running \ {i}
  BY <1>2, MapDomains DEF OnWorkerExit
<1>3. ASSUME NEW i \in Issues, NEW s \in States,
             TickDispatches(i, s) \/ RetryDispatches(i, s)
      PROVE  DOMAIN running' = DOMAIN running \cup {i}
  <2>1. PICK n : DispatchIssue(i, s, n)
    BY <1>3 DEF TickDispatches, RetryDispatches
  <2>2. PICK v : running' = Put(running, i, v)
    BY <2>1, Zenon DEF DispatchIssue
  <2> QED
    BY <2>2, MapDomains
<1>4. CASE \/ StartLoop \/ TickFetchFails \/ TickFetched \/ TickDone
           \/ OnAgentUpdate \/ OnReload \/ OnReloadFails \/ OnRefreshRequest \/ Shutdown
           \/ \E i \in Issues : RetryIsPutOff(i) \/ RetryReleases(i)
  BY <1>4 DEF StartLoop, TickFetchFails, TickFetched, TickDone, OnAgentUpdate, OnReload,
     OnReloadFails, OnRefreshRequest, Shutdown, RetryIsPutOff, RetryReleases
<1>5. CASE Loop
  BY <1>1, <1>2, <1>3, <1>4, <1>5, Zenon DEF Loop
<1>6. CASE \/ TickTimerFires \/ RefreshIsRequested \/ RootIsCancelled
           \/ SenderGivesUp \/ Terminated \/ UNCHANGED vars
           \/ \E i \in Issues : RetryTimerFires(i)
           \/ \E r \in Runs : WorkerEmits(r) \/ \E ok \in BOOLEAN : WorkerReturns(r, ok)
           \/ \E c \in Configs : ReloadIsPosted(c)
  BY <1>6 DEF TickTimerFires, RefreshIsRequested, RootIsCancelled, SenderGivesUp,
     Terminated, vars, RetryTimerFires, WorkerEmits, WorkerReturns, ReloadIsPosted
<1> QED
  BY <1>5, <1>6 DEF Next

THEOREM FinitelyManyRunning == Spec => []RunningIsFinite
<1>1. Init => RunningIsFinite
  BY FS_EmptySet DEF Init, EmptyMap, RunningIsFinite
<1>2. RunningIsFinite /\ [Next]_vars => RunningIsFinite'
  <2> SUFFICES ASSUME RunningIsFinite, [Next]_vars PROVE RunningIsFinite'
    OBVIOUS
  <2>1. \/ DOMAIN running' = DOMAIN running
        \/ \E i : DOMAIN running' = DOMAIN running \ {i}
        \/ \E i : DOMAIN running' = DOMAIN running \cup {i}
    BY RunningMoves
  <2>2. ASSUME NEW i, DOMAIN running' = DOMAIN running \ {i} PROVE RunningIsFinite'
    BY <2>2, FS_RemoveElement DEF RunningIsFinite
  <2>3. ASSUME NEW i, DOMAIN running' = DOMAIN running \cup {i} PROVE RunningIsFinite'
    BY <2>3, FS_AddElement DEF RunningIsFinite
  <2> QED
    BY <2>1, <2>2, <2>3 DEF RunningIsFinite
<1> QED
  BY <1>1, <1>2, PTL DEF Spec

LEMMA DispatchRespectsSlots ==
    ASSUME TypeOK, RunningIsFinite, NEW i \in Issues, i \notin DOMAIN running,
           NEW s \in States, HasSlot(s), NEW n, DispatchIssue(i, s, n)
    PROVE  LET same == {j \in DOMAIN running' : running'[j].state = running'[i].state}
           IN /\ Cardinality(DOMAIN running') <= cfg.max
              /\ Cardinality(same) <= cfg.limit[running'[i].state]
<1> DEFINE same == {j \in DOMAIN running : running[j].state = s}
<1>1. PICK r : running' = Put(running, i,
               [run |-> r, state |-> s, labelled |-> TRUE, attempt |-> n,
                terminating |-> FALSE, cleanup |-> FALSE, release |-> FALSE])
  BY Zenon DEF DispatchIssue
<1>2. /\ DOMAIN running' = DOMAIN running \cup {i}
      /\ running'[i].state = s
      /\ \A j \in DOMAIN running : running'[j] = running[j]
  BY <1>1 DEF Put
<1>3. {j \in DOMAIN running' : running'[j].state = running'[i].state} = same \cup {i}
  BY <1>2
<1>4. cfg.max \in Int /\ cfg.limit[s] \in Int
  BY ConfigsAssumption, BoundsAssumption DEF TypeOK, Config
<1>5. IsFiniteSet(same)
  BY FS_Subset DEF RunningIsFinite
<1>6. i \notin same
  OBVIOUS
<1>7. Cardinality(same) < cfg.limit[s] /\ Cardinality(DOMAIN running) < cfg.max
  BY DEF HasSlot, RunningCountByState
<1> HIDE DEF same
<1>8. /\ Cardinality(same) \in Nat /\ Cardinality(same \cup {i}) = Cardinality(same) + 1
  BY <1>5, <1>6, FS_AddElement, FS_CardinalityType
<1>9. /\ Cardinality(DOMAIN running) \in Nat
      /\ Cardinality(DOMAIN running') = Cardinality(DOMAIN running) + 1
  BY <1>2, FS_AddElement, FS_CardinalityType DEF RunningIsFinite
<1>10. /\ Cardinality(DOMAIN running') <= cfg.max
       /\ Cardinality(same \cup {i}) <= cfg.limit[s]
  BY <1>4, <1>7, <1>8, <1>9
<1>11. cfg.limit[running'[i].state] = cfg.limit[s]
  BY <1>2
<1> QED
  BY <1>3, <1>10, <1>11, Zenon

\* No dispatch takes a slot beyond the limits now in force.
THEOREM SlotsRespected == Spec => SlotsAreRespected
<1>1. ASSUME TypeOK, ClaimedIsRunningOrRetrying, RunningIsFinite, [Next]_vars
      PROVE  \A i \in DOMAIN running' \ DOMAIN running :
                LET same == {j \in DOMAIN running' : running'[j].state = running'[i].state}
                IN /\ Cardinality(DOMAIN running') <= cfg.max
                   /\ Cardinality(same) <= cfg.limit[running'[i].state]
  <2> SUFFICES ASSUME NEW i \in DOMAIN running' \ DOMAIN running
               PROVE  LET same == {j \in DOMAIN running' : running'[j].state = running'[i].state}
                      IN /\ Cardinality(DOMAIN running') <= cfg.max
                         /\ Cardinality(same) <= cfg.limit[running'[i].state]
    OBVIOUS
  <2>1. PICK k \in Issues, s \in States :
           /\ TickDispatches(k, s) \/ RetryDispatches(k, s)
           /\ DOMAIN running' = DOMAIN running \cup {k}
    BY <1>1, RunningMoves
  <2>2. k = i
    BY <2>1
  <2>3. PICK n : HasSlot(s) /\ DispatchIssue(i, s, n)
    BY <2>1, <2>2 DEF TickDispatches, RetryDispatches
  <2> QED
    BY <1>1, <2>2, <2>3, DispatchRespectsSlots
<1> QED
  BY <1>1, TypeCorrect, ClaimsAreExact, FinitelyManyRunning, PTL DEF Spec, SlotsAreRespected

-----------------------------------------------------------------------------
(* Termination *)

LEMMA ReconcileKeepsTerminating ==
    ASSUME Reconcile, NEW i \in DOMAIN running, running[i].terminating
    PROVE  running'[i] = running[i]
<1>1. PICK stalled \in SUBSET (IF cfg.stall THEN Undecided ELSE {}) :
        \E seen \in Refreshes(IF FetchCanSucceed THEN Undecided \ stalled ELSE {}) :
           running' = Reconciled(stalled, seen)
  BY Zenon DEF Reconcile
<1>0. PICK seen \in Refreshes(IF FetchCanSucceed THEN Undecided \ stalled ELSE {}) :
         running' = Reconciled(stalled, seen)
  BY <1>1
<1>2. DOMAIN seen \subseteq Undecided
  BY DEF Refreshes
<1>3. i \notin Undecided
  BY DEF Undecided
<1>4. i \notin stalled /\ i \notin DOMAIN seen
  BY <1>2, <1>3
<1> QED
  BY <1>0, <1>4 DEF Reconciled

\* A decision to terminate is taken once, and decides what becomes of the issue.
THEOREM TerminationStands == Spec => TerminationDecisionStands
<1>1. ASSUME ClaimedIsRunningOrRetrying, [Next]_vars
      PROVE  \A i \in DOMAIN running : running[i].terminating =>
               \/ i \in DOMAIN running' /\ running'[i] = running[i]
               \/ i \notin DOMAIN running' /\ (running[i].release <=> i \notin claimed')
  <2> SUFFICES ASSUME NEW i \in DOMAIN running, running[i].terminating
               PROVE  \/ i \in DOMAIN running' /\ running'[i] = running[i]
                      \/ i \notin DOMAIN running' /\ (running[i].release <=> i \notin claimed')
    OBVIOUS
  <2>1. CASE OnTick
    BY <2>1, ReconcileKeepsDomain, ReconcileKeepsTerminating DEF OnTick
  <2>2. ASSUME NEW k \in Issues, NEW ok \in BOOLEAN, OnWorkerExit(k, ok)
        PROVE  \/ i \in DOMAIN running' /\ running'[i] = running[i]
               \/ i \notin DOMAIN running' /\ (running[i].release <=> i \notin claimed')
    <3>1. CASE k \notin DOMAIN running \/ k # i
      BY <2>2, <3>1 DEF OnWorkerExit, Del
    <3>2. CASE k = i
      BY <2>2, <3>2 DEF OnWorkerExit, Del, ScheduleRetry
    <3> QED
      BY <3>1, <3>2
  <2>3. ASSUME NEW k \in Issues, NEW s \in States,
               TickDispatches(k, s) \/ RetryDispatches(k, s)
        PROVE  i \in DOMAIN running' /\ running'[i] = running[i]
    <3>1. k \notin DOMAIN running
      BY <1>1, <2>3 DEF TickDispatches, RetryDispatches, RetryIsDue,
         ClaimedIsRunningOrRetrying
    <3>2. PICK n : DispatchIssue(k, s, n)
      BY <2>3 DEF TickDispatches, RetryDispatches
    <3>3. PICK v : running' = Put(running, k, v)
      BY <3>2, Zenon DEF DispatchIssue
    <3> QED
      BY <3>1, <3>3 DEF Put
  <2>4. CASE \/ StartLoop \/ TickFetchFails \/ TickFetched \/ TickDone
             \/ OnAgentUpdate \/ OnReload \/ OnReloadFails \/ OnRefreshRequest \/ Shutdown
             \/ \E k \in Issues : RetryIsPutOff(k) \/ RetryReleases(k)
    BY <2>4 DEF StartLoop, TickFetchFails, TickFetched, TickDone, OnAgentUpdate, OnReload,
       OnReloadFails, OnRefreshRequest, Shutdown, RetryIsPutOff, RetryReleases
  <2>5. CASE Loop
    BY <2>1, <2>2, <2>3, <2>4, <2>5, Zenon DEF Loop
  <2>6. CASE \/ TickTimerFires \/ RefreshIsRequested \/ RootIsCancelled
             \/ SenderGivesUp \/ Terminated \/ UNCHANGED vars
             \/ \E k \in Issues : RetryTimerFires(k)
             \/ \E r \in Runs : WorkerEmits(r) \/ \E ok \in BOOLEAN : WorkerReturns(r, ok)
             \/ \E c \in Configs : ReloadIsPosted(c)
    BY <2>6 DEF TickTimerFires, RefreshIsRequested, RootIsCancelled, SenderGivesUp,
       Terminated, vars, RetryTimerFires, WorkerEmits, WorkerReturns, ReloadIsPosted
  <2> QED
    BY <1>1, <2>5, <2>6 DEF Next
<1> QED
  BY <1>1, ClaimsAreExact, PTL DEF Spec, TerminationDecisionStands

-----------------------------------------------------------------------------
(* Refinement *)

LEMMA ClaimChanges ==
    ASSUME NEW i \in Issues, NEW c, ClaimOf(i)' = c,
           \A j \in Issues : j # i => ClaimOf(j)' = ClaimOf(j)
    PROVE  [j \in Issues |-> ClaimOf(j)]' = [[j \in Issues |-> ClaimOf(j)] EXCEPT ![i] = c]
OBVIOUS

LEMMA RunningIssuesAre ==
    ASSUME TypeOK
    PROVE  Lifecycle!RunningIssues = DOMAIN running
BY DEF TypeOK, IsMap, Lifecycle!RunningIssues, ClaimOf

\* The cardinality that ClaimLifecycle speaks of is that of Orchestrator.
LEMMA SameCardinality ==
    ASSUME NEW S
    PROVE  Lifecycle!Cardinality(S) = Cardinality(S)
BY DEF Cardinality, Lifecycle!Cardinality

LEMMA DispatchRefines ==
    ASSUME TypeOK, RunningIsFinite, NEW i \in Issues, i \notin DOMAIN running,
           NEW s \in States, HasSlot(s), NEW n, DispatchIssue(i, s, n)
    PROVE  Lifecycle!Dispatch(i)
<1>1. PICK r \in FreshRuns :
         /\ running' = Put(running, i,
               [run |-> r, state |-> s, labelled |-> TRUE, attempt |-> n,
                terminating |-> FALSE, cleanup |-> FALSE, release |-> FALSE])
         /\ retry' = Del(retry, i)
         /\ worker' = Put(worker, r, [issue |-> i, cancelled |-> rootDone])
  BY Zenon DEF DispatchIssue
<1>2. /\ DOMAIN running' = DOMAIN running \cup {i}
      /\ DOMAIN retry' = DOMAIN retry \ {i}
  BY <1>1, MapDomains
<1>3. [j \in Issues |-> ClaimOf(j)]' = [[j \in Issues |-> ClaimOf(j)] EXCEPT ![i] = "Running"]
  <2>1. ClaimOf(i)' = "Running"
    BY <1>2 DEF ClaimOf
  <2>2. \A j \in Issues : j # i => ClaimOf(j)' = ClaimOf(j)
    BY <1>2 DEF ClaimOf
  <2> QED
    BY <2>1, <2>2, ClaimChanges
<1>4. {worker[q].issue : q \in DOMAIN worker}' = {worker[q].issue : q \in DOMAIN worker} \cup {i}
  <2>1. r \notin DOMAIN worker
    BY DEF FreshRuns
  <2>2. /\ DOMAIN worker' = DOMAIN worker \cup {r} /\ worker'[r].issue = i
        /\ \A q \in DOMAIN worker : worker'[q] = worker[q]
    BY <1>1, <2>1 DEF Put
  <2> QED
    BY <2>2
<1>5. Cardinality(DOMAIN running) < MaxSlots
  <2>1. cfg.max \in 0..MaxSlots /\ Cardinality(DOMAIN running) < cfg.max
    BY ConfigsAssumption DEF TypeOK, Config, HasSlot
  <2> QED
    BY <2>1, BoundsAssumption, FS_CardinalityType DEF RunningIsFinite
<1>6. ClaimOf(i) # "Running"
  BY DEF ClaimOf
<1> QED
  <2>1. Lifecycle!Cardinality(Lifecycle!RunningIssues) < MaxSlots
    BY <1>5, RunningIssuesAre, SameCardinality
  <2>2. [j \in Issues |-> ClaimOf(j)][i] # "Running"
    BY <1>6
  <2> QED
    BY <1>3, <1>4, <2>1, <2>2 DEF Lifecycle!Dispatch

\* Nothing the lifecycle sees: the same issues run, wait and have a goroutine.
Unseen ==
    /\ DOMAIN running' = DOMAIN running
    /\ DOMAIN retry' = DOMAIN retry
    /\ {worker[r].issue : r \in DOMAIN worker}' = {worker[r].issue : r \in DOMAIN worker}

LEMMA UnseenStutters ==
    ASSUME Unseen
    PROVE  UNCHANGED Lifecycle!vars
<1>1. \A i \in Issues : ClaimOf(i)' = ClaimOf(i)
  BY DEF Unseen, ClaimOf
<1>2. [j \in Issues |-> ClaimOf(j)]' = [j \in Issues |-> ClaimOf(j)]
  BY <1>1
<1> QED
  BY <1>2 DEF Unseen, Lifecycle!vars

LEMMA SameRunsAreUnseen ==
    ASSUME SameRuns, DOMAIN retry' = DOMAIN retry
    PROVE  Unseen
BY DEF SameRuns, Unseen

LEMMA ScheduleRetryDomain ==
    ASSUME NEW i, NEW n, ScheduleRetry(i, n)
    PROVE  DOMAIN retry' = DOMAIN retry \cup {i}
BY MapDomains DEF ScheduleRetry

LEMMA ExitRefines ==
    ASSUME TypeOK, ClaimedIsRunningOrRetrying, RunsInv,
           NEW i \in Issues, NEW ok \in BOOLEAN, OnWorkerExit(i, ok)
    PROVE  Lifecycle!QueueRetry(i) \/ Lifecycle!Release(i)
<1>1. 1 \in QueuedAs("exit") /\ events[1].issue = i
  BY HeadTailProperties, LenProperties DEF OnWorkerExit, Receive, QueuedAs, TypeOK
<1>2. i \in DOMAIN running /\ running[i].run \notin DOMAIN worker
  BY <1>1 DEF RunsInv, EventsReachTheirRun
<1>3. i \notin {worker[r].issue : r \in DOMAIN worker}
  BY <1>2 DEF RunsInv
<1>4. UNCHANGED {worker[r].issue : r \in DOMAIN worker}
  BY DEF OnWorkerExit
<1>5. ClaimOf(i) = "Running" /\ i \notin DOMAIN retry
  BY <1>2 DEF ClaimOf, ClaimedIsRunningOrRetrying
<1>6. DOMAIN running' = DOMAIN running \ {i}
  BY <1>2, MapDomains DEF OnWorkerExit
<1>7. CASE running[i].release
  <2>1. retry' = retry
    BY <1>2, <1>7 DEF OnWorkerExit
  <2>2. ClaimOf(i)' = "Unclaimed" /\ \A j \in Issues : j # i => ClaimOf(j)' = ClaimOf(j)
    BY <1>5, <1>6, <2>1 DEF ClaimOf
  <2>3. [j \in Issues |-> ClaimOf(j)]' = [[j \in Issues |-> ClaimOf(j)] EXCEPT ![i] = "Unclaimed"]
    BY <2>2, ClaimChanges
  <2> QED
    BY <1>3, <1>4, <1>5, <2>3 DEF Lifecycle!Release
<1>8. CASE ~running[i].release
  <2>1. DOMAIN retry' = DOMAIN retry \cup {i}
    BY <1>2, <1>8, ScheduleRetryDomain DEF OnWorkerExit
  <2>2. ClaimOf(i)' = "RetryQueued" /\ \A j \in Issues : j # i => ClaimOf(j)' = ClaimOf(j)
    BY <1>6, <2>1 DEF ClaimOf
  <2>3. [j \in Issues |-> ClaimOf(j)]' = [[j \in Issues |-> ClaimOf(j)] EXCEPT ![i] = "RetryQueued"]
    BY <2>2, ClaimChanges
  <2> QED
    BY <1>3, <1>4, <1>5, <2>3 DEF Lifecycle!QueueRetry
<1> QED
  BY <1>7, <1>8

LEMMA ReleaseRefines ==
    ASSUME ClaimedIsRunningOrRetrying, RunsInv, NEW i \in Issues, RetryReleases(i)
    PROVE  Lifecycle!Release(i)
<1>1. i \in DOMAIN retry /\ i \notin DOMAIN running
  BY DEF RetryReleases, RetryIsDue, ClaimedIsRunningOrRetrying
<1>2. DOMAIN running' = DOMAIN running /\ DOMAIN retry' = DOMAIN retry \ {i}
  BY MapDomains DEF RetryReleases
<1>3. ClaimOf(i)' = "Unclaimed" /\ \A j \in Issues : j # i => ClaimOf(j)' = ClaimOf(j)
  BY <1>1, <1>2 DEF ClaimOf
<1>4. [j \in Issues |-> ClaimOf(j)]' = [[j \in Issues |-> ClaimOf(j)] EXCEPT ![i] = "Unclaimed"]
  BY <1>3, ClaimChanges
<1>5. i \notin {worker[r].issue : r \in DOMAIN worker}
  BY <1>1 DEF RunsInv
<1>6. UNCHANGED {worker[r].issue : r \in DOMAIN worker} /\ ClaimOf(i) # "Unclaimed"
  BY <1>1 DEF RetryReleases, ClaimOf
<1> QED
  BY <1>4, <1>5, <1>6 DEF Lifecycle!Release

LEMMA ReturnRefines ==
    ASSUME TypeOK, RunsInv, NEW r \in Runs, NEW ok \in BOOLEAN, WorkerReturns(r, ok)
    PROVE  \E i \in Issues : Lifecycle!WorkerEnds(i)
<1> DEFINE i == worker[r].issue
<1>1. r \in DOMAIN worker /\ i \in Issues
  BY DEF WorkerReturns, TypeOK, IsMap, Worker
<1>2. DOMAIN worker' = DOMAIN worker \ {r} /\ \A q \in DOMAIN worker' : worker'[q] = worker[q]
  BY DEF WorkerReturns, Del
<1>3. \A q \in DOMAIN worker : q # r => worker[q].issue # i
  BY <1>1 DEF RunsInv
<1>4. {worker[q].issue : q \in DOMAIN worker}' = {worker[q].issue : q \in DOMAIN worker} \ {i}
  BY <1>1, <1>2, <1>3
<1>5. UNCHANGED [j \in Issues |-> ClaimOf(j)]
  BY DEF WorkerReturns, ClaimOf
<1> QED
  BY <1>1, <1>4, <1>5 DEF Lifecycle!WorkerEnds

LEMMA LoopRefines ==
    ASSUME TypeOK, ClaimedIsRunningOrRetrying, RunningIsFinite, RunsInv, Loop
    PROVE  [Lifecycle!Next]_Lifecycle!vars
<1>1. CASE OnTick
  <2>1. SameRuns /\ DOMAIN retry' = DOMAIN retry
    BY <1>1, ReconcileKeepsRuns DEF OnTick
  <2> QED
    BY <2>1, SameRunsAreUnseen, UnseenStutters
<1>2. ASSUME NEW i \in Issues, NEW ok \in BOOLEAN, OnWorkerExit(i, ok)
      PROVE  Lifecycle!Next
  BY <1>2, ExitRefines DEF Lifecycle!Next
<1>3. ASSUME NEW i \in Issues, RetryReleases(i) PROVE Lifecycle!Next
  BY <1>3, ReleaseRefines DEF Lifecycle!Next
<1>4. ASSUME NEW i \in Issues, NEW s \in States,
             TickDispatches(i, s) \/ RetryDispatches(i, s)
      PROVE  Lifecycle!Next
  <2>1. i \notin DOMAIN running
    BY <1>4 DEF TickDispatches, RetryDispatches, RetryIsDue, ClaimedIsRunningOrRetrying
  <2>2. PICK n : HasSlot(s) /\ DispatchIssue(i, s, n)
    BY <1>4 DEF TickDispatches, RetryDispatches
  <2>3. Lifecycle!Dispatch(i)
    BY <2>1, <2>2, DispatchRefines
  <2> QED
    BY <2>3 DEF Lifecycle!Next
<1>5. ASSUME NEW i \in Issues, RetryIsPutOff(i) PROVE UNCHANGED Lifecycle!vars
  <2>1. DOMAIN retry' = DOMAIN retry
    BY <1>5, ScheduleRetryDomain DEF RetryIsPutOff
  <2>2. Unseen
    BY <1>5, <2>1 DEF RetryIsPutOff, Unseen
  <2> QED
    BY <2>2, UnseenStutters
<1>6. CASE Shutdown
  <2>1. SameRuns /\ DOMAIN retry' = DOMAIN retry
    BY <1>6, CancelKeepsRuns DEF Shutdown, SameRuns, TypeOK
  <2> QED
    BY <2>1, SameRunsAreUnseen, UnseenStutters
<1>7. CASE \/ StartLoop \/ TickFetchFails \/ TickFetched \/ TickDone
           \/ OnAgentUpdate \/ OnReload \/ OnReloadFails \/ OnRefreshRequest
  <2>1. UNCHANGED <<running, retry, worker>>
    BY <1>7 DEF StartLoop, TickFetchFails, TickFetched, TickDone, OnAgentUpdate,
       OnReload, OnReloadFails, OnRefreshRequest
  <2> QED
    BY <2>1, UnseenStutters DEF Unseen
<1> QED
  BY <1>1, <1>2, <1>3, <1>4, <1>5, <1>6, <1>7 DEF Loop

\* A claim moves only as ClaimLifecycle allows: it is taken when a slot is
\* free, and given up or turned into a retry when no goroutine is left.
THEOREM Refines == Spec => ImplementsLifecycle
<1>1. Init => Lifecycle!Init
  <2> SUFFICES ASSUME Init PROVE Lifecycle!Init
    OBVIOUS
  <2>1. DOMAIN running = {} /\ DOMAIN retry = {} /\ DOMAIN worker = {}
    BY DEF Init, EmptyMap
  <2>2. [i \in Issues |-> ClaimOf(i)] = [i \in Issues |-> "Unclaimed"]
    BY <2>1 DEF ClaimOf
  <2> QED
    BY <2>1, <2>2 DEF Lifecycle!Init
<1>2. ASSUME TypeOK, ClaimedIsRunningOrRetrying, RunningIsFinite, RunsInv, [Next]_vars
      PROVE  [Lifecycle!Next]_Lifecycle!vars
  <2>1. ASSUME UNCHANGED <<running, retry, worker>> PROVE UNCHANGED Lifecycle!vars
    BY <2>1, UnseenStutters DEF Unseen
  <2>2. CASE \/ TickTimerFires \/ RefreshIsRequested \/ SenderGivesUp \/ Terminated
             \/ UNCHANGED vars
             \/ \E r \in Runs : WorkerEmits(r)
             \/ \E c \in Configs : ReloadIsPosted(c)
    BY <2>1, <2>2 DEF TickTimerFires, RefreshIsRequested, SenderGivesUp, Terminated,
       vars, WorkerEmits, ReloadIsPosted
  <2>3. ASSUME NEW i \in Issues, RetryTimerFires(i) PROVE UNCHANGED Lifecycle!vars
    <3>1. DOMAIN retry' = DOMAIN retry
      BY <2>3 DEF RetryTimerFires
    <3>2. Unseen
      BY <2>3, <3>1 DEF RetryTimerFires, Unseen
    <3> QED
      BY <3>2, UnseenStutters
  <2>4. ASSUME NEW r \in Runs, NEW ok \in BOOLEAN, WorkerReturns(r, ok)
        PROVE  Lifecycle!Next
    BY <1>2, <2>4, ReturnRefines DEF Lifecycle!Next
  <2>5. CASE RootIsCancelled
    <3>1. SameRuns /\ DOMAIN retry' = DOMAIN retry
      BY <1>2, <2>5, CancelKeepsRuns DEF RootIsCancelled, SameRuns, TypeOK
    <3> QED
      BY <3>1, SameRunsAreUnseen, UnseenStutters
  <2> QED
    BY <1>2, <2>2, <2>3, <2>4, <2>5, LoopRefines DEF Next
<1> QED
  BY <1>1, <1>2, TypeCorrect, ClaimsAreExact, FinitelyManyRunning, RunsCorrespond, PTL
  DEF Spec, ImplementsLifecycle, Lifecycle!Spec


-----------------------------------------------------------------------------
(* Wake-ups *)

None(i) == RetriesQueued(i) = {}
Single(i) == \A j, k \in RetriesQueued(i) : j = k

\* OneWakeupPerRetry without the counting.
Wake(i) ==
    IF i \in DOMAIN retry
    THEN Single(i) /\ IF retry[i].armed THEN None(i) ELSE rootDone \/ ~None(i)
    ELSE None(i)

\* The queue has kept its wake-ups for i; a cancelled root may cost some.
KeepsWakeups(i) ==
    /\ None(i) => None(i)'
    /\ Single(i) => Single(i)'
    /\ ~None(i) => rootDone' \/ ~None(i)'

\* The step takes the first d events off the channel, of any kind.
Shifted(d) ==
    /\ events \in Seq(Event) /\ events' \in Seq(Event)
    /\ Len(events') = Len(events) - d
    /\ \A k \in 1..Len(events') : events'[k] = events[k + d]

LEMMA NoneIsSingle == ASSUME NEW i, None(i) PROVE Single(i)
BY DEF None, Single

LEMMA ShiftKeeps ==
    ASSUME NEW d \in {0, 1}, Shifted(d), NEW i \in Issues,
           d = 1 => events[1] # RetryTimerFired(i)
    PROVE  KeepsWakeups(i)
<1> USE DEF Shifted
<1>1. /\ DOMAIN events = 1..Len(events) /\ Len(events) \in Nat
      /\ DOMAIN events' = 1..Len(events') /\ Len(events') \in Nat
  BY LenProperties
<1>2. \A k \in DOMAIN events' : k \in Nat /\ k + d \in DOMAIN events /\ events'[k] = events[k + d]
  <2>1. CASE d = 0
    BY <1>1, <2>1
  <2>2. CASE d = 1
    BY <1>1, <2>2
  <2> QED
    BY <2>1, <2>2
<1>3. \A k \in RetriesQueued(i)' : k \in Nat /\ k + d \in RetriesQueued(i)
  BY <1>2 DEF RetriesQueued, QueuedAs
<1>4. ASSUME NEW k \in RetriesQueued(i) PROVE k - d \in RetriesQueued(i)'
  <2>1. k \in 1..Len(events) /\ events[k].kind = "retry" /\ events[k].issue = i
    BY <1>1 DEF RetriesQueued, QueuedAs
  <2>2. events[k] = RetryTimerFired(i)
    <3>1. events[k] \in Event
      BY <2>1, ElementOfSeq
    <3> QED
      BY <2>1, <3>1 DEF Event, TickEvent, RefreshRequest, RetryTimerFired
  <2>3. k - d \in DOMAIN events' /\ events'[k - d] = events[k]
    <3>1. CASE d = 0
      BY <1>1, <2>1, <3>1
    <3>2. CASE d = 1
      <4>1. k # 1
        BY <2>2, <3>2
      <4> QED
        BY <1>1, <2>1, <3>2, <4>1
    <3> QED
      BY <3>1, <3>2
  <2> QED
    BY <2>1, <2>3 DEF RetriesQueued, QueuedAs
<1>5. Single(i) => Single(i)'
  <2> SUFFICES ASSUME Single(i), NEW j \in RetriesQueued(i)', NEW k \in RetriesQueued(i)'
               PROVE  j = k
    BY DEF Single
  <2>1. j + d = k + d /\ j \in Nat /\ k \in Nat
    BY <1>3 DEF Single
  <2> QED
    BY <2>1
<1> QED
  BY <1>3, <1>4, <1>5 DEF KeepsWakeups, None

\* The wake-up of i is received, and was the only one.
LEMMA WakeupTaken ==
    ASSUME Shifted(1), NEW i \in Issues, events[1] = RetryTimerFired(i), Single(i)
    PROVE  None(i)'
<1>1. /\ DOMAIN events = 1..Len(events) /\ Len(events) \in Nat
      /\ DOMAIN events' = 1..Len(events') /\ Len(events') \in Nat
  BY LenProperties DEF Shifted
<1>2. CASE Len(events) = 0
  BY <1>1, <1>2 DEF Shifted
<1>3. CASE Len(events) # 0
  <2>1. 1 \in RetriesQueued(i)
    BY <1>1, <1>3 DEF RetriesQueued, QueuedAs, RetryTimerFired
  <2>2. \A k \in RetriesQueued(i)' : k \in Nat \ {0} /\ k + 1 \in RetriesQueued(i)
    BY <1>1 DEF Shifted, RetriesQueued, QueuedAs
  <2>3. \A k \in RetriesQueued(i)' : k + 1 = 1
    BY <2>1, <2>2 DEF Single
  <2> QED
    BY <2>2, <2>3 DEF None
<1> QED
  BY <1>2, <1>3

LEMMA AppendKeeps ==
    ASSUME NEW e, Appended(e), NEW i \in Issues, e # RetryTimerFired(i), e \in Event
    PROVE  KeepsWakeups(i)
<1>1. /\ DOMAIN events = 1..Len(events) /\ Len(events) \in Nat
      /\ DOMAIN events' = 1..(Len(events) + 1)
  BY LenProperties DEF Appended
<1>2. ~(e.kind = "retry" /\ e.issue = i)
  BY DEF Event, TickEvent, RefreshRequest, RetryTimerFired
<1>3. RetriesQueued(i)' = RetriesQueued(i)
  <2>1. \A k \in DOMAIN events' : IF k \in DOMAIN events THEN events'[k] = events[k]
                                  ELSE events'[k] = e
    BY <1>1 DEF Appended
  <2>2. DOMAIN events \subseteq DOMAIN events'
    BY <1>1
  <2> QED
    BY <1>2, <2>1, <2>2 DEF RetriesQueued, QueuedAs
<1> QED
  BY <1>3 DEF KeepsWakeups, None, Single

LEMMA WakeupPosted ==
    ASSUME NEW i \in Issues, Appended(RetryTimerFired(i)), None(i)
    PROVE  Single(i)' /\ ~None(i)'
<1>1. /\ DOMAIN events = 1..Len(events) /\ Len(events) \in Nat
      /\ DOMAIN events' = 1..(Len(events) + 1)
  BY LenProperties DEF Appended
<1>2. \A k \in RetriesQueued(i)' : k = Len(events) + 1
  BY <1>1 DEF Appended, RetriesQueued, QueuedAs, None
<1>3. Len(events) + 1 \in RetriesQueued(i)'
  BY <1>1 DEF Appended, RetriesQueued, QueuedAs, RetryTimerFired
<1> QED
  BY <1>2, <1>3 DEF Single, None

LEMMA RemovalKeeps ==
    ASSUME events \in Seq(Event), NEW m \in DOMAIN events, events' = RemoveAt(events, m),
           rootDone', NEW i
    PROVE  KeepsWakeups(i)
<1> DEFINE old(k) == IF k < m THEN k ELSE k + 1
<1>1. \A k \in DOMAIN events' : /\ k \in Nat
                                /\ old(k) \in DOMAIN events
                                /\ events'[k] = events[old(k)]
  BY RemoveAtElements
<1>2. \A j, k \in DOMAIN events' : old(j) = old(k) => j = k
  BY <1>1, LenProperties
<1> HIDE DEF old
<1>3. \A k \in RetriesQueued(i)' : k \in DOMAIN events' /\ old(k) \in RetriesQueued(i)
  BY <1>1 DEF RetriesQueued, QueuedAs
<1> QED
  BY <1>2, <1>3 DEF KeepsWakeups, None, Single

\* The retry of i is as it was, and the queue too.
LEMMA WakeStays ==
    ASSUME NEW i, Wake(i), KeepsWakeups(i), rootDone => rootDone',
           i \in DOMAIN retry' <=> i \in DOMAIN retry,
           i \in DOMAIN retry => retry'[i].armed = retry[i].armed
    PROVE  Wake(i)'
BY DEF Wake, KeepsWakeups

\* A map with one entry put, taken away or left alone.
OnlyAt(k, f, g) == g = f \/ g = Del(f, k) \/ \E v : g = Put(f, k, v)

LEMMA OtherEntries ==
    ASSUME NEW f, NEW g, NEW k, NEW i, i # k, OnlyAt(k, f, g)
    PROVE  /\ i \in DOMAIN g <=> i \in DOMAIN f
           /\ i \in DOMAIN f => g[i] = f[i]
<1>1. CASE g = f
  BY <1>1
<1>2. CASE g = Del(f, k)
  BY <1>2 DEF Del
<1>3. ASSUME NEW v, g = Put(f, k, v)
      PROVE  /\ i \in DOMAIN g <=> i \in DOMAIN f
             /\ i \in DOMAIN f => g[i] = f[i]
  BY <1>3 DEF Put
<1> QED
  BY <1>1, <1>2, <1>3 DEF OnlyAt

LEMMA ReceivedIsShifted ==
    ASSUME events \in Seq(Event), Receive
    PROVE  Shifted(1) /\ Head(events) = events[1]
BY HeadTailProperties, LenProperties DEF Receive, Shifted

LEMMA KeptIsShifted ==
    ASSUME events \in Seq(Event), UNCHANGED events
    PROVE  Shifted(0)
BY LenProperties DEF Shifted

WakeInv == \A i \in Issues : Wake(i)

LEMMA LoopWakes ==
    ASSUME TypeOK, ClaimedIsRunningOrRetrying, WakeInv, Loop
    PROVE  WakeInv'
<1>1. events \in Seq(Event)
  BY DEF TypeOK
<1>2. ASSUME UNCHANGED <<retry, rootDone, events>> PROVE WakeInv'
  BY <1>1, <1>2, KeptIsShifted, ShiftKeeps, WakeStays DEF WakeInv
<1>3. ASSUME UNCHANGED <<retry, rootDone>>, Receive, Head(events).kind # "retry" PROVE WakeInv'
  <2>1. \A i \in Issues : events[1] # RetryTimerFired(i)
    BY <1>1, <1>3, ReceivedIsShifted DEF RetryTimerFired
  <2> QED
    BY <1>1, <1>3, <2>1, ReceivedIsShifted, ShiftKeeps, WakeStays DEF WakeInv
<1>4. ASSUME NEW j \in Issues, NEW ok \in BOOLEAN, OnWorkerExit(j, ok) PROVE WakeInv'
  <2> SUFFICES ASSUME NEW i \in Issues PROVE Wake(i)'
    BY DEF WakeInv
  <2>1. Wake(i) /\ rootDone' = rootDone
    BY <1>4 DEF WakeInv, OnWorkerExit
  <2>2. KeepsWakeups(i)
    <3>1. Shifted(1) /\ events[1].kind = "exit"
      BY <1>1, <1>4, ReceivedIsShifted DEF OnWorkerExit
    <3>2. events[1] # RetryTimerFired(i)
      BY <3>1 DEF RetryTimerFired
    <3> QED
      BY <3>1, <3>2, ShiftKeeps
  <2>3. CASE retry' = retry
    BY <2>1, <2>2, <2>3, WakeStays
  <2>4. CASE j \in DOMAIN running /\ ~running[j].release
    <3>1. PICK n : retry' = Put(retry, j, [attempt |-> n, armed |-> TRUE])
      BY <1>4, <2>4 DEF OnWorkerExit, ScheduleRetry
    <3>2. CASE i # j
      <4>1. OnlyAt(j, retry, retry')
        BY <3>1 DEF OnlyAt
      <4>2. /\ i \in DOMAIN retry' <=> i \in DOMAIN retry
            /\ i \in DOMAIN retry => retry'[i] = retry[i]
        BY <3>2, <4>1, OtherEntries
      <4> QED
        BY <2>1, <2>2, <4>2, WakeStays
    <3>3. CASE i = j
      <4>1. None(i)
        BY <2>1, <2>4, <3>3 DEF Wake, ClaimedIsRunningOrRetrying
      <4>2. None(i)' /\ Single(i)'
        BY <2>2, <4>1, NoneIsSingle DEF KeepsWakeups
      <4>3. i \in DOMAIN retry' /\ retry'[i].armed
        BY <3>1, <3>3 DEF Put
      <4> QED
        BY <4>2, <4>3 DEF Wake
    <3> QED
      BY <3>2, <3>3
  <2> QED
    BY <1>4, <2>3, <2>4 DEF OnWorkerExit
<1>5. ASSUME NEW j \in Issues, Receive, Head(events) = RetryTimerFired(j), rootDone' = rootDone,
             \/ j \notin DOMAIN retry /\ retry' = retry
             \/ j \in DOMAIN retry /\ retry' = Del(retry, j)
             \/ j \in DOMAIN retry /\ \E n : retry' = Put(retry, j, [attempt |-> n, armed |-> TRUE])
      PROVE  WakeInv'
  <2> SUFFICES ASSUME NEW i \in Issues PROVE Wake(i)'
    BY DEF WakeInv
  <2>1. Wake(i) /\ Shifted(1) /\ events[1] = RetryTimerFired(j)
    BY <1>1, <1>5, ReceivedIsShifted DEF WakeInv
  <2>2. CASE i # j
    <3>1. events[1] # RetryTimerFired(i)
      BY <2>1, <2>2 DEF RetryTimerFired
    <3>2. KeepsWakeups(i)
      BY <2>1, <3>1, ShiftKeeps
    <3>3. /\ i \in DOMAIN retry' <=> i \in DOMAIN retry
          /\ i \in DOMAIN retry => retry'[i] = retry[i]
      <4>1. OnlyAt(j, retry, retry')
        BY <1>5 DEF OnlyAt
      <4> QED
        BY <2>2, <4>1, OtherEntries
    <3> QED
      BY <1>5, <2>1, <3>2, <3>3, WakeStays
  <2>3. CASE i = j
    <3>1. None(i)' /\ Single(i)'
      BY <2>1, <2>3, WakeupTaken, NoneIsSingle DEF Wake, None, Single
    <3>2. i \notin DOMAIN retry' \/ retry'[i].armed
      BY <1>5, <2>3 DEF Put, Del
    <3> QED
      BY <3>1, <3>2 DEF Wake
  <2> QED
    BY <2>2, <2>3
<1>6. ASSUME NEW j \in Issues, RetryIsPutOff(j) \/ RetryReleases(j) PROVE WakeInv'
  <2>1. Receive /\ Head(events) = RetryTimerFired(j) /\ rootDone' = rootDone
    BY <1>6 DEF RetryIsPutOff, RetryReleases, RetryIsDue
  <2> QED
    BY <1>5, <1>6, <2>1 DEF RetryIsPutOff, RetryReleases, RetryIsDue, ScheduleRetry
<1>7. ASSUME NEW j \in Issues, NEW s \in States, RetryDispatches(j, s) PROVE WakeInv'
  BY <1>5, <1>7 DEF RetryDispatches, RetryIsDue, DispatchIssue
<1>8. ASSUME NEW j \in Issues, NEW s \in States, TickDispatches(j, s) PROVE WakeInv'
  <2>1. /\ j \notin DOMAIN retry /\ retry' = Del(retry, j)
        /\ UNCHANGED <<rootDone, events>>
    BY <1>8 DEF TickDispatches, DispatchIssue, ClaimedIsRunningOrRetrying
  <2>2. DOMAIN retry' = DOMAIN retry /\ \A i \in DOMAIN retry : retry'[i] = retry[i]
    BY <2>1 DEF Del
  <2> QED
    BY <1>1, <2>1, <2>2, KeptIsShifted, ShiftKeeps, WakeStays DEF WakeInv
<1>9. CASE Shutdown
  <2>1. /\ DOMAIN retry' = DOMAIN retry /\ \A i \in DOMAIN retry : ~retry'[i].armed
        /\ rootDone' /\ UNCHANGED events
    <3>1. \A i \in DOMAIN retry : retry[i] \in RetryEntry
      BY DEF TypeOK, IsMap
    <3> QED
      BY <1>9, <3>1 DEF Shutdown, RetryEntry
  <2>2. \A i \in Issues : (None(i) => None(i)') /\ (Single(i) => Single(i)')
    BY <1>1, <2>1, KeptIsShifted, ShiftKeeps DEF KeepsWakeups
  <2> QED
    BY <2>1, <2>2 DEF WakeInv, Wake
<1>10. CASE \/ StartLoop \/ TickFetchFails \/ TickFetched \/ TickDone
            \/ OnTick \/ OnAgentUpdate \/ OnReload \/ OnReloadFails \/ OnRefreshRequest
  BY <1>2, <1>3, <1>10 DEF StartLoop, TickFetchFails, TickFetched, TickDone, OnTick,
     OnAgentUpdate, OnReload, OnReloadFails, OnRefreshRequest, TickEvent, RefreshRequest
<1> QED
  BY <1>4, <1>6, <1>7, <1>8, <1>9, <1>10, Zenon DEF Loop

LEMMA NextWakes ==
    ASSUME TypeOK, ClaimedIsRunningOrRetrying, WakeInv, [Next]_vars
    PROVE  WakeInv'
<1>1. events \in Seq(Event) /\ IsMap(worker, Runs, Worker) /\ IsMap(retry, Issues, RetryEntry)
  BY DEF TypeOK
<1>2. ASSUME UNCHANGED <<retry, events>>, rootDone => rootDone' PROVE WakeInv'
  BY <1>1, <1>2, KeptIsShifted, ShiftKeeps, WakeStays DEF WakeInv
<1>3. ASSUME UNCHANGED <<retry, rootDone>>, NEW e \in Event, e.kind # "retry", Appended(e)
      PROVE  WakeInv'
  <2>1. \A i \in Issues : e # RetryTimerFired(i)
    BY <1>3 DEF RetryTimerFired
  <2> QED
    BY <1>3, <2>1, AppendKeeps, WakeStays DEF WakeInv
<1>4. ASSUME UNCHANGED <<retry, rootDone>>, NEW e \in Event, e.kind # "retry", Post(e)
      PROVE  WakeInv'
  BY <1>1, <1>2, <1>3, <1>4, PostedIsAppended
<1>5. ASSUME UNCHANGED <<retry, rootDone>>, NEW e \in Event, e.kind # "retry", TrySend(e)
      PROVE  WakeInv'
  <2>1. Appended(e)
    BY <1>1, <1>5, AppendProperties, LenProperties DEF TrySend, Appended
  <2> QED
    BY <1>3, <1>5, <2>1
<1>6. CASE TickTimerFires
  <2>1. TickEvent \in Event /\ TickEvent.kind # "retry"
    BY DEF TickEvent, Event
  <2> QED
    BY <1>4, <1>6, <2>1 DEF TickTimerFires
<1>7. ASSUME NEW r \in Runs, WorkerEmits(r) PROVE WakeInv'
  <2>1. worker[r].issue \in Issues
    BY <1>1, <1>7 DEF WorkerEmits, IsMap, Worker
  <2>2. AgentUpdate(worker[r].issue, r) \in Event /\ AgentUpdate(worker[r].issue, r).kind # "retry"
    BY <2>1 DEF AgentUpdate, Event
  <2> QED
    BY <1>4, <1>7, <2>2 DEF WorkerEmits
<1>8. ASSUME NEW r \in Runs, NEW ok \in BOOLEAN, WorkerReturns(r, ok) PROVE WakeInv'
  <2>1. worker[r].issue \in Issues
    BY <1>1, <1>8 DEF WorkerReturns, IsMap, Worker
  <2>2. /\ WorkerExit(worker[r].issue, r, ok) \in Event
        /\ WorkerExit(worker[r].issue, r, ok).kind # "retry"
    BY <2>1 DEF WorkerExit, Event
  <2> QED
    BY <1>4, <1>8, <2>2 DEF WorkerReturns
<1>9. CASE RefreshIsRequested
  <2>1. RefreshRequest \in Event /\ RefreshRequest.kind # "retry"
    BY DEF RefreshRequest, Event
  <2> QED
    BY <1>5, <1>9, <2>1 DEF RefreshIsRequested
<1>10. ASSUME NEW c \in Configs, ReloadIsPosted(c) PROVE WakeInv'
  <2>1. ReloadConfig(c) \in Event /\ ReloadConfig(c).kind # "retry"
    BY DEF ReloadConfig, Event
  <2> QED
    BY <1>5, <1>10, <2>1 DEF ReloadIsPosted
<1>11. ASSUME NEW j \in Issues, RetryTimerFires(j) PROVE WakeInv'
  <2> SUFFICES ASSUME NEW i \in Issues PROVE Wake(i)'
    BY DEF WakeInv
  <2>1. /\ j \in DOMAIN retry /\ retry[j].armed /\ Post(RetryTimerFired(j)) /\ rootDone' = rootDone
        /\ DOMAIN retry' = DOMAIN retry /\ ~retry'[j].armed
        /\ \A k \in DOMAIN retry : k # j => retry'[k] = retry[k]
    BY <1>1, <1>11 DEF RetryTimerFires, IsMap, RetryEntry
  <2>2. Wake(i) /\ Wake(j)
    BY DEF WakeInv
  <2>3. RetryTimerFired(j) \in Event
    BY DEF RetryTimerFired, Event
  <2>4. Appended(RetryTimerFired(j)) \/ (rootDone /\ UNCHANGED events)
    BY <1>1, <2>1, <2>3, PostedIsAppended
  <2>5. CASE i # j
    <3>1. KeepsWakeups(i)
      <4>1. RetryTimerFired(j) # RetryTimerFired(i)
        BY <2>5 DEF RetryTimerFired
      <4> QED
        BY <1>1, <2>3, <2>4, <4>1, AppendKeeps, KeptIsShifted, ShiftKeeps
    <3> QED
      BY <2>1, <2>2, <2>5, <3>1, WakeStays
  <2>6. CASE i = j
    <3>1. None(i)
      BY <2>1, <2>2, <2>6 DEF Wake
    <3>2. CASE Appended(RetryTimerFired(j))
      <4>1. Single(i)' /\ ~None(i)'
        BY <2>6, <3>1, <3>2, WakeupPosted
      <4> QED
        BY <2>1, <2>6, <4>1 DEF Wake
    <3>3. CASE rootDone /\ UNCHANGED events
      <4>1. Single(i)'
        BY <1>1, <3>1, <3>3, KeptIsShifted, ShiftKeeps, NoneIsSingle DEF KeepsWakeups
      <4> QED
        BY <2>1, <2>6, <3>3, <4>1 DEF Wake
    <3> QED
      BY <2>4, <3>2, <3>3
  <2> QED
    BY <2>5, <2>6
<1>12. CASE SenderGivesUp
  <2>1. PICK m \in DOMAIN events : events' = RemoveAt(events, m)
    BY <1>12 DEF SenderGivesUp
  <2> QED
    BY <1>1, <1>12, <2>1, RemovalKeeps, WakeStays DEF SenderGivesUp, WakeInv
<1>13. CASE RootIsCancelled \/ Terminated \/ UNCHANGED vars
  BY <1>2, <1>13 DEF RootIsCancelled, Terminated, vars
<1> QED
  BY <1>6, <1>7, <1>8, <1>9, <1>10, <1>11, <1>12, <1>13, LoopWakes, Zenon DEF Next

\* A queued retry has exactly one wake-up, its timer or an event, and none is
\* left over from an earlier retry to cut the next backoff short.
THEOREM RetriesAreWokenOnce == Spec => []OneWakeupPerRetry
<1>1. Init => WakeInv
  BY DEF Init, WakeInv, Wake, None, RetriesQueued, QueuedAs, EmptyMap
<1>2. WakeInv => OneWakeupPerRetry
  <2> SUFFICES ASSUME NEW i \in Issues, Wake(i), i \in DOMAIN retry, ~retry[i].armed,
                      RetriesQueued(i) # {}
               PROVE  Cardinality(RetriesQueued(i)) = 1
    BY DEF WakeInv, Wake, OneWakeupPerRetry, None
  <2>1. PICK k \in RetriesQueued(i) : RetriesQueued(i) \subseteq {k}
    BY DEF Wake, Single
  <2> QED
    BY <2>1, OneOrNone
<1>3. TypeOK /\ ClaimedIsRunningOrRetrying /\ WakeInv /\ [Next]_vars => WakeInv'
  BY NextWakes
<1> QED
  BY <1>1, <1>2, <1>3, TypeCorrect, ClaimsAreExact, PTL DEF Spec

-----------------------------------------------------------------------------
(* Attempts *)

\* What AttemptsAreCounted says of one issue.
Counted(i) ==
    i \in claimed \cap claimed' =>
        \/ AttemptOf(i)' >= AttemptOf(i) /\
             (i \in DOMAIN running /\ i \in DOMAIN retry' =>
                AttemptOf(i)' > AttemptOf(i) \/ AttemptOf(i)' = MaxAttempt)
        \/ i \in DOMAIN retry' /\ Head(events).kind = "exit" /\ Head(events).ok

LEMMA AttemptType ==
    ASSUME TypeOK, ClaimedIsRunningOrRetrying, NEW i \in claimed
    PROVE  AttemptOf(i) \in 0..MaxAttempt
<1>1. i \in DOMAIN running => running[i] \in Entry
  BY DEF TypeOK, IsMap
<1>2. i \in DOMAIN retry => retry[i] \in RetryEntry
  BY DEF TypeOK, IsMap
<1> QED
  BY <1>1, <1>2 DEF AttemptOf, Entry, RetryEntry, ClaimedIsRunningOrRetrying

LEMMA NextAttemptGrows ==
    ASSUME NEW n \in 0..MaxAttempt
    PROVE  NextAttempt(n) >= n /\ (NextAttempt(n) > n \/ NextAttempt(n) = MaxAttempt)
BY BoundsAssumption DEF NextAttempt

\* An issue whose entries keep their attempt is counted.
LEMMA AttemptStays ==
    ASSUME TypeOK, ClaimedIsRunningOrRetrying, NEW i,
           i \in DOMAIN running' <=> i \in DOMAIN running,
           i \in DOMAIN running => running'[i].attempt = running[i].attempt,
           i \in DOMAIN retry' <=> i \in DOMAIN retry,
           i \in DOMAIN retry => retry'[i].attempt = retry[i].attempt
    PROVE  Counted(i)
<1> SUFFICES ASSUME i \in claimed PROVE Counted(i)
  BY DEF Counted
<1>1. AttemptOf(i) \in 0..MaxAttempt
  BY AttemptType
<1>2. AttemptOf(i)' = AttemptOf(i)
  BY DEF AttemptOf, ClaimedIsRunningOrRetrying
<1>3. ~(i \in DOMAIN running /\ i \in DOMAIN retry')
  BY DEF ClaimedIsRunningOrRetrying
<1> QED
  BY <1>1, <1>2, <1>3, BoundsAssumption DEF Counted

\* A handler of one issue leaves the attempts of the others.
LEMMA OtherAttempts ==
    ASSUME TypeOK, ClaimedIsRunningOrRetrying, NEW j, NEW i, i # j,
           OnlyAt(j, running, running'), OnlyAt(j, retry, retry')
    PROVE  Counted(i)
<1>1. /\ i \in DOMAIN running' <=> i \in DOMAIN running
      /\ i \in DOMAIN running => running'[i] = running[i]
  BY OtherEntries
<1>2. /\ i \in DOMAIN retry' <=> i \in DOMAIN retry
      /\ i \in DOMAIN retry => retry'[i] = retry[i]
  BY OtherEntries
<1> QED
  BY <1>1, <1>2, AttemptStays

LEMMA LoopCounts ==
    ASSUME TypeOK, ClaimedIsRunningOrRetrying, ClaimedIsRunningOrRetrying', Loop, NEW i
    PROVE  Counted(i)
<1>1. ASSUME UNCHANGED <<running, retry>> PROVE Counted(i)
  BY <1>1, AttemptStays
<1>2. CASE OnTick
  <2>1. PICK stalled, seen : running' = Reconciled(stalled, seen)
    BY <1>2, Zenon DEF OnTick, Reconcile
  <2>2. \A k \in DOMAIN running : running[k] \in Entry
    BY DEF TypeOK, IsMap
  <2>3. ASSUME NEW k \in DOMAIN running PROVE running'[k].attempt = running[k].attempt
    <3>1. \/ running'[k] = Terminate(running[k], FALSE, FALSE)
          \/ running'[k] = Observe(running[k], seen[k])
          \/ running'[k] = running[k]
      BY <2>1 DEF Reconciled
    <3> QED
      BY <2>2, <3>1 DEF Observe, Terminate, Entry
  <2>4. DOMAIN running' = DOMAIN running /\ retry' = retry
    BY <1>2, <2>1 DEF Reconciled, OnTick
  <2> QED
    BY <2>3, <2>4, AttemptStays
<1>3. ASSUME NEW j \in Issues, NEW ok \in BOOLEAN, OnWorkerExit(j, ok) PROVE Counted(i)
  <2>1. CASE i # j
    BY <1>3, <2>1, OtherAttempts DEF OnWorkerExit, ScheduleRetry, OnlyAt
  <2>2. CASE i = j /\ j \notin DOMAIN running
    BY <1>1, <1>3, <2>2 DEF OnWorkerExit
  <2>3. CASE i = j /\ j \in DOMAIN running /\ running[j].release
    BY <1>3, <2>3 DEF OnWorkerExit, Counted
  <2>4. CASE i = j /\ j \in DOMAIN running /\ ~running[j].release
    <3>1. /\ retry' = Put(retry, j, [attempt |-> IF ok THEN 1 ELSE NextAttempt(running[j].attempt),
                                     armed |-> TRUE])
          /\ running' = Del(running, j)
          /\ Head(events).kind = "exit" /\ Head(events).ok = ok
      BY <1>3, <2>4 DEF OnWorkerExit, ScheduleRetry
    <3>2. /\ i \in DOMAIN retry' /\ i \notin DOMAIN running'
          /\ retry'[i].attempt = IF ok THEN 1 ELSE NextAttempt(running[j].attempt)
      BY <2>4, <3>1 DEF Put, Del
    <3>3. CASE ok
      BY <3>1, <3>2, <3>3 DEF Counted
    <3>4. CASE ~ok
      <4>1. i \in claimed /\ AttemptOf(i) = running[i].attempt
        BY <2>4 DEF ClaimedIsRunningOrRetrying, AttemptOf
      <4>2. AttemptOf(i)' = NextAttempt(AttemptOf(i))
        BY <2>4, <3>2, <3>4, <4>1 DEF AttemptOf
      <4> QED
        BY <4>1, <4>2, AttemptType, NextAttemptGrows DEF Counted
    <3> QED
      BY <3>3, <3>4
  <2> QED
    BY <2>1, <2>2, <2>3, <2>4
<1>4. ASSUME NEW j \in Issues, RetryIsPutOff(j) PROVE Counted(i)
  <2>1. CASE i # j
    BY <1>4, <2>1, OtherAttempts DEF RetryIsPutOff, ScheduleRetry, OnlyAt
  <2>2. CASE i = j /\ j \notin DOMAIN retry
    BY <1>1, <1>4, <2>2 DEF RetryIsPutOff
  <2>3. CASE i = j /\ j \in DOMAIN retry
    <3>1. i \notin DOMAIN running /\ i \in claimed
      BY <2>3 DEF ClaimedIsRunningOrRetrying
    <3>2. retry' = Put(retry, i, [attempt |-> NextAttempt(retry[i].attempt), armed |-> TRUE])
          /\ running' = running
      BY <1>4, <2>3 DEF RetryIsPutOff, ScheduleRetry
    <3>3. retry'[i].attempt = NextAttempt(retry[i].attempt)
      BY <3>2 DEF Put
    <3>4. AttemptOf(i)' = NextAttempt(AttemptOf(i))
      BY <3>1, <3>2, <3>3 DEF AttemptOf
    <3> QED
      BY <3>1, <3>4, AttemptType, NextAttemptGrows DEF Counted
  <2> QED
    BY <2>1, <2>2, <2>3
<1>5. ASSUME NEW j \in Issues, RetryReleases(j) PROVE Counted(i)
  <2>1. CASE i # j
    BY <1>5, <2>1, OtherAttempts DEF RetryReleases, OnlyAt
  <2>2. CASE i = j
    BY <1>5, <2>2 DEF RetryReleases, Counted
  <2> QED
    BY <2>1, <2>2
<1>6. ASSUME NEW j \in Issues, NEW s \in States, NEW n, DispatchIssue(j, s, n),
             j \in claimed => j \in DOMAIN retry /\ n = retry[j].attempt
      PROVE  Counted(i)
  <2>1. /\ \E v : running' = Put(running, j, v) /\ v.attempt = n
        /\ retry' = Del(retry, j)
    BY <1>6 DEF DispatchIssue
  <2>2. CASE i # j
    BY <2>1, <2>2, OtherAttempts DEF OnlyAt
  <2>3. CASE i = j /\ j \in claimed
    <3>1. j \notin DOMAIN running /\ AttemptOf(j) = n
      BY <1>6, <2>3 DEF ClaimedIsRunningOrRetrying, AttemptOf
    <3>2. j \in DOMAIN running' /\ running'[j].attempt = n /\ j \notin DOMAIN retry'
      BY <2>1 DEF Put, Del
    <3>3. AttemptOf(i)' = AttemptOf(i) /\ AttemptOf(i) \in 0..MaxAttempt
      BY <2>3, <3>1, <3>2, AttemptType DEF AttemptOf
    <3> QED
      BY <2>3, <3>1, <3>3, BoundsAssumption DEF Counted
  <2>4. CASE i = j /\ j \notin claimed
    BY <2>4 DEF Counted
  <2> QED
    BY <2>2, <2>3, <2>4
<1>7. ASSUME NEW j \in Issues, NEW s \in States, TickDispatches(j, s) PROVE Counted(i)
  BY <1>6, <1>7 DEF TickDispatches
<1>8. ASSUME NEW j \in Issues, NEW s \in States, RetryDispatches(j, s) PROVE Counted(i)
  BY <1>6, <1>8 DEF RetryDispatches, RetryIsDue
<1>9. CASE Shutdown
  <2>1. \A k \in DOMAIN retry : retry[k] \in RetryEntry
    BY DEF TypeOK, IsMap
  <2>2. /\ DOMAIN retry' = DOMAIN retry /\ running' = running
        /\ \A k \in DOMAIN retry : retry'[k].attempt = retry[k].attempt
    BY <1>9, <2>1 DEF Shutdown, RetryEntry
  <2> QED
    BY <2>2, AttemptStays
<1>10. CASE \/ StartLoop \/ TickFetchFails \/ TickFetched \/ TickDone
            \/ OnAgentUpdate \/ OnReload \/ OnReloadFails \/ OnRefreshRequest
  BY <1>1, <1>10 DEF StartLoop, TickFetchFails, TickFetched, TickDone,
     OnAgentUpdate, OnReload, OnReloadFails, OnRefreshRequest
<1> QED
  BY <1>2, <1>3, <1>4, <1>5, <1>7, <1>8, <1>9, <1>10, Zenon DEF Loop

LEMMA NextCounts ==
    ASSUME TypeOK, ClaimedIsRunningOrRetrying, ClaimedIsRunningOrRetrying', [Next]_vars, NEW i
    PROVE  Counted(i)
<1>1. ASSUME NEW j \in Issues, RetryTimerFires(j) PROVE Counted(i)
  <2>1. \A k \in DOMAIN retry : retry[k] \in RetryEntry
    BY DEF TypeOK, IsMap
  <2>2. /\ DOMAIN retry' = DOMAIN retry /\ running' = running
        /\ \A k \in DOMAIN retry : retry'[k].attempt = retry[k].attempt
    BY <1>1, <2>1 DEF RetryTimerFires, RetryEntry
  <2> QED
    BY <2>2, AttemptStays
<1>2. CASE \/ TickTimerFires \/ RefreshIsRequested \/ RootIsCancelled
           \/ SenderGivesUp \/ Terminated \/ UNCHANGED vars
           \/ \E r \in Runs : WorkerEmits(r) \/ \E ok \in BOOLEAN : WorkerReturns(r, ok)
           \/ \E c \in Configs : ReloadIsPosted(c)
  <2>1. UNCHANGED <<running, retry>>
    BY <1>2 DEF TickTimerFires, RefreshIsRequested, RootIsCancelled, SenderGivesUp,
       Terminated, vars, WorkerEmits, WorkerReturns, ReloadIsPosted
  <2> QED
    BY <2>1, AttemptStays
<1> QED
  BY <1>1, <1>2, LoopCounts DEF Next

\* The attempt number of a claimed issue is never lost: dispatch and retry keep
\* it, a failed run raises it, and only a normal exit may lower it.
THEOREM AttemptsSurvive == Spec => AttemptsAreCounted
<1>1. TypeOK /\ ClaimedIsRunningOrRetrying /\ ClaimedIsRunningOrRetrying' /\ [Next]_vars =>
        [\A i \in claimed \cap claimed' :
           \/ AttemptOf(i)' >= AttemptOf(i) /\
                (i \in DOMAIN running /\ i \in DOMAIN retry' =>
                   AttemptOf(i)' > AttemptOf(i) \/ AttemptOf(i)' = MaxAttempt)
           \/ i \in DOMAIN retry' /\ Head(events).kind = "exit" /\ Head(events).ok]_vars
  BY NextCounts DEF Counted
<1> QED
  BY <1>1, TypeCorrect, ClaimsAreExact, PTL DEF Spec, AttemptsAreCounted
=============================================================================
