-------------------------------- MODULE Tick --------------------------------
(***************************************************************************)
(* A fetch of candidates and what the loop makes of it: the pages of       *)
(* internal/tracker/linear, and the eligibility, the order and the slots   *)
(* of onTick and onRetryTimer (internal/orchestrator).                     *)
(*                                                                         *)
(* Reconciliation, timers and the worker are the matter of Orchestrator;   *)
(* here the tracker has contents, and users change them between pages.     *)
(***************************************************************************)
EXTENDS Integers, Sequences, SequencesExt, FiniteSets

CONSTANTS
    N,              \* issues are 1..N, in the order of the connection
    Texts,          \* names of states, labels and persons, as written
    Normal,         \* lower case and trimmed
    Config,         \* tracker and agent settings in force
    MaxInt,         \* the largest integer: what a missing one is sorted as
    Trackers,       \* contents of the tracker to begin with
    MaxCalls,       \* bound: fetches in a behaviour
    MaxEdits        \* bound: changes of an issue's state

Issues == 1..N
Blank == ""
Null == -1          \* a number or an issue that is not given

\* A node as Linear gives it: priorities in halves, so that odd ones are no
\* integers; relations with the issue at their other end.  States have names.
Counts == {Null} \cup 0..(MaxInt - 1)
Node == [titled: BOOLEAN, state: Texts \ {Blank}, priority: Counts, created: Counts,
         assignee: Texts, labels: SUBSET Texts,
         relations: SUBSET [type: Texts, issue: Issues \cup {Null}]]

ASSUME TickAssumption ==
    /\ {N, MaxInt, MaxCalls, MaxEdits} \subseteq Nat
    /\ Blank \in Texts /\ Normal \in [Texts -> Texts] /\ Normal[Blank] = Blank
    /\ \A t \in Texts : Normal[Normal[t]] = Normal[t]
    /\ Config.active \cup Config.terminal \cup Config.labels \cup {Config.assignee} \subseteq Texts
    /\ Config.pageSize \in Nat \ {0} /\ Config.slots \in Nat
    /\ \A s \in DOMAIN Config.byState : Config.byState[s] \in Nat \ {0}
    /\ \A t \in Trackers : t \in Seq(Node) /\ Len(t) = N

VARIABLES
    node,       \* the tracker
    running,    \* state of the issue in each RunningEntry, Blank when there is none
    claimed,
    retrying,   \* keys of RetryAttempts
    call,       \* the fetch the loop waits for, and its result
    truth,      \* ghost: what was true of the tracker since the fetch began
    calls, edits

vars == <<node, running, claimed, retrying, call, truth, calls, edits>>
loop == <<running, claimed, retrying>>

NoCall == [place |-> "none"]
ForTick == 0

\* The elements of a finite set in an order that is given as a set of pairs.
InOrder(S, before) ==
    LET place(x) == Cardinality({y \in S : <<y, x>> \in before})
    IN  [n \in 1..Cardinality(S) |-> CHOOSE x \in S : place(x) = n - 1]

-----------------------------------------------------------------------------
(* The tracker client *)

NormalizePriority(p) == IF p = Null \/ p % 2 = 1 THEN Null ELSE p \div 2

\* The state of a related issue that is not given is unknown.
Blocker(r) == IF r.issue = Null THEN Blank ELSE node[r.issue].state

NormalizeIssue(i) ==
    LET n == node[i] IN
    [id |-> i, titled |-> n.titled, state |-> n.state, assignee |-> n.assignee,
     priority |-> NormalizePriority(n.priority), created |-> n.created,
     labels |-> {Normal[l] : l \in n.labels} \ {Blank},
     blockedBy |-> {Blocker(r) : r \in {r \in n.relations : Normal[r.type] = "blocks"}}]

\* Linear filters by the names as the workflow file writes them.
Matches(i) == node[i].state \in Config.active
Page(rest) ==
    SubSeq(rest, 1, IF Len(rest) < Config.pageSize THEN Len(rest) ELSE Config.pageSize)
MatchesAfter(cursor) ==
    InOrder({i \in Issues : i > cursor /\ Matches(i)}, {p \in Issues \X Issues : p[1] < p[2]})

-----------------------------------------------------------------------------
(* Eligibility, order and slots *)

Is(states, s) == \E t \in states : Normal[t] = Normal[s]
MatchesAssignee(c) ==
    Normal[Config.assignee] # Blank =>
        c.assignee # Blank /\ Normal[c.assignee] = Normal[Config.assignee]
HasRequiredLabels(c) ==
    \A l \in Config.labels : Normal[l] # Blank /\ Normal[l] \in {Normal[h] : h \in c.labels}
IsTerminalBlocker(s) == s # Blank /\ Is(Config.terminal, s)

BugIsEligible(c) ==
    /\ c.titled /\ c.state # Blank
    /\ Is(Config.active, c.state) /\ ~Is(Config.terminal, c.state)
    /\ MatchesAssignee(c) /\ HasRequiredLabels(c)
    /\ c.state = "todo" => \A s \in c.blockedBy : IsTerminalBlocker(s)
IsEligible(c) ==
    /\ c.titled /\ c.state # Blank
    /\ Is(Config.active, c.state) /\ ~Is(Config.terminal, c.state)
    /\ MatchesAssignee(c) /\ HasRequiredLabels(c)
    /\ Normal[c.state] = "todo" => \A s \in c.blockedBy : IsTerminalBlocker(s)

OrLast(n) == IF n = Null THEN MaxInt ELSE n
StableSort(s, less(_, _)) ==
    LET places == 1..Len(s)
        before == {p \in places \X places :
                     \/ less(s[p[1]], s[p[2]])
                     \/ ~less(s[p[2]], s[p[1]]) /\ p[1] < p[2]}
    IN  [n \in places |-> s[InOrder(places, before)[n]]]
BugSortForDispatch(candidates) ==
    LET less(a, b) ==
            \/ a.priority < b.priority
            \/ a.priority = b.priority /\ OrLast(a.created) < OrLast(b.created)
            \/ a.priority = b.priority /\ a.created = b.created /\ a.id < b.id
    IN  StableSort(candidates, less)
\* Identifiers are taken to follow the issues' numbers.
SortForDispatch(candidates) ==
    LET less(a, b) ==
            LET pa == OrLast(a.priority)  pb == OrLast(b.priority)
                ca == OrLast(a.created)   cb == OrLast(b.created)
            IN  \/ pa < pb
                \/ pa = pb /\ ca < cb
                \/ pa = pb /\ ca = cb /\ a.id < b.id
    IN  StableSort(candidates, less)

GlobalAvailable(run) ==
    Config.slots > Cardinality({i \in Issues : run[i] # Blank})
PerStateLimit(s) ==
    IF Normal[s] \in DOMAIN Config.byState THEN Config.byState[Normal[s]] ELSE Config.slots
RunningCountByState(run, s) ==
    Cardinality({i \in Issues : run[i] # Blank /\ Normal[run[i]] = Normal[s]})
HasSlot(run, s) == GlobalAvailable(run) /\ RunningCountByState(run, s) < PerStateLimit(s)

-----------------------------------------------------------------------------
(* The loop *)

\* Ghost: what the tracker itself says of an issue, in the words of the
\* documents: a candidate is active, for this worker, labelled, not blocked.
Ready(i) ==
    LET n == node[i] IN
    /\ n.titled /\ Matches(i) /\ ~Is(Config.terminal, n.state)
    /\ Normal[Config.assignee] \in {Blank, Normal[n.assignee]}
    /\ \A l \in Config.labels : Normal[l] # Blank /\ Is(n.labels, l)
    /\ \A r \in n.relations : Normal[n.state] = "todo" /\ Normal[r.type] = "blocks" =>
         r.issue # Null /\ Is(Config.terminal, node[r.issue].state)
NoTruth == [matched |-> {}, ready |-> {}, unready |-> {}]
Truth == [matched |-> {i \in Issues : Matches(i)}, ready |-> {i \in Issues : Ready(i)},
          unready |-> {i \in Issues : ~Ready(i)}]

Begins(for) ==
    /\ call = NoCall /\ calls < MaxCalls
    /\ call' = [place |-> "paging", for |-> for, after |-> 0, all |-> <<>>]
    /\ truth' = Truth
    /\ calls' = calls + 1
    /\ UNCHANGED <<node, running, claimed, edits>>

TickBegins == Begins(ForTick) /\ UNCHANGED retrying
RetryBegins(i) == i \in retrying /\ Begins(i) /\ retrying' = retrying \ {i}

Paging == call.place = "paging"
Fetched(for) == call.place = "fetched" /\ call.for = for
Ends == call' = NoCall /\ truth' = NoTruth /\ UNCHANGED <<node, calls, edits>>

BugGetsPage ==
    LET rest == MatchesAfter(call.after)
        page == Page(rest)
    IN  /\ Paging
        /\ call' = [call EXCEPT
             !.all = @ \o [k \in DOMAIN page |-> NormalizeIssue(page[k])],
             !.after = IF page = <<>> THEN @ ELSE page[Len(page)],
             !.place = IF Len(rest) <= Config.pageSize + 1 THEN "fetched" ELSE @]
        /\ UNCHANGED <<node, loop, truth, calls, edits>>

\* A page goes on after the cursor of the one before; the last one says so.
GetsPage ==
    LET rest == MatchesAfter(call.after)
        page == Page(rest)
    IN  /\ Paging
        /\ call' = [call EXCEPT
             !.all = @ \o [k \in DOMAIN page |-> NormalizeIssue(page[k])],
             !.after = IF page = <<>> THEN @ ELSE page[Len(page)],
             !.place = IF Len(rest) <= Config.pageSize THEN "fetched" ELSE @]
        /\ UNCHANGED <<node, loop, truth, calls, edits>>

\* A request fails, or a page that is not the last has no cursor: the pages
\* before it are given up, and a retry waits again.
FetchFails ==
    /\ Paging /\ Ends
    /\ retrying' = retrying \cup ({call.for} \ {ForTick})
    /\ UNCHANGED <<running, claimed>>

\* onTick's walk over the sorted candidates.
Visit(run, c) ==
    IF run[c.id] = Blank /\ c.id \notin claimed /\ IsEligible(c) /\ HasSlot(run, c.state)
    THEN [run EXCEPT ![c.id] = c.state] ELSE run
Walk(sorted) ==
    LET after[k \in 0..Len(sorted)] ==
            IF k = 0 THEN running ELSE Visit(after[k - 1], sorted[k])
    IN  after[Len(sorted)]

OnTick ==
    /\ Fetched(ForTick) /\ Ends
    /\ running' = Walk(SortForDispatch(call.all))
    /\ claimed' = claimed \cup {i \in Issues : running'[i] # Blank}
    /\ UNCHANGED retrying

Found(i) == {c \in ToSet(call.all) : c.id = i}
RetryReleases(i) ==
    /\ Fetched(i) /\ Ends
    /\ \A c \in Found(i) : ~IsEligible(c)
    /\ claimed' = claimed \ {i}
    /\ UNCHANGED <<running, retrying>>

RetryIsPutOff(i) ==
    /\ Fetched(i) /\ Ends
    /\ \E c \in Found(i) : IsEligible(c) /\ ~HasSlot(running, c.state)
    /\ retrying' = retrying \cup {i}
    /\ UNCHANGED <<running, claimed>>

RetryDispatches(i) ==
    /\ Fetched(i) /\ Ends
    /\ \E c \in Found(i) :
         /\ IsEligible(c) /\ HasSlot(running, c.state)
         /\ running' = [running EXCEPT ![i] = c.state]
    /\ UNCHANGED <<claimed, retrying>>

\* Between two fetches the loop takes exits: the issue waits for a retry, or,
\* terminated by reconciliation, is let go.
OnWorkerExit(i) ==
    /\ call = NoCall /\ running[i] # Blank
    /\ running' = [running EXCEPT ![i] = Blank]
    /\ \/ retrying' = retrying \cup {i} /\ UNCHANGED claimed
       \/ claimed' = claimed \ {i} /\ UNCHANGED retrying
    /\ UNCHANGED <<node, call, truth, calls, edits>>

\* Users and agents move issues, before, between and after the pages.
Moves(i) ==
    /\ edits < MaxEdits /\ edits' = edits + 1
    /\ \E s \in (Config.active \cup Config.terminal) \ {Blank} :
         s # node[i].state /\ node' = [node EXCEPT ![i].state = s]
    /\ truth' = IF call = NoCall THEN NoTruth ELSE
         [matched |-> truth.matched \cap Truth'.matched,
          ready |-> truth.ready \cup Truth'.ready,
          unready |-> truth.unready \cup Truth'.unready]
    /\ UNCHANGED <<loop, call, calls>>

Init ==
    /\ node \in Trackers
    /\ running = [i \in Issues |-> Blank] /\ claimed = {} /\ retrying = {}
    /\ call = NoCall /\ truth = NoTruth
    /\ calls = 0 /\ edits = 0

Decides ==
    \/ OnTick
    \/ \E i \in Issues : RetryReleases(i) \/ RetryIsPutOff(i) \/ RetryDispatches(i)
Next ==
    \/ TickBegins \/ GetsPage \/ FetchFails \/ Decides
    \/ \E i \in Issues : RetryBegins(i) \/ OnWorkerExit(i) \/ Moves(i)

Spec == Init /\ [][Next]_vars

-----------------------------------------------------------------------------
(* Properties *)

\* A fetch of several pages gives every issue that matches the filter from its
\* first request to its last, in the order of the connection, and none twice,
\* whatever else enters or leaves the filter meanwhile (paginateWith).
FetchIsExact ==
    call.place = "fetched" =>
        LET ids == [k \in DOMAIN call.all |-> call.all[k].id] IN
        /\ truth.matched \subseteq ToSet(ids)
        /\ \A j, k \in DOMAIN ids : j < k => ids[j] < ids[k]

\* What SPEC.md calls for: lower priorities first, unknown ones last, then the
\* older, then the identifier.
MoreUrgent(a, b) ==
    LET before(m, n) == m # Null /\ (n = Null \/ m < n) IN
    \/ before(a.priority, b.priority)
    \/ a.priority = b.priority /\ before(a.created, b.created)
    \/ a.priority = b.priority /\ a.created = b.created /\ a.id < b.id

\* A tick leaves an eligible issue that nobody has claimed only for want of a
\* slot, and no less urgent one has taken the slot it wants: none that is
\* dispatched from the same state, nor any at all unless its state is full
\* (sortForDispatch and onTick's walk).
SlotsGoInOrder ==
    [][OnTick =>
         LET Dispatched(c) == running[c.id] = Blank /\ running'[c.id] # Blank
             candidates == ToSet(call.all)
             Overtakes(d, c) == Dispatched(d) /\ MoreUrgent(c, d)
             Full(s) == RunningCountByState(running', s) >= PerStateLimit(s)
         IN  \A c \in candidates :
               IsEligible(c) /\ c.id \notin claimed /\ running'[c.id] = Blank =>
                 /\ Full(c.state) \/ ~GlobalAvailable(running')
                 /\ \A d \in candidates : Overtakes(d, c) =>
                      Full(c.state) /\ Normal[d.state] # Normal[c.state]]_vars

\* Whatever is dispatched was ready by the tracker's own account at some moment
\* of the fetch, and a retry gives its claim up only for an issue that was not
\* ready at some moment of it (isEligible on what normalizeIssue has read, with
\* blockers as they stood when their page was sent).
DecisionsFollowTheTracker ==
    [][\A i \in Issues :
         /\ running[i] = Blank /\ running'[i] # Blank => i \in truth.ready
         /\ call # NoCall /\ i \in claimed \ claimed' => i \in truth.unready]_vars
=============================================================================
