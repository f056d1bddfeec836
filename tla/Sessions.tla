------------------------------ MODULE Sessions ------------------------------
(***************************************************************************)
(* What the daemon shows of its runs: the events of the agent client       *)
(* (internal/agent/claude), the live sessions and totals the loop of       *)
(* internal/orchestrator keeps from them, and the snapshots it hands to    *)
(* internal/httpserver and internal/status.                                *)
(*                                                                         *)
(* Texts are numbered by run, token counts are one sum, and the payload of *)
(* rate limits is left out.  Which claim a run has, and why it ends, is    *)
(* the matter of Orchestrator, Worker and ClaudeTurn: here it is open.     *)
(***************************************************************************)
EXTENDS Integers, Sequences, SequencesExt, FiniteSets

CONSTANTS
    Issues,
    Observers,      \* goroutines of net/http, and the status surface
    MaxTurns,       \* agent.max_turns
    Stall,          \* claude.stall_timeout_ms, in ticks of the clock
    Window,         \* maxRecentActivity
    Capacity,       \* of the events channel
    MaxTokens,      \* bound: tokens of a turn
    MaxClock,       \* bound: the wall clock
    MaxRuns,        \* bound: runs in a behaviour
    MaxRequests,    \* bound: requests in a behaviour
    MaxEffort       \* bound: runs, lines, requests and moves of the clock, together

ASSUME SessionsAssumption ==
    /\ {MaxTurns, Window, Capacity} \subseteq Nat \ {0}
    /\ {Stall, MaxTokens, MaxClock, MaxRuns, MaxRequests, MaxEffort} \subseteq Nat
    /\ IsFiniteSet(Issues)

VARIABLES
    clock,      \* the wall clock: time.Now().UTC() drops the monotonic reading
    runs,       \* runs started
    agent,      \* the goroutine of each issue: its client session and what it has to post
    events,     \* the events channel
    session,    \* RunningEntry of each issue with a worker
    retrying,   \* RetryAttempts
    totals,     \* ClaudeTotals
    reported,   \* ghost: tokens of the results the agents read
    tick,       \* the poll timer: "armed", or "queued" once its event is in the channel
    rootCtx,    \* the orchestrator's field: two words, that Run sets one after the other
    up,         \* the loop has not returned
    requests,   \* requests made
    replies,    \* the reply channel of each request
    observer,   \* where each observer is
    answer,     \* what each observer was last given
    effort

runtime == <<session, retrying, totals>>
surface == <<requests, replies, observer, answer>>
daemon == <<rootCtx, up>>
vars == <<clock, runs, agent, events, runtime, reported, tick, daemon, surface, effort>>

Pending == <<0, 0>>             \* PendingSessionID

\* What goroutine and loop keep of a run: lastAt of an agent is a ghost, when it
\* last had something to post, and so are the tokens it spent and its texts.
NoAgent == [place |-> "none"]
FreshAgent(run) ==
    [place |-> "ready", run |-> run, turn |-> 0, sid |-> Pending, started |-> FALSE,
     out |-> <<>>, lastAt |-> clock, spent |-> 0, said |-> 0]
NoSession == [kind |-> "none"]
FreshSession ==
    [sid |-> Pending, turn |-> 0, tokens |-> 0, activity |-> <<>>,
     lastAt |-> -1, startedAt |-> clock, terminating |-> FALSE]

Idle == [place |-> "idle"]

Running == {i \in Issues : session[i] # NoSession}
Tracked == Running \cup retrying

-----------------------------------------------------------------------------
(* The agent client *)

\* emit: the goroutine goes on once the loop has room for what it posts.
Update(i, a, text, usage) ==
    [kind |-> "update", issue |-> i, sid |-> a.sid, turn |-> a.turn,
     text |-> text, usage |-> usage, at |-> clock]
Emits(i, a, out) ==
    /\ agent' = [agent EXCEPT ![i] =
         [a EXCEPT !.out = out, !.lastAt = IF out = <<>> THEN @ ELSE clock]]
    /\ reported' = reported + (a.spent - agent[i].spent)
    /\ UNCHANGED <<clock, runs, events, runtime, tick, daemon, surface>>

InTurn(i) == agent[i].place = "turn" /\ agent[i].out = <<>>

\* Stores the id a line carries; the first one of a turn is announced.
WithId(i, id) ==
    LET a == agent[i] IN
    IF id THEN [a EXCEPT !.sid = <<a.run, a.turn>>, !.started = TRUE] ELSE a
Announced(i, id) ==
    IF id /\ ~agent[i].started THEN <<Update(i, WithId(i, id), 0, 0)>> ELSE <<>>

HandlesInit(i) ==
    /\ InTurn(i)
    /\ Emits(i, WithId(i, TRUE), Announced(i, TRUE))

\* A line with or without a text: assistant, user, other, malformed.
HandlesMessage(i, texts) ==
    /\ InTurn(i)
    /\ LET said == agent[i].said + texts IN
       Emits(i, [agent[i] EXCEPT !.said = said],
             <<Update(i, agent[i], IF texts = 0 THEN 0 ELSE said, 0)>>)

BugHandlesResult(i, id, usage, error) ==
    LET said == agent[i].said + (IF error THEN 1 ELSE 0)
        a == [WithId(i, id) EXCEPT
                !.place = IF error THEN "done" ELSE "ready",
                !.spent = @ + usage, !.said = said]
        end == Update(i, a, IF error THEN said ELSE 0, IF error THEN 0 ELSE usage)
    IN  /\ InTurn(i)
        /\ Emits(i, a, Announced(i, id) \o <<end>>
                       \o (IF error THEN <<[kind |-> "exit", issue |-> i]>> ELSE <<>>))

\* The usage of a result counts whether it is an error or not; the text of an
\* error is one more.
HandlesResult(i, id, usage, error) ==
    LET said == agent[i].said + (IF error THEN 1 ELSE 0)
        a == [WithId(i, id) EXCEPT
                !.place = IF error THEN "done" ELSE "ready",
                !.spent = @ + usage, !.said = said]
        end == Update(i, a, IF error THEN said ELSE 0, usage)
    IN  /\ InTurn(i)
        /\ Emits(i, a, Announced(i, id) \o <<end>>
                       \o (IF error THEN <<[kind |-> "exit", issue |-> i]>> ELSE <<>>))

\* Any other end of a turn: with a text a timeout, the end of the stream or too
\* many malformed lines, without one a cancellation.
TurnFails(i, texts) ==
    /\ InTurn(i)
    /\ LET said == agent[i].said + texts IN
       Emits(i, [agent[i] EXCEPT !.place = "done", !.said = said],
             <<Update(i, agent[i], IF texts = 0 THEN 0 ELSE said, 0),
               [kind |-> "exit", issue |-> i]>>)

TurnStarts(i) ==
    LET a == agent[i] IN
    /\ a.place = "ready" /\ a.out = <<>> /\ a.turn < MaxTurns
    /\ agent' = [agent EXCEPT ![i] =
         [a EXCEPT !.place = "turn", !.turn = @ + 1, !.started = FALSE]]
    /\ UNCHANGED <<clock, runs, events, runtime, reported, tick, daemon, surface>>

\* The run ends between turns, or because the next one cannot be launched.
RunEnds(i) ==
    /\ agent[i].place = "ready" /\ agent[i].out = <<>>
    /\ agent' = [agent EXCEPT ![i].place = "done", ![i].out = <<[kind |-> "exit", issue |-> i]>>]
    /\ UNCHANGED <<clock, runs, events, runtime, reported, tick, daemon, surface>>

\* post: into the channel when it has room, or dropped once the daemon stops.
Posts(i) ==
    /\ agent[i] # NoAgent /\ agent[i].out # <<>>
    /\ \/ Len(events) < Capacity /\ events' = Append(events, Head(agent[i].out))
       \/ rootCtx = "cancelled" /\ UNCHANGED events
    /\ agent' = [agent EXCEPT ![i].out = Tail(@)]
    /\ UNCHANGED <<clock, runs, runtime, reported, tick, daemon, surface>>

-----------------------------------------------------------------------------
(* The loop *)

Next1 == Head(events)
Handles(kind) == /\ up /\ rootCtx \in {"running", "cancelled"}
                 /\ events # <<>> /\ Next1.kind = kind
                 /\ events' = Tail(events)

\* onTick or onRetryTimer dispatches; the session starts without an id.
Dispatches(i) ==
    /\ up /\ rootCtx = "running" /\ session[i] = NoSession /\ runs < MaxRuns
    /\ session' = [session EXCEPT ![i] = FreshSession]
    /\ retrying' = retrying \ {i}
    /\ runs' = runs + 1
    /\ agent' = [agent EXCEPT ![i] = FreshAgent(runs + 1)]
    /\ UNCHANGED <<clock, events, totals, reported, tick, daemon, surface>>

\* onRetryTimer finds the issue gone or ineligible.
RetryReleases(i) ==
    /\ up /\ rootCtx = "running" /\ i \in retrying
    /\ retrying' = retrying \ {i}
    /\ UNCHANGED <<clock, runs, agent, events, session, totals, reported, tick, daemon, surface>>

AppendActivity(hist, text) ==
    LET longer == Append(hist, text) IN
    IF Len(longer) > Window THEN Tail(longer) ELSE longer

OnAgentUpdate ==
    LET m == Next1
        s == session[m.issue]
    IN  /\ Handles("update")
        /\ IF s = NoSession THEN UNCHANGED <<session, totals>>
           ELSE /\ session' = [session EXCEPT ![m.issue] = [s EXCEPT
                     !.lastAt = m.at,
                     !.sid = IF m.sid = Pending THEN @ ELSE m.sid,
                     !.turn = IF m.turn > @ THEN m.turn ELSE @,
                     !.tokens = @ + m.usage,
                     !.activity = IF m.text = 0 THEN @ ELSE AppendActivity(@, m.text)]]
                /\ totals' = [totals EXCEPT !.tokens = @ + m.usage]
        /\ UNCHANGED <<clock, runs, agent, retrying, reported, tick, daemon, surface>>

BugOnWorkerExit ==
    LET i == Next1.issue IN
    /\ Handles("exit")
    /\ session' = [session EXCEPT ![i] = NoSession]
    /\ \/ UNCHANGED <<totals, retrying>>
       \/ /\ totals' = [totals EXCEPT !.seconds = @ + (clock - session[i].startedAt)]
          /\ retrying' = retrying \cup {i}
    /\ UNCHANGED <<clock, runs, agent, reported, tick, daemon, surface>>

\* The seconds of the run are kept, and the claim is released or put on a timer.
OnWorkerExit ==
    LET i == Next1.issue IN
    /\ Handles("exit")
    /\ session' = [session EXCEPT ![i] = NoSession]
    /\ totals' = [totals EXCEPT !.seconds = @ + (clock - session[i].startedAt)]
    /\ retrying' \in {retrying, retrying \cup {i}}
    /\ UNCHANGED <<clock, runs, agent, reported, tick, daemon, surface>>

BugLastActivity(s) == s.startedAt
LastActivity(s) == IF s.lastAt = -1 THEN s.startedAt ELSE s.lastAt
Stalled(s) == Stall > 0 /\ ~s.terminating /\ clock - LastActivity(s) > Stall

\* reconcile, part A; the rest of a tick is Orchestrator's.
OnTick ==
    /\ Handles("tick")
    /\ session' = [i \in Issues |->
         IF session[i] # NoSession /\ Stalled(session[i])
         THEN [session[i] EXCEPT !.terminating = TRUE] ELSE session[i]]
    /\ tick' = "armed"
    /\ UNCHANGED <<clock, runs, agent, retrying, totals, reported, daemon, surface>>

TickFires ==
    /\ tick = "armed" /\ rootCtx = "running" /\ Len(events) < Capacity
    /\ tick' = "queued" /\ events' = Append(events, [kind |-> "tick"])
    /\ UNCHANGED <<clock, runs, agent, runtime, reported, daemon, surface>>

\* buildSnapshot: live seconds are added to those of the ended runs.
LiveSeconds == totals.seconds + SumFunction([i \in Running |-> clock - session[i].startedAt])
BuildSnapshot ==
    [tokens |-> totals.tokens, seconds |-> LiveSeconds, tracked |-> Tracked]

OnSnapshotRequest ==
    LET reply == Next1.reply IN
    /\ Handles("snapshot")
    /\ replies' = [replies EXCEPT ![reply] = IF @ = <<>> THEN <<BuildSnapshot>> ELSE @]
    /\ UNCHANGED <<clock, runs, agent, runtime, reported, tick, daemon, requests, observer, answer>>

-----------------------------------------------------------------------------
(* Observers *)

\* The channel a request is answered on: a fresh one.
BugReplyChannel(o) == 1
ReplyChannel(o) == requests + 1

Gets(o, what) ==
    /\ answer' = [answer EXCEPT ![o] = what]
    /\ observer' = [observer EXCEPT ![o] = Idle]
NotGiven(why) == [given |-> why]

\* Snapshot's first select.  A half-written context panics, which net/http
\* turns into an aborted request.
Asks(o) ==
    /\ observer[o] = Idle /\ requests < MaxRequests
    /\ requests' = requests + 1
    /\ \/ /\ rootCtx = "torn"
          /\ Gets(o, NotGiven("aborted")) /\ UNCHANGED events
       \/ /\ rootCtx # "torn" /\ Len(events) < Capacity
          /\ events' = Append(events, [kind |-> "snapshot", reply |-> ReplyChannel(o)])
          /\ observer' = [observer EXCEPT ![o] =
               [place |-> "sent", reply |-> ReplyChannel(o), floor |-> totals.tokens]]
          /\ UNCHANGED answer
       \/ /\ rootCtx = "cancelled" \/ (rootCtx # "torn" /\ Len(events) = Capacity)
          /\ Gets(o, NotGiven("unavailable")) /\ UNCHANGED events
    /\ UNCHANGED <<clock, runs, agent, runtime, reported, tick, daemon, replies>>

\* The second select reads the field again.
Waits(o) ==
    /\ observer[o].place = "sent"
    /\ IF rootCtx = "torn" THEN Gets(o, NotGiven("aborted"))
       ELSE /\ observer' = [observer EXCEPT ![o] =
                 [place |-> "waiting", reply |-> @.reply, floor |-> @.floor,
                  watches |-> rootCtx # "background"]]
            /\ UNCHANGED answer
    /\ UNCHANGED <<clock, runs, agent, events, runtime, reported, tick, daemon, requests, replies>>

Waiting(o) == observer[o].place = "waiting"
Receives(o) ==
    /\ Waiting(o) /\ replies[observer[o].reply] # <<>>
    /\ Gets(o, [given |-> "snapshot", body |-> Head(replies[observer[o].reply])])
    /\ replies' = [replies EXCEPT ![observer[o].reply] = Tail(@)]
    /\ UNCHANGED <<clock, runs, agent, events, runtime, reported, tick, daemon, requests>>
SeesShutdown(o) ==
    /\ Waiting(o) /\ observer[o].watches /\ rootCtx = "cancelled"
    /\ Gets(o, NotGiven("unavailable"))
    /\ UNCHANGED <<clock, runs, agent, events, runtime, reported, tick, daemon, requests, replies>>
BugTimesOut(o) == SeesShutdown(o)
TimesOut(o) ==
    /\ Waiting(o) /\ Gets(o, NotGiven("timeout"))
    /\ UNCHANGED <<clock, runs, agent, events, runtime, reported, tick, daemon, requests, replies>>

-----------------------------------------------------------------------------
(* The daemon, and time *)

\* Run's assignment of the field, in two words.
RunSetsContext ==
    /\ \/ rootCtx = "background" /\ rootCtx' = "torn"
       \/ rootCtx = "torn" /\ rootCtx' = "running"
    /\ UNCHANGED <<clock, runs, agent, events, runtime, reported, tick, up, surface>>
Signalled ==
    /\ rootCtx = "running" /\ rootCtx' = "cancelled"
    /\ UNCHANGED <<clock, runs, agent, events, runtime, reported, tick, up, surface>>
RunReturns ==
    /\ rootCtx = "cancelled" /\ up /\ up' = FALSE
    /\ UNCHANGED <<clock, runs, agent, events, runtime, reported, tick, rootCtx, surface>>

\* The clock runs, or is set back.
TimePasses ==
    /\ clock' \in 0..MaxClock /\ clock' <= clock + 1 /\ clock' # clock
    /\ UNCHANGED <<runs, agent, events, runtime, reported, tick, daemon, surface>>

-----------------------------------------------------------------------------
Init ==
    /\ clock = 0 /\ runs = 0
    /\ agent = [i \in Issues |-> NoAgent]
    /\ events = <<>>
    /\ session = [i \in Issues |-> NoSession] /\ retrying = {}
    /\ totals = [tokens |-> 0, seconds |-> 0] /\ reported = 0
    /\ tick = "armed" /\ rootCtx = "background" /\ up = TRUE
    /\ requests = 0 /\ replies = [n \in 1..MaxRequests |-> <<>>]
    /\ observer = [o \in Observers |-> Idle]
    /\ answer = [o \in Observers |-> NotGiven("nothing")]
    /\ effort = 0

HandlesLine(i) ==
    \/ HandlesInit(i)
    \/ \E texts \in 0..1 : HandlesMessage(i, texts)
    \/ \E id, error \in BOOLEAN, usage \in 0..MaxTokens : HandlesResult(i, id, usage, error)
AgentStep(i) ==
    \/ TurnStarts(i) \/ RunEnds(i) \/ Posts(i)
    \/ \E texts \in 0..1 : TurnFails(i, texts)
LoopStep == OnAgentUpdate \/ OnWorkerExit \/ OnTick \/ OnSnapshotRequest
ObserverStep(o) == Waits(o) \/ Receives(o) \/ TimesOut(o) \/ SeesShutdown(o)

Environment ==
    \/ \E i \in Issues : HandlesLine(i) \/ Dispatches(i) \/ RetryReleases(i)
    \/ \E o \in Observers : Asks(o)
    \/ TickFires \/ Signalled \/ TimePasses
Costs == effort < MaxEffort /\ effort' = effort + 1
Free == UNCHANGED effort

Next ==
    \/ Environment /\ Costs
    \/ LoopStep /\ Free
    \/ \E i \in Issues : AgentStep(i) /\ Free
    \/ \E o \in Observers : ObserverStep(o) /\ Free
    \/ (RunSetsContext \/ RunReturns) /\ Free

\* The runtime schedules every goroutine, and timers fire.
Fairness ==
    /\ WF_vars(LoopStep /\ Free)
    /\ WF_vars(RunSetsContext /\ Free)
    /\ \A i \in Issues : WF_vars(Posts(i) /\ Free)
    /\ \A o \in Observers : WF_vars(ObserverStep(o) /\ Free)

Spec == Init /\ [][Next]_vars /\ Fairness

-----------------------------------------------------------------------------
(* Properties *)

\* What an issue's goroutine has posted, or has to post, and the loop has not
\* reached, oldest first.
OfIssue(i, q) ==
    FoldLeft(LAMBDA kept, e : IF e.kind \in {"update", "exit"} /\ e.issue = i
                              THEN Append(kept, e) ELSE kept, <<>>, q)
OnTheWay(i) == OfIssue(i, events \o (IF agent[i] = NoAgent THEN <<>> ELSE agent[i].out))
InFlight(q) == {k \in DOMAIN q : q[k].kind = "update"}
TokensOf(q) == SumFunction([k \in DOMAIN q |-> IF k \in InFlight(q) THEN q[k].usage ELSE 0])
TextsOf(q) ==
    SumFunction([k \in DOMAIN q |-> IF k \in InFlight(q) /\ q[k].text # 0 THEN 1 ELSE 0])

\* Until the daemon stops, a session shows exactly what its run has reported
\* and the loop has reached: the tokens of every result once, those of failed
\* turns too, the newest texts without a gap, and between turns the id of its
\* own run; and the totals are the sum over every run (onAgentUpdate, post).
ReportsAreKept ==
    rootCtx # "cancelled" =>
        /\ totals.tokens + SumFunction([i \in Issues |-> TokensOf(OnTheWay(i))]) = reported
        /\ \A i \in Running :
             LET s == session[i]
                 texts == agent[i].said - TextsOf(OnTheWay(i))
                 shown == IF texts < Window THEN texts ELSE Window
             IN  /\ s.tokens + TokensOf(OnTheWay(i)) = agent[i].spent
                 /\ s.activity = [k \in 1..shown |-> texts - shown + k]
                 /\ InFlight(OnTheWay(i)) = {} /\ agent[i].place # "turn" => s.sid = agent[i].sid
                 /\ InFlight(OnTheWay(i)) = {} /\ agent[i].place = "ready" => s.turn = agent[i].turn

\* The seconds shown move with the clock alone, by one for each worker: the
\* start and the end of a run neither lose nor repeat any (onWorkerExit and
\* buildSnapshot).
SecondsFollowTheClock ==
    [][LiveSeconds' - LiveSeconds = (clock' - clock) * Cardinality(Running)]_vars

\* A worker is taken for stalled only after a silence as long as the timeout,
\* or while what it had to say is waiting for the loop (reconcile, whose events
\* may have queued up behind a slow handler).
StalledIsSilentOrWaiting ==
    [][\A i \in Running :
        session'[i] # NoSession /\ ~session[i].terminating /\ session'[i].terminating =>
            clock - agent[i].lastAt > Stall \/ InFlight(OnTheWay(i)) # {} \/ rootCtx = "cancelled"]_vars

\* An observer is given a snapshot that was built after it asked: the late
\* reply to a request it gave up never answers a later one (Snapshot).
AnswersAreFresh ==
    [][\A o \in Observers :
        observer'[o] = Idle /\ observer[o] # Idle /\ answer'[o].given = "snapshot" =>
            answer'[o].body.tokens >= observer[o].floor]_vars

\* Every request is answered, in time or not, whatever the loop does
\* (Snapshot's second select).
ObserverIsAnswered == \A o \in Observers : observer[o] # Idle ~> observer[o] = Idle
=============================================================================
