----------------------------- MODULE ClaudeTurn -----------------------------
(***************************************************************************)
(* One turn of Client.RunTurn in internal/agent/claude: a subprocess, a     *)
(* goroutine that scans its standard output, one that drains its standard  *)
(* error, and consume, which selects among the lines, the context of the   *)
(* turn and the read timer until the turn has an outcome.                   *)
(*                                                                         *)
(* A line is its kind: what parseLine and handleEvent make of it.          *)
(***************************************************************************)
EXTENDS Integers, Sequences

CONSTANTS
    MalformedLimit, \* malformedLineLimit (10 in the code)
    MaxLines        \* bound: lines written in a turn

ASSUME ClaudeTurnAssumption == MalformedLimit \in Nat \ {0} /\ MaxLines \in Nat

Results == {"success", "error"}
Good == {"init", "message"} \cup Results
Line == Good \cup {"malformed", "blank", "huge"}

VARIABLES
    proc,       \* the subprocess
    written,    \* lines written so far
    pipe,       \* lines written to standard output and not scanned
    eof,        \* nobody holds the other end of standard output any more
    closed,     \* Wait has closed this end
    hand,       \* what the scanning goroutine offers on linesCh, "none" while
                \* it scans: a line, "error", or "closed" once it has ended
    drain,      \* the goroutine that drains standard error: "on" or "ended"
    ctx,        \* turnCtx, with the reason for which it ended
    timer,      \* of the first event: "off" is a nil readCh
    pc,         \* of RunTurn: at "select" it looks for a case, "parked" it
                \* sleeps, at "done", "timer" or "lines" it has taken one
    malformed, announced,
    handled,    \* ghost: the lines consume has taken, without the blank ones
    emitted,    \* the events emitted so far
    code        \* of the outcome, "none" before there is one

process == <<proc, written, pipe, eof, drain>>
consume == <<malformed, announced, handled, emitted, code>>
vars == <<process, closed, hand, ctx, timer, pc, consume>>

Cases == {"done", "timer", "lines"}
TerminalEvents ==
    {"turn_completed", "turn_ended_with_error", "turn_failed", "turn_cancelled",
     "startup_failed"}
Event == TerminalEvents \cup {"session_started", "message", "malformed"}
Emit(events) == emitted' = emitted \o events

\* A select that sleeps is given the first case that becomes ready.
Wake(c) == pc' = IF pc = "parked" THEN c ELSE pc

-----------------------------------------------------------------------------
(* RunTurn up to consume *)

\* No pipes, no shell, or a context that has ended already.
StartFails ==
    /\ pc = "start"
    /\ code' \in {"response_error", "claude_not_found"}
    /\ pc' = "returned"
    /\ UNCHANGED <<process, closed, hand, ctx, timer, malformed, announced, handled, emitted>>

Starts ==
    /\ pc = "start"
    /\ ctx = "live"
    /\ proc' = "running" /\ drain' = "on" /\ hand' = "none"
    /\ timer' \in {"off", "armed"}
    /\ pc' = "select"
    /\ UNCHANGED <<written, pipe, eof, closed, ctx, consume>>

-----------------------------------------------------------------------------
(* The subprocess, its descendants, and the two goroutines that read them *)

\* A descendant may write after the shell has ended.
WritesLine(l) ==
    /\ proc \notin {"none", "blocked"}
    /\ ~eof /\ ~closed
    /\ written < MaxLines
    /\ written' = written + 1
    /\ pipe' = Append(pipe, l)
    /\ UNCHANGED <<proc, eof, drain, closed, hand, ctx, timer, pc, consume>>

\* The stream ends or is closed, or has a line longer than readFrom's buffer.
DrainEnds ==
    /\ drain = "on"
    /\ drain' = "ended"
    /\ UNCHANGED <<proc, written, pipe, eof, closed, hand, ctx, timer, pc, consume>>

\* And a process that goes on writing errors sleeps once that pipe is full.
BlocksOnStderr ==
    /\ proc = "running"
    /\ drain = "ended"
    /\ proc' = "blocked"
    /\ UNCHANGED <<written, pipe, eof, drain, closed, hand, ctx, timer, pc, consume>>

Exits ==
    /\ proc = "running"
    /\ proc' = "exited"
    /\ UNCHANGED <<written, pipe, eof, drain, closed, hand, ctx, timer, pc, consume>>

\* exec kills the process when the context ends, whatever ended it.
KilledByContext ==
    /\ ctx # "live"
    /\ proc \in {"running", "blocked"}
    /\ proc' = "killed"
    /\ UNCHANGED <<written, pipe, eof, drain, closed, hand, ctx, timer, pc, consume>>

OutputEnds ==
    /\ proc \in {"exited", "killed"}
    /\ ~eof
    /\ eof' = TRUE
    /\ UNCHANGED <<proc, written, pipe, drain, closed, hand, ctx, timer, pc, consume>>

\* A line beyond maxLineBytes is an error of the scanner.
ReaderScans ==
    /\ hand = "none"
    /\ pipe # <<>>
    /\ pipe' = Tail(pipe)
    /\ hand' = IF Head(pipe) = "huge" THEN "error" ELSE Head(pipe)
    /\ Wake("lines")
    /\ UNCHANGED <<proc, written, eof, drain, closed, ctx, timer, consume>>

BugReaderEnds ==
    /\ hand = "none"
    /\ eof \/ closed
    /\ hand' = "closed"
    /\ Wake("lines")
    /\ UNCHANGED <<process, closed, ctx, timer, consume>>

\* The end of the stream, or a read from a closed file.
ReaderEnds ==
    /\ hand = "none"
    /\ \/ eof /\ pipe = <<>> /\ hand' = "closed"
       \/ closed /\ hand' = "error"
    /\ Wake("lines")
    /\ UNCHANGED <<process, closed, ctx, timer, consume>>

-----------------------------------------------------------------------------
(* The context of the turn and the read timer *)

\* The turn timeout, or the end of the context of the worker.
ContextEnds(why) ==
    /\ ctx = "live"
    /\ ctx' = why
    /\ Wake("done")
    /\ UNCHANGED <<process, closed, hand, timer, consume>>

TimerFires ==
    /\ timer = "armed"
    /\ timer' = "fired"
    /\ Wake("timer")
    /\ UNCHANGED <<process, closed, hand, ctx, consume>>

-----------------------------------------------------------------------------
(* consume.  What a taken case does includes its events: emit blocks while  *)
(* the events channel is full, so the rest may move on before it is done.   *)

Ready == (IF ctx \in {"expired", "cancelled"} THEN {"done"} ELSE {})
    \cup (IF timer = "fired" THEN {"timer"} ELSE {})
    \cup (IF hand # "none" THEN {"lines"} ELSE {})

\* select takes any case that is ready.
Selects(c) ==
    /\ pc = "select"
    /\ c \in Ready
    /\ pc' = c
    /\ UNCHANGED <<process, closed, hand, ctx, timer, consume>>

Parks ==
    /\ pc = "select"
    /\ Ready = {}
    /\ pc' = "parked"
    /\ UNCHANGED <<process, closed, hand, ctx, timer, consume>>

\* consume returns, and stops the timer.
Decide(outcome) ==
    /\ code' = outcome
    /\ timer' = "off"
    /\ pc' = "cancel"

BugTurnContextEnds ==
    /\ pc = "done"
    /\ IF ctx = "expired"
       THEN Emit(<<"turn_failed">>) /\ Decide("turn_timeout")
       ELSE Emit(<<"turn_cancelled">>) /\ UNCHANGED <<code, timer>> /\ pc' = "select"
    /\ UNCHANGED <<process, closed, hand, ctx, malformed, announced, handled>>

TurnContextEnds ==
    /\ pc = "done"
    /\ IF ctx = "expired"
       THEN Emit(<<"turn_failed">>) /\ Decide("turn_timeout")
       ELSE Emit(<<"turn_cancelled">>) /\ Decide("turn_cancelled")
    /\ UNCHANGED <<process, closed, hand, ctx, malformed, announced, handled>>

\* readCh is nil once an event was seen, so none was.
ResponseTimesOut ==
    /\ pc = "timer"
    /\ Emit(<<"startup_failed">>)
    /\ Decide("response_timeout")
    /\ UNCHANGED <<process, closed, hand, ctx, malformed, announced, handled>>

StreamEnds ==
    /\ pc = "lines"
    /\ hand = "closed"
    /\ Emit(<<"turn_failed">>)
    /\ Decide("turn_failed")
    /\ UNCHANGED <<process, closed, hand, ctx, malformed, announced, handled>>

ReadFails ==
    /\ pc = "lines"
    /\ hand = "error"
    /\ hand' = "closed"
    /\ Emit(<<"turn_failed">>)
    /\ Decide("response_error")
    /\ UNCHANGED <<process, closed, ctx, malformed, announced, handled>>

TakesLine(kinds) ==
    /\ pc = "lines"
    /\ hand \in kinds
    /\ hand' = "none"
    /\ handled' = IF hand = "blank" THEN handled ELSE Append(handled, hand)
    /\ UNCHANGED <<process, closed, ctx>>

HandlesBlank ==
    /\ TakesLine({"blank"})
    /\ pc' = "select"
    /\ UNCHANGED <<timer, malformed, announced, emitted, code>>

BugMalformedLimit ==
    /\ TakesLine({"malformed"})
    /\ malformed' = malformed + 1
    /\ Emit(<<"malformed">>)
    /\ IF malformed' > MalformedLimit
       THEN Decide("stream_corruption")
       ELSE pc' = "select" /\ UNCHANGED <<code, timer>>
    /\ UNCHANGED announced

BugHandlesMalformed ==
    /\ TakesLine({"malformed"})
    /\ malformed' = malformed + 1
    /\ Emit(<<"malformed">>)
    /\ timer' = "off"
    /\ IF malformed' >= MalformedLimit
       THEN code' = "stream_corruption" /\ pc' = "cancel"
       ELSE code' = code /\ pc' = "select"
    /\ UNCHANGED announced

HandlesMalformed ==
    /\ TakesLine({"malformed"})
    /\ malformed' = malformed + 1
    /\ Emit(<<"malformed">>)
    /\ IF malformed' >= MalformedLimit
       THEN Decide("stream_corruption")
       ELSE pc' = "select" /\ UNCHANGED <<code, timer>>
    /\ UNCHANGED announced

\* session_started is emitted with the first session id.
Announces(id, events) ==
    /\ announced' = (announced \/ id)
    /\ Emit(IF id /\ ~announced THEN <<"session_started">> \o events ELSE events)

BugHandlesMessage ==
    /\ TakesLine({"init", "message"})
    /\ timer' = "off"
    /\ IF hand = "init"
       THEN Announces(TRUE, <<>>)
       ELSE Emit(<<"message">>) /\ UNCHANGED announced
    /\ pc' = "select"
    /\ UNCHANGED <<malformed, code>>

\* An init event without a session id is a message like any other.
HandlesMessage ==
    /\ TakesLine({"init", "message"})
    /\ malformed' = 0
    /\ timer' = "off"
    /\ IF hand = "init"
       THEN Announces(TRUE, <<>>)
       ELSE Emit(<<"message">>) /\ UNCHANGED announced
    /\ pc' = "select"
    /\ UNCHANGED code

\* The result may be the first line that carries the session id.
HandlesResult ==
    /\ TakesLine(Results)
    /\ malformed' = 0
    /\ \E id \in BOOLEAN :
         Announces(id, <<IF hand = "error" THEN "turn_ended_with_error" ELSE "turn_completed">>)
    /\ Decide(IF hand = "error" THEN "response_error" ELSE "success")

-----------------------------------------------------------------------------
(* RunTurn after consume *)

BugCancels ==
    /\ pc = "cancel"
    /\ pc' = "wait"
    /\ UNCHANGED <<process, closed, hand, ctx, timer, consume>>

Cancels ==
    /\ pc = "cancel"
    /\ ctx' = IF ctx = "live" THEN "released" ELSE ctx
    /\ pc' = "wait"
    /\ UNCHANGED <<process, closed, hand, timer, consume>>

Waits ==
    /\ pc = "wait"
    /\ proc \in {"exited", "killed"}
    /\ closed' = TRUE
    /\ pc' = "drain"
    /\ UNCHANGED <<process, hand, ctx, timer, consume>>

Returns ==
    /\ pc = "drain"
    /\ drain = "ended"
    /\ pc' = "returned"
    /\ UNCHANGED <<process, closed, hand, ctx, timer, consume>>

Returned == pc = "returned" /\ UNCHANGED vars

-----------------------------------------------------------------------------
Init ==
    /\ proc = "none" /\ written = 0
    /\ pipe = <<>> /\ eof = FALSE /\ closed = FALSE
    /\ hand = "closed" /\ drain = "ended"
    /\ ctx = "live" /\ timer = "off"
    /\ pc = "start"
    /\ malformed = 0 /\ announced = FALSE
    /\ handled = <<>> /\ emitted = <<>>
    /\ code = "none"

Process ==
    \/ \E l \in Line : WritesLine(l)
    \/ BlocksOnStderr \/ Exits \/ KilledByContext \/ OutputEnds

Consume ==
    \/ \E c \in Cases : Selects(c)
    \/ Parks
    \/ TurnContextEnds \/ ResponseTimesOut \/ StreamEnds \/ ReadFails
    \/ HandlesBlank \/ HandlesMalformed \/ HandlesMessage \/ HandlesResult

RunTurn ==
    \/ StartFails \/ Starts
    \/ Consume
    \/ Cancels \/ Waits \/ Returns

Next ==
    \/ RunTurn
    \/ Process
    \/ ReaderScans \/ ReaderEnds \/ DrainEnds
    \/ TimerFires \/ \E why \in {"expired", "cancelled"} : ContextEnds(why)
    \/ Returned

Spec == Init /\ [][Next]_vars

\* The goroutines, the timer and the kill get their turn, and a select that is
\* asked again and again does not ignore a case for ever.  Nothing is assumed
\* of the process: it may be silent, write garbage or sleep.
FairSpec ==
    /\ Spec
    /\ WF_vars(RunTurn)
    /\ SF_vars(Selects("done")) /\ SF_vars(Selects("timer"))
    /\ WF_vars(ReaderScans \/ ReaderEnds)
    /\ WF_vars(closed /\ DrainEnds)
    /\ WF_vars(TimerFires)
    /\ WF_vars(KilledByContext)

-----------------------------------------------------------------------------
Outcomes ==
    {"none", "success", "claude_not_found", "response_error", "response_timeout",
     "stream_corruption", "turn_cancelled", "turn_failed", "turn_timeout"}

TypeOK ==
    /\ proc \in {"none", "running", "blocked", "exited", "killed"}
    /\ written \in 0..MaxLines
    /\ pipe \in Seq(Line)
    /\ eof \in BOOLEAN /\ closed \in BOOLEAN
    /\ hand \in (Line \ {"huge"}) \cup {"none", "error", "closed"}
    /\ drain \in {"on", "ended"}
    /\ ctx \in {"live", "expired", "cancelled", "released"}
    /\ timer \in {"off", "armed", "fired"}
    /\ pc \in {"start", "select", "parked", "cancel", "wait", "drain", "returned"} \cup Cases
    /\ malformed \in 0..MalformedLimit
    /\ announced \in BOOLEAN
    /\ handled \in Seq(Line)
    /\ emitted \in Seq(Event)
    /\ code \in Outcomes

\* The events that may report an outcome.  A run of malformed lines is reported
\* by nothing else than its last line.
EventsOf(outcome) ==
    CASE outcome = "success" -> {"turn_completed"}
      [] outcome = "response_error" -> {"turn_ended_with_error", "turn_failed"}
      [] outcome = "response_timeout" -> {"startup_failed"}
      [] outcome = "stream_corruption" -> {"malformed"}
      [] outcome = "turn_cancelled" -> {"turn_cancelled"}
      [] outcome \in {"turn_failed", "turn_timeout"} -> {"turn_failed"}

\* Once there is a process, the loop hears of the outcome that the worker gets:
\* once, and nothing after it; and of the session at most once.
OutcomeIsReported ==
    /\ \A k \in DOMAIN emitted : emitted[k] \in TerminalEvents =>
          k = Len(emitted) /\ code # "none"
    /\ code # "none" /\ proc # "none" =>
          emitted # <<>> /\ emitted[Len(emitted)] \in EventsOf(code)
    /\ \A j, k \in DOMAIN emitted :
          emitted[j] = "session_started" /\ emitted[k] = "session_started" => j = k

Ended == Len(handled)

\* A result decides the turn: it is the last line taken, and no timeout, end
\* of stream or cancellation takes its place.
ResultDecides ==
    /\ \A k \in DOMAIN handled : handled[k] \in Results =>
          /\ k = Ended
          /\ code = IF handled[k] = "error" THEN "response_error" ELSE "success"
    /\ code = "success" => Ended > 0 /\ handled[Ended] = "success"

\* Corruption is a run of malformed lines, not interrupted by a good one.
CorruptionIsARun ==
    code = "stream_corruption"
        <=> /\ Ended >= MalformedLimit
            /\ \A k \in Ended - MalformedLimit + 1..Ended : handled[k] = "malformed"

\* A turn fails for want of a result only if every line was taken, though the
\* process may have been killed and its lines come late.
NothingIsLeftUnread == code = "turn_failed" => pipe = <<>> /\ hand = "closed"

\* The read timer ends only a turn that has shown no event.
SilentUntilTimeout ==
    code = "response_timeout" => \A k \in DOMAIN handled : handled[k] \notin Good

\* Whichever of the process, the two timers and the worker is first, the
\* outcome agrees with the lines that were taken.
OutcomeMatchesStream ==
    ResultDecides /\ CorruptionIsARun /\ NothingIsLeftUnread /\ SilentUntilTimeout

\* A turn whose context or stream ends, and one that has its outcome, returns,
\* though the process sleeps and its output is never closed.
TurnReturns == (ctx # "live" \/ eof \/ code # "none") ~> pc = "returned"

\* With a read timeout, a process that shows no event is given up, even when
\* it writes lines without end that are none.
SilentProcessIsGivenUp ==
    timer = "armed" ~> code # "none" \/ \E k \in DOMAIN handled : handled[k] \in Good

=============================================================================
