-------------------------- MODULE ClaudeTurnProofs --------------------------
(* Theorems about ClaudeTurn, for every limit of malformed lines and any    *)
(* number of lines.                                                         *)
EXTENDS ClaudeTurn, TLAPS, SequenceTheorems

Undecided == {"start", "select", "parked"} \cup Cases

\* Where RunTurn is tells what it has so far.
Progress ==
    /\ code = "none" <=> pc \in Undecided
    /\ pc = "start" => /\ proc = "none" /\ timer = "off" /\ ~announced
                       /\ handled = <<>> /\ emitted = <<>>
    /\ proc = "none" => pc \in {"start", "returned"}
    /\ pc = "timer" => timer = "fired"

\* malformed is the length of the run at the end of handled.
MalformedRun ==
    /\ malformed <= Ended
    /\ \A k \in Ended - malformed + 1..Ended : handled[k] = "malformed"
    /\ malformed < Ended => handled[Ended - malformed] # "malformed"
    /\ code = "stream_corruption" <=> malformed >= MalformedLimit

\* Until a read has failed, a goroutine that has ended has left nothing.
ScannedToEnd ==
    /\ code = "turn_failed" => hand = "closed" /\ proc # "none"
    /\ hand = "closed" /\ proc # "none" /\ code \in {"none", "turn_failed"} =>
          eof /\ pipe = <<>>

\* An armed timer has seen nothing, and an undecided turn no result.
NothingSeen ==
    /\ timer # "off" => \A k \in DOMAIN handled : handled[k] \notin Good
    /\ code = "none" => \A k \in DOMAIN handled : handled[k] \notin Results

TurnInv == TypeOK /\ Progress /\ MalformedRun

-----------------------------------------------------------------------------
(* What the actions do to the sequences *)

LEMMA Appended ==
    ASSUME NEW S, NEW s \in Seq(S), NEW e \in S, NEW t, t = Append(s, e)
    PROVE  /\ t \in Seq(S)
           /\ Len(s) \in Nat /\ Len(t) = Len(s) + 1
           /\ DOMAIN s = 1..Len(s) /\ DOMAIN t = 1..Len(s) + 1
           /\ t[Len(s) + 1] = e
           /\ \A k \in 1..Len(s) : t[k] = s[k]
<1>1. /\ t \in Seq(S) /\ Len(t) = Len(s) + 1 /\ t[Len(s) + 1] = e
      /\ \A k \in 1..Len(s) : t[k] = s[k]
  BY AppendProperties
<1> QED
  BY <1>1, LenProperties

\* Emitting one event appends it.
LEMMA EmitsOne ==
    ASSUME TypeOK, NEW e \in Event, Emit(<<e>>)
    PROVE  /\ emitted' = Append(emitted, e)
           /\ emitted' \in Seq(Event)
<1>1. emitted' = Append(emitted, e)
  BY AppendIsConcat DEF TypeOK, Emit
<1> QED
  BY <1>1, AppendProperties DEF TypeOK

\* Emitting two appends one after the other.
LEMMA EmitsTwo ==
    ASSUME TypeOK, NEW d \in Event, NEW e \in Event, Emit(<<d>> \o <<e>>)
    PROVE  /\ emitted' = Append(Append(emitted, d), e)
           /\ emitted' \in Seq(Event)
<1>1. Append(emitted, d) = emitted \o <<d>> /\ Append(emitted, d) \in Seq(Event)
  BY AppendIsConcat, AppendProperties DEF TypeOK
<1>2. /\ Append(Append(emitted, d), e) = (emitted \o <<d>>) \o <<e>>
      /\ Append(Append(emitted, d), e) \in Seq(Event)
  BY <1>1, AppendIsConcat, AppendProperties
<1>3. <<d>> \in Seq(Event) /\ <<e>> \in Seq(Event)
  OBVIOUS
<1>4. (emitted \o <<d>>) \o <<e>> = emitted \o (<<d>> \o <<e>>)
  BY <1>3, ConcatAssociative DEF TypeOK
<1> QED
  BY <1>2, <1>4 DEF Emit

\* Taking a line that is not blank appends it.
LEMMA TakesOne ==
    ASSUME TypeOK, NEW kinds, kinds \subseteq Line \ {"blank", "huge"}, TakesLine(kinds)
    PROVE  /\ hand \in kinds
           /\ handled' = Append(handled, hand)
           /\ handled' \in Seq(Line)
<1>1. hand \in kinds /\ hand \in Line /\ handled' = Append(handled, hand)
  BY DEF TakesLine
<1> QED
  BY <1>1, AppendProperties DEF TypeOK

LEMMA KindsAreLines ==
    /\ {"malformed"} \subseteq Line \ {"blank", "huge"}
    /\ {"init", "message"} \subseteq Line \ {"blank", "huge"}
    /\ Results \subseteq Line \ {"blank", "huge"}
    /\ Results \subseteq Good /\ {"init", "message"} \subseteq Good
    /\ "malformed" \notin Good
BY DEF Line, Good, Results

Outcome == TurnContextEnds \/ ResponseTimesOut \/ StreamEnds \/ ReadFails

\* Every step is one of these.
LEMMA Steps ==
    ASSUME [Next]_vars
    PROVE  \/ UNCHANGED consume
           \/ StartFails \/ Outcome
           \/ HandlesBlank \/ HandlesMalformed \/ HandlesMessage \/ HandlesResult
BY DEF Next, RunTurn, Consume, Process, vars, process, consume, Outcome,
   Starts, Selects, Parks, Cancels, Waits, Returns, Returned,
   WritesLine, BlocksOnStderr, Exits, KilledByContext, OutputEnds,
   ReaderScans, ReaderEnds, DrainEnds, TimerFires, ContextEnds

-----------------------------------------------------------------------------
(* Types, and what pc tells *)

LEMMA InitTurnInv == Init => TurnInv
<1> SUFFICES ASSUME Init PROVE TurnInv
  OBVIOUS
<1>1. TypeOK
  <2>1. pipe \in Seq(Line) /\ handled \in Seq(Line) /\ emitted \in Seq(Event)
    BY EmptySeq DEF Init
  <2>2. written \in 0..MaxLines /\ malformed \in 0..MalformedLimit
    BY ClaudeTurnAssumption DEF Init
  <2> QED
    BY <2>1, <2>2 DEF Init, TypeOK, Outcomes
<1>2. Progress
  BY DEF Init, Progress, Undecided
<1>3. Ended = 0
  BY DEF Init, Ended
<1>4. MalformedRun
  BY <1>3, ClaudeTurnAssumption DEF Init, MalformedRun
<1> QED
  BY <1>1, <1>2, <1>4 DEF TurnInv

LEMMA NextProgress ==
    ASSUME TurnInv, [Next]_vars
    PROVE  Progress'
<1> USE DEF TurnInv, Progress, Undecided, Cases, process, consume
<1>1. CASE StartFails \/ Starts
  BY <1>1 DEF StartFails, Starts
<1>2. CASE Outcome
  BY <1>2 DEF Outcome, TurnContextEnds, ResponseTimesOut, StreamEnds, ReadFails, Decide
<1>3. CASE HandlesBlank
  BY <1>3 DEF HandlesBlank, TakesLine
<1>4. CASE HandlesMalformed
  BY <1>4 DEF HandlesMalformed, TakesLine, Decide
<1>5. CASE HandlesMessage
  BY <1>5 DEF HandlesMessage, TakesLine
<1>6. CASE HandlesResult
  BY <1>6 DEF HandlesResult, TakesLine, Decide
<1>7. CASE (\E c \in Cases : Selects(c)) \/ Parks
  BY <1>7 DEF Selects, Parks, Ready
<1>8. CASE Cancels \/ Waits \/ Returns
  BY <1>8 DEF Cancels, Waits, Returns
<1>9. CASE Process \/ DrainEnds
  BY <1>9 DEF Process, WritesLine, BlocksOnStderr, Exits, KilledByContext, OutputEnds, DrainEnds
<1>10. CASE ReaderScans \/ ReaderEnds
  BY <1>10 DEF ReaderScans, ReaderEnds, Wake
<1>11. CASE TimerFires \/ \E why \in {"expired", "cancelled"} : ContextEnds(why)
  BY <1>11 DEF TimerFires, ContextEnds, Wake
<1>12. CASE UNCHANGED vars
  BY <1>12 DEF vars
<1> QED
  BY <1>1, <1>2, <1>3, <1>4, <1>5, <1>6, <1>7, <1>8, <1>9, <1>10, <1>11, <1>12
  DEF Next, RunTurn, Consume, Returned, Outcome

LEMMA NextMalformedRun ==
    ASSUME TurnInv, [Next]_vars
    PROVE  MalformedRun'
<1>1. /\ TypeOK /\ Progress /\ MalformedRun
      /\ Ended \in Nat /\ malformed \in Nat
      /\ MalformedLimit \in Nat \ {0}
  BY ClaudeTurnAssumption, LenProperties DEF TurnInv, TypeOK, Ended
<1>2. CASE UNCHANGED <<malformed, handled, code>>
  BY <1>1, <1>2 DEF MalformedRun, Ended
<1>3. CASE StartFails \/ Outcome \/ HandlesBlank
  <2>1. UNCHANGED <<malformed, handled>> /\ code = "none" /\ code' # "stream_corruption"
    BY <1>1, <1>3 DEF StartFails, Outcome, TurnContextEnds, ResponseTimesOut, StreamEnds,
       ReadFails, HandlesBlank, TakesLine, Decide, Progress, Undecided, Cases
  <2> QED
    BY <1>1, <2>1 DEF MalformedRun, Ended
<1>4. CASE HandlesMalformed
  <2>1. /\ handled' \in Seq(Line) /\ Len(handled') = Len(handled) + 1
        /\ handled'[Len(handled) + 1] = "malformed"
        /\ \A k \in 1..Len(handled) : handled'[k] = handled[k]
    <3>1. TakesLine({"malformed"})
      BY <1>4 DEF HandlesMalformed
    <3>2. handled' = Append(handled, "malformed") /\ handled \in Seq(Line) /\ "malformed" \in Line
      BY <1>1, <3>1, TakesOne, KindsAreLines DEF TypeOK, Line
    <3> QED
      BY <3>2, Appended
  <2>2. malformed' = malformed + 1 /\ code = "none" /\ malformed < MalformedLimit
    BY <1>1, <1>4 DEF HandlesMalformed, TakesLine, Progress, MalformedRun, Undecided, Cases
  <2>3. code' = "stream_corruption" <=> malformed' >= MalformedLimit
    BY <1>4, <2>2 DEF HandlesMalformed, Decide
  <2>4. \A k \in Ended' - malformed' + 1..Ended' : handled'[k] = "malformed"
    BY <1>1, <2>1, <2>2 DEF MalformedRun, Ended
  <2>5. malformed' < Ended' => handled'[Ended' - malformed'] # "malformed"
    BY <1>1, <2>1, <2>2 DEF MalformedRun, Ended
  <2> QED
    BY <1>1, <2>1, <2>2, <2>3, <2>4, <2>5 DEF MalformedRun, Ended
<1>5. CASE HandlesMessage \/ HandlesResult
  <2>1. PICK e \in Good : handled' = Append(handled, e)
    BY <1>1, <1>5, TakesOne, KindsAreLines DEF HandlesMessage, HandlesResult
  <2>2. /\ handled' \in Seq(Line) /\ Len(handled') = Len(handled) + 1
        /\ handled'[Len(handled) + 1] # "malformed"
    BY <1>1, <2>1, Appended DEF TypeOK, Line, Good, Results
  <2>3. malformed' = 0 /\ code = "none" /\ code' # "stream_corruption"
    BY <1>1, <1>5 DEF HandlesMessage, HandlesResult, TakesLine, Progress, Undecided, Cases, Decide
  <2> QED
    BY <1>1, <2>2, <2>3 DEF MalformedRun, Ended
<1> QED
  BY <1>2, <1>3, <1>4, <1>5, Steps DEF consume

LEMMA NextType ==
    ASSUME TurnInv, [Next]_vars
    PROVE  TypeOK'
<1>1. TypeOK /\ Progress /\ MalformedRun /\ MalformedLimit \in Nat \ {0} /\ MaxLines \in Nat
  BY ClaudeTurnAssumption DEF TurnInv
<1> USE DEF process, consume, Cases, Outcomes
<1>2. CASE StartFails \/ Starts
  BY <1>1, <1>2 DEF TypeOK, StartFails, Starts
<1>3. CASE Outcome
  <2>1. PICK e \in Event : Emit(<<e>>)
    BY <1>3 DEF Outcome, TurnContextEnds, ResponseTimesOut, StreamEnds, ReadFails,
       Event, TerminalEvents
  <2>2. emitted' \in Seq(Event)
    BY <1>1, <2>1, EmitsOne
  <2> QED
    BY <1>1, <1>3, <2>2 DEF TypeOK, Outcome, TurnContextEnds, ResponseTimesOut, StreamEnds,
       ReadFails, Decide
<1>4. CASE HandlesBlank
  BY <1>1, <1>4 DEF TypeOK, HandlesBlank, TakesLine
<1>5. CASE HandlesMalformed
  <2>1. handled' \in Seq(Line)
    BY <1>1, <1>5, TakesOne, KindsAreLines DEF HandlesMalformed
  <2>2. emitted' \in Seq(Event)
    BY <1>1, <1>5, EmitsOne DEF HandlesMalformed, Event
  <2>3. malformed' \in 0..MalformedLimit
    BY <1>1, <1>5 DEF TypeOK, HandlesMalformed, TakesLine, Progress, MalformedRun, Undecided
  <2> QED
    BY <1>1, <1>5, <2>1, <2>2, <2>3 DEF TypeOK, HandlesMalformed, TakesLine, Decide
<1>6. CASE HandlesMessage
  <2>1. handled' \in Seq(Line)
    BY <1>1, <1>6, TakesOne, KindsAreLines DEF HandlesMessage
  <2>2. emitted' \in Seq(Event)
    <3>1. CASE Emit(<<"message">>) \/ Emit(<<"session_started">>)
      BY <1>1, <3>1, EmitsOne DEF Event
    <3>2. CASE Emit(<<>>)
      BY <1>1, <3>2, ConcatEmptySeq DEF TypeOK, Emit
    <3>3. Emit(<<"message">>) \/ Emit(<<"session_started">> \o <<>>) \/ Emit(<<>>)
      BY <1>6 DEF HandlesMessage, Announces
    <3>4. <<"session_started">> \o <<>> = <<"session_started">>
      BY ConcatEmptySeq
    <3> QED
      BY <3>1, <3>2, <3>3, <3>4
  <2> QED
    <3>1. announced' \in BOOLEAN
      BY <1>1, <1>6 DEF TypeOK, HandlesMessage, Announces
    <3> QED
      BY <1>1, <1>6, <2>1, <2>2, <3>1 DEF TypeOK, HandlesMessage, TakesLine
<1>7. CASE HandlesResult
  <2>1. handled' \in Seq(Line)
    BY <1>1, <1>7, TakesOne, KindsAreLines DEF HandlesResult
  <2>2. emitted' \in Seq(Event)
    <3>1. PICK e \in TerminalEvents : Emit(<<e>>) \/ Emit(<<"session_started">> \o <<e>>)
      BY <1>7 DEF HandlesResult, Announces, TerminalEvents
    <3> QED
      BY <1>1, <3>1, EmitsOne, EmitsTwo DEF Event
  <2> QED
    BY <1>1, <1>7, <2>1, <2>2 DEF TypeOK, HandlesResult, TakesLine, Announces, Decide
<1>8. CASE (\E c \in Cases : Selects(c)) \/ Parks
  BY <1>1, <1>8 DEF TypeOK, Selects, Parks
<1>15. CASE Cancels
  BY <1>1, <1>15 DEF TypeOK, Cancels
<1>16. CASE Waits \/ Returns
  <2>1. closed' \in BOOLEAN
    BY <1>1, <1>16 DEF TypeOK, Waits, Returns
  <2>2. UNCHANGED <<process, hand, ctx, timer, consume>> /\ pc' \in {"drain", "returned"}
    BY <1>16 DEF Waits, Returns
  <2> QED
    BY <1>1, <2>1, <2>2 DEF TypeOK
<1>9. CASE \E l \in Line : WritesLine(l)
  BY <1>1, <1>9, Appended DEF TypeOK, WritesLine
<1>10. CASE BlocksOnStderr \/ Exits \/ KilledByContext
  BY <1>1, <1>10 DEF TypeOK, BlocksOnStderr, Exits, KilledByContext
<1>17. CASE OutputEnds \/ DrainEnds
  <2>1. eof' \in BOOLEAN /\ drain' \in {"on", "ended"}
    BY <1>1, <1>17 DEF TypeOK, OutputEnds, DrainEnds
  <2>2. UNCHANGED <<proc, written, pipe, closed, hand, ctx, timer, pc, consume>>
    BY <1>17 DEF OutputEnds, DrainEnds
  <2> QED
    BY <1>1, <2>1, <2>2 DEF TypeOK
<1>11. CASE ReaderScans
  <2>1. Head(pipe) \in Line /\ Tail(pipe) \in Seq(Line)
    BY <1>1, <1>11, HeadTailProperties DEF TypeOK, ReaderScans
  <2> QED
    BY <1>1, <1>11, <2>1 DEF TypeOK, ReaderScans, Wake
<1>12. CASE ReaderEnds
  BY <1>1, <1>12 DEF TypeOK, ReaderEnds, Wake
<1>13. CASE TimerFires \/ \E why \in {"expired", "cancelled"} : ContextEnds(why)
  BY <1>1, <1>13 DEF TypeOK, TimerFires, ContextEnds, Wake
<1>14. CASE UNCHANGED vars
  BY <1>1, <1>14 DEF TypeOK, vars
<1> QED
  BY <1>2, <1>3, <1>4, <1>5, <1>6, <1>7, <1>8, <1>9, <1>10, <1>11, <1>12, <1>13, <1>14,
     <1>15, <1>16, <1>17
  DEF Next, RunTurn, Consume, Process, Returned, Outcome

LEMMA TurnInvariant == Spec => []TurnInv
<1>1. TurnInv /\ [Next]_vars => TurnInv'
  BY NextType, NextProgress, NextMalformedRun DEF TurnInv
<1> QED
  BY <1>1, InitTurnInv, PTL DEF Spec

\* Every variable keeps its type; in particular malformed stays within its
\* limit, because a run of malformed lines ends the turn.
THEOREM TurnTypeCorrect == Spec => []TypeOK
BY TurnInvariant, PTL DEF TurnInv

-----------------------------------------------------------------------------
(* The outcome agrees with the stream *)

LEMMA NextScannedToEnd ==
    ASSUME TurnInv, ScannedToEnd, [Next]_vars
    PROVE  ScannedToEnd'
<1> USE DEF ScannedToEnd, process, consume
<1>1. Progress
  BY DEF TurnInv
<1>2. CASE StartFails \/ Starts
  BY <1>1, <1>2 DEF Progress, StartFails, Starts
<1>3. CASE Outcome
  BY <1>1, <1>3 DEF Progress, Undecided, Cases, Outcome, TurnContextEnds, ResponseTimesOut,
     StreamEnds, ReadFails, Decide
<1>4. CASE HandlesBlank \/ HandlesMalformed \/ HandlesMessage \/ HandlesResult
  <2>1. pc = "lines" /\ hand' = "none" /\ code' # "turn_failed"
    BY <1>1, <1>4 DEF HandlesBlank, HandlesMalformed, HandlesMessage, HandlesResult, TakesLine,
       Decide, Progress, Undecided, Cases
  <2> QED
    BY <2>1
<1>5. CASE (\E c \in Cases : Selects(c)) \/ Parks \/ Cancels \/ Waits \/ Returns
  BY <1>5 DEF Selects, Parks, Cancels, Waits, Returns
<1>6. CASE \E l \in Line : WritesLine(l)
  BY <1>6 DEF WritesLine
<1>7. CASE BlocksOnStderr \/ Exits \/ KilledByContext \/ OutputEnds \/ DrainEnds
  BY <1>7 DEF BlocksOnStderr, Exits, KilledByContext, OutputEnds, DrainEnds
<1>8. CASE ReaderScans
  <2>1. Head(pipe) \in Line
    BY <1>8, HeadTailProperties DEF TurnInv, TypeOK, ReaderScans
  <2>2. hand' # "closed" /\ code # "turn_failed"
    BY <1>8, <2>1 DEF ReaderScans, Line, Good, Results
  <2> QED
    BY <1>8, <2>2 DEF ReaderScans
<1>9. CASE ReaderEnds
  BY <1>9 DEF ReaderEnds
<1>10. CASE TimerFires \/ \E why \in {"expired", "cancelled"} : ContextEnds(why)
  BY <1>10 DEF TimerFires, ContextEnds
<1>11. CASE UNCHANGED vars
  BY <1>11 DEF vars
<1> QED
  BY <1>2, <1>3, <1>4, <1>5, <1>6, <1>7, <1>8, <1>9, <1>10, <1>11
  DEF Next, RunTurn, Consume, Process, Returned, Outcome

SeenSoFar == NothingSeen /\ ResultDecides /\ SilentUntilTimeout

LEMMA NextSeenSoFar ==
    ASSUME TurnInv, SeenSoFar, [Next]_vars
    PROVE  SeenSoFar'
<1> USE DEF SeenSoFar, NothingSeen, ResultDecides, SilentUntilTimeout, Ended
<1>1. TypeOK /\ Progress /\ Results \subseteq Good
  BY KindsAreLines DEF TurnInv
<1>2. CASE UNCHANGED consume
  <2>1. timer' # "off" => timer # "off" \/ handled = <<>>
    BY <1>1, <1>2, Steps DEF Next, RunTurn, Consume, Process, vars, process, Progress,
       Starts, Selects, Parks, Cancels, Waits, Returns, Returned,
       StartFails, TurnContextEnds, ResponseTimesOut, StreamEnds, ReadFails, Decide,
       HandlesBlank, HandlesMalformed, HandlesMessage, HandlesResult,
       WritesLine, BlocksOnStderr, Exits, KilledByContext, OutputEnds,
       ReaderScans, ReaderEnds, DrainEnds, TimerFires, ContextEnds
  <2> QED
    BY <1>2, <2>1 DEF consume
<1>3. CASE StartFails \/ Outcome
  <2>1. /\ handled' = handled /\ code = "none" /\ code' # "success"
        /\ timer' = "off" \/ handled = <<>>
        /\ code' = "response_timeout" => timer = "fired"
    BY <1>1, <1>3 DEF StartFails, Outcome, TurnContextEnds, ResponseTimesOut, StreamEnds,
       ReadFails, Decide, Progress, Undecided, Cases
  <2> QED
    BY <1>1, <2>1 DEF Progress
<1>4. CASE HandlesBlank
  BY <1>1, <1>4 DEF HandlesBlank, TakesLine
<1>5. CASE HandlesMalformed
  <2>1. handled' = Append(handled, "malformed") /\ code = "none"
    BY <1>1, <1>5, TakesOne, KindsAreLines DEF HandlesMalformed, TakesLine, Progress,
       Undecided, Cases
  <2>2. /\ timer' # "off" => timer # "off"
        /\ code' \in {"none", "stream_corruption"}
    BY <1>1, <1>5, <2>1 DEF HandlesMalformed, Decide
  <2>3. \A k \in DOMAIN handled' : \/ k \in DOMAIN handled /\ handled'[k] = handled[k]
                                   \/ handled'[k] = "malformed"
    BY <1>1, <2>1, Appended, KindsAreLines DEF TypeOK
  <2> QED
    BY <1>1, <2>1, <2>2, <2>3, KindsAreLines
<1>6. CASE HandlesMessage
  <2>1. PICK e \in {"init", "message"} : handled' = Append(handled, e)
    BY <1>1, <1>6, TakesOne, KindsAreLines DEF HandlesMessage
  <2>2. code = "none" /\ code' = code /\ timer' = "off"
    BY <1>1, <1>6 DEF HandlesMessage, TakesLine, Progress, Undecided, Cases
  <2>3. e \notin Results
    BY DEF Results
  <2>4. \A k \in DOMAIN handled' : \/ k \in DOMAIN handled /\ handled'[k] = handled[k]
                                   \/ handled'[k] = e
    BY <1>1, <2>1, Appended, KindsAreLines DEF TypeOK
  <2> QED
    BY <2>2, <2>3, <2>4
<1>7. CASE HandlesResult
  <2>1. PICK e \in Results : /\ handled' = Append(handled, e)
                             /\ code' = IF e = "error" THEN "response_error" ELSE "success"
    BY <1>1, <1>7, TakesOne, KindsAreLines DEF HandlesResult, Decide
  <2>2. code = "none" /\ timer' = "off"
    BY <1>1, <1>7 DEF HandlesResult, TakesLine, Progress, Undecided, Cases, Decide
  <2>3. /\ Len(handled') = Len(handled) + 1 /\ Len(handled) \in Nat
        /\ handled'[Len(handled) + 1] = e
        /\ DOMAIN handled = 1..Len(handled) /\ DOMAIN handled' = 1..Len(handled) + 1
        /\ \A k \in 1..Len(handled) : handled'[k] = handled[k]
    BY <1>1, <2>1, Appended, KindsAreLines DEF TypeOK
  <2>4. \A k \in DOMAIN handled' : handled'[k] \in Results => k = Len(handled')
    BY <2>2, <2>3
  <2>5. e \in {"success", "error"}
    BY DEF Results
  <2>6. ResultDecides'
    BY <2>1, <2>3, <2>4, <2>5
  <2> QED
    BY <2>1, <2>2, <2>6
<1> QED
  BY <1>2, <1>3, <1>4, <1>5, <1>6, <1>7, Steps

LEMMA RunDecidesCorruption ==
    ASSUME TypeOK, MalformedRun
    PROVE  CorruptionIsARun
<1>1. Ended \in Nat /\ malformed \in 0..MalformedLimit /\ MalformedLimit \in Nat \ {0}
  BY ClaudeTurnAssumption, LenProperties DEF TypeOK, Ended
<1>2. CASE malformed = MalformedLimit
  BY <1>1, <1>2 DEF MalformedRun, CorruptionIsARun
<1>3. CASE malformed < MalformedLimit
  BY <1>1, <1>3 DEF MalformedRun, CorruptionIsARun
<1> QED
  BY <1>1, <1>2, <1>3

\* The outcome of a turn is the one its lines call for: the first result
\* decides, corruption is a run of malformed lines that no good line
\* interrupts, a stream that ends is read to its end, and a turn that has
\* shown an event does not fail for its silence.
THEOREM OutcomeIsRight == Spec => []OutcomeMatchesStream
<1>1. Init => ScannedToEnd /\ SeenSoFar
  BY DEF Init, ScannedToEnd, SeenSoFar, NothingSeen, ResultDecides, SilentUntilTimeout, Ended
<1>2. TurnInv /\ ScannedToEnd /\ SeenSoFar /\ [Next]_vars => (ScannedToEnd /\ SeenSoFar)'
  BY NextScannedToEnd, NextSeenSoFar
<1>3. TurnInv /\ ScannedToEnd /\ SeenSoFar => OutcomeMatchesStream
  BY RunDecidesCorruption DEF TurnInv, ScannedToEnd, SeenSoFar, OutcomeMatchesStream,
     NothingIsLeftUnread
<1> QED
  BY <1>1, <1>2, <1>3, TurnInvariant, PTL DEF Spec

-----------------------------------------------------------------------------
(* The outcome is reported *)

\* The events s report outcome c, and the session only if it is announced.
Told(s, c, a) ==
    /\ \A k \in DOMAIN s : s[k] \in TerminalEvents => k = Len(s) /\ c # "none"
    /\ c # "none" => s # <<>> /\ s[Len(s)] \in EventsOf(c)
    /\ ~a => \A k \in DOMAIN s : s[k] # "session_started"
    /\ \A j, k \in DOMAIN s : s[j] = "session_started" /\ s[k] = "session_started" => j = k

ToldSoFar == Told(emitted, IF proc = "none" THEN "none" ELSE code, announced)

LEMMA TellsMore ==
    ASSUME NEW s \in Seq(Event), NEW a \in BOOLEAN, Told(s, "none", a),
           NEW e \in Event, NEW c, NEW b \in BOOLEAN, a => b,
           e \in TerminalEvents => c # "none",
           c # "none" => e \in EventsOf(c),
           e = "session_started" => ~a /\ b
    PROVE  Told(Append(s, e), c, b)
<1> DEFINE t == Append(s, e)
<1>1. /\ t # <<>> /\ Len(t) = Len(s) + 1 /\ Len(s) \in Nat
      /\ DOMAIN s = 1..Len(s) /\ DOMAIN t = 1..Len(s) + 1
      /\ t[Len(s) + 1] = e
      /\ \A k \in 1..Len(s) : t[k] = s[k]
  BY Appended, AppendProperties
<1> HIDE DEF t
<1>2. \A k \in DOMAIN t : t[k] \in TerminalEvents => k = Len(t) /\ c # "none"
  BY <1>1 DEF Told
<1>3. c # "none" => t # <<>> /\ t[Len(t)] \in EventsOf(c)
  BY <1>1
<1>4. ~b => \A k \in DOMAIN t : t[k] # "session_started"
  BY <1>1 DEF Told
<1>5. \A j, k \in DOMAIN t : t[j] = "session_started" /\ t[k] = "session_started" => j = k
  BY <1>1 DEF Told
<1>6. Told(t, c, b)
  BY <1>2, <1>3, <1>4, <1>5 DEF Told
<1> QED
  BY <1>6 DEF t

LEMMA NextToldSoFar ==
    ASSUME TurnInv, ToldSoFar, [Next]_vars
    PROVE  ToldSoFar'
<1>1. TypeOK /\ Progress /\ TypeOK'
  BY NextType DEF TurnInv
<1>2. emitted \in Seq(Event) /\ announced \in BOOLEAN /\ announced' \in BOOLEAN
  BY <1>1 DEF TypeOK
<1>3. pc \in Cases => code = "none" /\ proc # "none" /\ Told(emitted, "none", announced)
  BY <1>1 DEF Progress, Undecided, Cases, ToldSoFar
<1>4. CASE UNCHANGED consume
  <2>1. proc' = proc \/ (proc = "none" /\ code = "none") \/ (proc # "none" /\ proc' # "none")
    BY <1>1, <1>4 DEF Next, RunTurn, Consume, Process, vars, process, Progress, Undecided,
       Starts, Selects, Parks, Cancels, Waits, Returns, Returned,
       StartFails, TurnContextEnds, ResponseTimesOut, StreamEnds, ReadFails,
       HandlesBlank, HandlesMalformed, HandlesMessage, HandlesResult, TakesLine,
       WritesLine, BlocksOnStderr, Exits, KilledByContext, OutputEnds,
       ReaderScans, ReaderEnds, DrainEnds, TimerFires, ContextEnds
  <2>2. emitted' = emitted /\ announced' = announced /\ code' = code
    BY <1>4 DEF consume
  <2> QED
    BY <2>1, <2>2 DEF ToldSoFar
<1>5. CASE StartFails
  <2>1. proc = "none" /\ proc' = "none" /\ emitted' = emitted /\ announced' = announced
    BY <1>1, <1>5 DEF StartFails, process, Progress
  <2> QED
    BY <2>1 DEF ToldSoFar
<1>6. CASE Outcome
  <2>1. PICK e \in TerminalEvents :
            Emit(<<e>>) /\ e \in EventsOf(code') /\ code' # "none"
    BY <1>6 DEF Outcome, TurnContextEnds, ResponseTimesOut, StreamEnds, ReadFails, Decide,
       EventsOf, TerminalEvents
  <2>2. pc \in Cases /\ announced' = announced /\ proc' = proc
    BY <1>6 DEF Outcome, TurnContextEnds, ResponseTimesOut, StreamEnds, ReadFails, Cases, process
  <2>3. emitted' = Append(emitted, e) /\ e \in Event /\ e # "session_started"
    BY <1>1, <2>1, EmitsOne DEF Event, TerminalEvents
  <2>4. Told(emitted', code', announced')
    BY <1>2, <1>3, <2>1, <2>2, <2>3, TellsMore
  <2> QED
    BY <1>3, <2>2, <2>4 DEF ToldSoFar
<1>7. CASE HandlesBlank
  <2>1. UNCHANGED <<emitted, announced, code, proc>>
    BY <1>7 DEF HandlesBlank, TakesLine, process
  <2> QED
    BY <2>1 DEF ToldSoFar
<1>8. CASE HandlesMalformed
  <2>1. /\ pc \in Cases /\ announced' = announced /\ proc' = proc
        /\ code' \in {code, "stream_corruption"}
    BY <1>8 DEF HandlesMalformed, TakesLine, Cases, process, Decide
  <2>2. /\ emitted' = Append(emitted, "malformed") /\ "malformed" \in Event
        /\ "malformed" \notin TerminalEvents
    BY <1>1, <1>8, EmitsOne DEF HandlesMalformed, Event, TerminalEvents
  <2>3. code' # "none" => "malformed" \in EventsOf(code')
    BY <1>3, <2>1 DEF EventsOf
  <2>4. Told(emitted', code', announced')
    BY <1>2, <1>3, <2>1, <2>2, <2>3, TellsMore
  <2> QED
    BY <1>3, <2>1, <2>4 DEF ToldSoFar
<1>9. CASE HandlesMessage
  <2>1. pc \in Cases /\ code' = "none" /\ proc' = proc
    BY <1>3, <1>9 DEF HandlesMessage, TakesLine, Cases, process
  <2>2. CASE hand = "init" /\ announced
    <3>1. announced' /\ emitted' = emitted \o <<>>
      BY <1>9, <2>2 DEF HandlesMessage, Announces, Emit
    <3>2. emitted' = emitted
      BY <1>2, <3>1, ConcatEmptySeq
    <3> QED
      BY <1>2, <1>3, <2>1, <2>2, <3>1, <3>2 DEF ToldSoFar, Told
  <2>3. CASE hand = "init" /\ ~announced
    <3>1. announced' /\ Emit(<<"session_started">> \o <<>>)
      BY <1>9, <2>3 DEF HandlesMessage, Announces
    <3>2. <<"session_started">> \o <<>> = <<"session_started">>
      BY ConcatEmptySeq
    <3>3. /\ emitted' = Append(emitted, "session_started") /\ "session_started" \in Event
          /\ "session_started" \notin TerminalEvents
      BY <1>1, <3>1, <3>2, EmitsOne DEF Event, TerminalEvents
    <3>4. Told(emitted', "none", announced')
      BY <1>2, <1>3, <2>1, <2>3, <3>1, <3>3, TellsMore
    <3> QED
      BY <2>1, <3>4 DEF ToldSoFar
  <2>4. CASE hand # "init"
    <3>1. /\ announced' = announced /\ emitted' = Append(emitted, "message")
          /\ "message" \in Event /\ "message" \notin TerminalEvents
      BY <1>1, <1>9, <2>4, EmitsOne DEF HandlesMessage, Event, TerminalEvents
    <3>2. Told(emitted', "none", announced')
      BY <1>2, <1>3, <2>1, <3>1, TellsMore
    <3> QED
      BY <2>1, <3>2 DEF ToldSoFar
  <2> QED
    BY <2>2, <2>3, <2>4
<1>10. CASE HandlesResult
  <2>1. pc \in Cases /\ proc' = proc
    BY <1>10 DEF HandlesResult, TakesLine, Cases, process
  <2>2. PICK id \in BOOLEAN, e \in {"turn_completed", "turn_ended_with_error"} :
            /\ Announces(id, <<e>>)
            /\ e \in EventsOf(code') /\ code' # "none"
    BY <1>10 DEF HandlesResult, Decide, EventsOf
  <2>3. e \in Event /\ e \in TerminalEvents /\ e # "session_started"
    BY DEF Event, TerminalEvents
  <2>4. CASE id /\ ~announced
    <3>1. announced' /\ Emit(<<"session_started">> \o <<e>>)
      BY <2>2, <2>4 DEF Announces
    <3>2. /\ emitted' = Append(Append(emitted, "session_started"), e)
          /\ "session_started" \in Event /\ "session_started" \notin TerminalEvents
      BY <1>1, <2>3, <3>1, EmitsTwo DEF Event, TerminalEvents
    <3>3. /\ Told(Append(emitted, "session_started"), "none", TRUE)
          /\ Append(emitted, "session_started") \in Seq(Event)
      BY <1>2, <1>3, <2>1, <2>4, <3>2, TellsMore, AppendProperties
    <3>4. Told(emitted', code', announced')
      BY <1>2, <2>2, <2>3, <3>1, <3>2, <3>3, TellsMore
    <3> QED
      BY <1>3, <2>1, <3>4 DEF ToldSoFar
  <2>5. CASE ~(id /\ ~announced)
    <3>1. announced' = announced /\ Emit(<<e>>)
      BY <1>2, <2>2, <2>5 DEF Announces
    <3>2. emitted' = Append(emitted, e)
      BY <1>1, <2>3, <3>1, EmitsOne
    <3>3. Told(emitted', code', announced')
      BY <1>2, <1>3, <2>1, <2>2, <2>3, <3>1, <3>2, TellsMore
    <3> QED
      BY <1>3, <2>1, <3>3 DEF ToldSoFar
  <2> QED
    BY <2>4, <2>5
<1> QED
  BY <1>4, <1>5, <1>6, <1>7, <1>8, <1>9, <1>10, Steps

\* A turn that got a process reports its outcome to the loop exactly once, as
\* its last event, and announces its session at most once.
THEOREM OutcomeIsTold == Spec => []OutcomeIsReported
<1>1. Init => ToldSoFar
  BY DEF Init, ToldSoFar, Told
<1>2. TurnInv /\ ToldSoFar /\ [Next]_vars => ToldSoFar'
  BY NextToldSoFar
<1>3. ToldSoFar => OutcomeIsReported
  BY DEF ToldSoFar, Told, OutcomeIsReported
<1> QED
  BY <1>1, <1>2, <1>3, TurnInvariant, PTL DEF Spec

=============================================================================
