--------------------------- MODULE SessionsProofs ---------------------------
(* Theorems about Sessions, for all values of its constants. *)
EXTENDS Sessions, Induction, SequenceTheorems

-----------------------------------------------------------------------------
(* Types *)

Sid == Nat \X Nat
Posted == [kind : {"exit"}, issue : Issues] \cup
          [kind : {"update"}, issue : Issues, sid : Sid, turn : Nat,
           text : Nat, usage : Nat, at : Nat]
Agent == [place : {"ready", "turn", "done"}, run : Nat, turn : Nat, sid : Sid,
          started : BOOLEAN, out : Seq(Posted), lastAt : Nat, spent : Nat, said : Nat]
Event == Posted \cup [kind : {"tick"}] \cup [kind : {"snapshot"}, reply : 1..MaxRequests]
Asking == [place : {"sent"}, reply : 1..MaxRequests, floor : Nat] \cup
          [place : {"waiting"}, reply : 1..MaxRequests, floor : Nat, watches : BOOLEAN]

TypeOK ==
    /\ clock \in Nat /\ runs \in Nat /\ requests \in 0..MaxRequests
    /\ agent \in [Issues -> Agent \cup {NoAgent}]
    /\ events \in Seq(Event)
    /\ totals.tokens \in Nat /\ totals = [tokens |-> totals.tokens, seconds |-> totals.seconds]
    /\ observer \in [Observers -> Asking \cup {Idle}]
    /\ answer = [o \in Observers |-> answer[o]]
    /\ replies = [n \in 1..MaxRequests |-> replies[n]]

\* A channel holds one reply, to a request that was made; the reply to a request
\* that is waited for was built after it.
ReplyInv ==
    /\ \A k \in 1..Len(events) : events[k].kind = "snapshot" => events[k].reply <= requests
    /\ \A n \in 1..MaxRequests : replies[n] # <<>> =>
         n <= requests /\ replies[n] = <<Head(replies[n])>>
    /\ \A o \in Observers : observer[o] # Idle =>
         /\ observer[o].reply <= requests /\ observer[o].floor <= totals.tokens
         /\ replies[observer[o].reply] # <<>> =>
              Head(replies[observer[o].reply]).tokens >= observer[o].floor

IInv == TypeOK /\ ReplyInv
\* Receiving from a sequence and appending to it.
LEMMA Received ==
    ASSUME NEW S, NEW q \in Seq(S), q # <<>>
    PROVE  /\ Head(q) \in S /\ Head(q) = q[1] /\ 1 \in 1..Len(q)
           /\ Tail(q) \in Seq(S)
           /\ \A k \in 1..Len(Tail(q)) : k + 1 \in 1..Len(q) /\ Tail(q)[k] = q[k + 1]
<1>1. /\ Head(q) \in S /\ Head(q) = q[1] /\ Tail(q) \in Seq(S)
      /\ Len(q) \in Nat /\ Len(q) # 0 /\ Len(Tail(q)) = Len(q) - 1
      /\ \A k \in 1..Len(Tail(q)) : Tail(q)[k] = q[k + 1]
  BY HeadTailProperties, EmptySeq, LenProperties
<1> QED
  BY <1>1

LEMMA Appended ==
    ASSUME NEW S, NEW q \in Seq(S), NEW e \in S
    PROVE  /\ Append(q, e) \in Seq(S)
           /\ \A k \in 1..Len(Append(q, e)) :
                Append(q, e)[k] = e \/ (k \in 1..Len(q) /\ Append(q, e)[k] = q[k])
<1>1. /\ Append(q, e) \in Seq(S) /\ Len(Append(q, e)) = Len(q) + 1 /\ Len(q) \in Nat
      /\ \A k \in 1..Len(q) : Append(q, e)[k] = q[k]
      /\ Append(q, e)[Len(q) + 1] = e
  BY AppendProperties, LenProperties
<1> QED
  BY <1>1

LEMMA OneReply == ASSUME NEW x PROVE <<x>> # <<>> /\ Head(<<x>>) = x /\ Tail(<<x>>) = <<>>
OBVIOUS

-----------------------------------------------------------------------------
(* The agents *)

LEMMA UpdateType ==
    ASSUME clock \in Nat, NEW i \in Issues, NEW a \in Agent, NEW text \in Nat, NEW usage \in Nat
    PROVE  Update(i, a, text, usage) \in Posted
BY DEF Update, Posted, Agent

\* Fields of a goroutine keep their types.
LEMMA AgentFields ==
    ASSUME NEW a \in Agent
    PROVE  /\ \A n \in Nat : [a EXCEPT !.place = "turn", !.turn = n, !.started = FALSE] \in Agent
           /\ \A p \in {"ready", "done"}, n, m \in Nat :
                [a EXCEPT !.place = p, !.spent = n, !.said = m] \in Agent
           /\ \A id \in Sid : [a EXCEPT !.sid = id, !.started = TRUE] \in Agent
BY DEF Agent

LEMMA WithIdType ==
    ASSUME clock \in Nat, NEW i \in Issues, agent[i] \in Agent, NEW id \in BOOLEAN
    PROVE  WithId(i, id) \in Agent /\ Announced(i, id) \in Seq(Posted)
<1>1. WithId(i, id) \in Agent
  <2>1. <<agent[i].run, agent[i].turn>> \in Sid
    BY DEF Agent, Sid
  <2>2. [agent[i] EXCEPT !.sid = <<agent[i].run, agent[i].turn>>, !.started = TRUE] \in Agent
    BY <2>1, AgentFields
  <2> QED
    BY <2>2 DEF WithId
<1>2. Update(i, WithId(i, id), 0, 0) \in Posted
  BY <1>1, UpdateType
<1>3. Announced(i, id) \in Seq(Posted)
  BY <1>2 DEF Announced
<1> QED
  BY <1>1, <1>3

LEMMA EmitsType ==
    ASSUME IInv, NEW i \in Issues, NEW a \in Agent, NEW out \in Seq(Posted), Emits(i, a, out)
    PROVE  IInv'
<1>1. [a EXCEPT !.out = out, !.lastAt = IF out = <<>> THEN @ ELSE clock] \in Agent
  BY DEF IInv, TypeOK, Agent
<1>2. agent' \in [Issues -> Agent \cup {NoAgent}]
  BY <1>1 DEF IInv, TypeOK, Emits
<1> QED
  BY <1>2 DEF IInv, TypeOK, ReplyInv, Emits, runtime, surface

\* A goroutine in a turn, or between turns, has a run.
LEMMA HasRun ==
    ASSUME TypeOK, NEW i \in Issues, agent[i].place # "none"
    PROVE  agent[i] \in Agent
BY DEF TypeOK, NoAgent

LEMMA AgentStepKeeps ==
    ASSUME IInv, NEW i \in Issues, HandlesLine(i) \/ AgentStep(i)
    PROVE  IInv'
<1> DEFINE Exit == [kind |-> "exit", issue |-> i]
<1>1. clock \in Nat /\ Exit \in Posted
  BY DEF IInv, TypeOK, Posted
<1>2. CASE HandlesInit(i)
  <2>1. agent[i] \in Agent
    BY <1>2, HasRun DEF HandlesInit, InTurn, IInv
  <2> QED
    BY <1>1, <1>2, <2>1, WithIdType, EmitsType DEF HandlesInit
<1>3. ASSUME NEW texts \in 0..1, HandlesMessage(i, texts) PROVE IInv'
  <2>1. agent[i] \in Agent
    BY <1>3, HasRun DEF HandlesMessage, InTurn, IInv
  <2> DEFINE said == agent[i].said + texts
             shown == IF texts = 0 THEN 0 ELSE said
  <2>2. said \in Nat /\ shown \in Nat
    BY <2>1 DEF Agent
  <2>3. [agent[i] EXCEPT !.said = said] \in Agent
    BY <2>1, <2>2 DEF Agent
  <2>4. <<Update(i, agent[i], shown, 0)>> \in Seq(Posted)
    BY <1>1, <2>1, <2>2, UpdateType
  <2> QED
    BY <1>3, <2>3, <2>4, EmitsType DEF HandlesMessage
<1>4. ASSUME NEW id \in BOOLEAN, NEW error \in BOOLEAN, NEW usage \in 0..MaxTokens,
             HandlesResult(i, id, usage, error)
      PROVE  IInv'
  <2>1. agent[i] \in Agent
    BY <1>4, HasRun DEF HandlesResult, InTurn, IInv
  <2> DEFINE said == agent[i].said + (IF error THEN 1 ELSE 0)
             a == [WithId(i, id) EXCEPT
                     !.place = IF error THEN "done" ELSE "ready",
                     !.spent = @ + usage, !.said = said]
             end == Update(i, a, IF error THEN said ELSE 0, usage)
             out == Announced(i, id) \o <<end>> \o (IF error THEN <<Exit>> ELSE <<>>)
  <2>2. said \in Nat /\ usage \in Nat
    BY <2>1, SessionsAssumption DEF Agent
  <2>3. WithId(i, id) \in Agent /\ Announced(i, id) \in Seq(Posted)
    BY <1>1, <2>1, WithIdType
  <2>4. a \in Agent
    <3>1. WithId(i, id).spent + usage \in Nat
      BY <2>2, <2>3 DEF Agent
    <3> QED
      BY <2>2, <2>3, <3>1, AgentFields
  <2>5. end \in Posted
    BY <1>1, <2>2, <2>4, UpdateType
  <2>6. out \in Seq(Posted)
    BY <1>1, <2>3, <2>5
  <2>7. Emits(i, a, out)
    BY <1>4 DEF HandlesResult
  <2> QED
    BY <2>4, <2>6, <2>7, EmitsType
<1>5. ASSUME NEW texts \in 0..1, TurnFails(i, texts) PROVE IInv'
  <2>1. agent[i] \in Agent
    BY <1>5, HasRun DEF TurnFails, InTurn, IInv
  <2> DEFINE said == agent[i].said + texts
             shown == IF texts = 0 THEN 0 ELSE said
  <2>2. said \in Nat /\ shown \in Nat
    BY <2>1 DEF Agent
  <2>3. [agent[i] EXCEPT !.place = "done", !.said = said] \in Agent
    BY <2>1, <2>2 DEF Agent
  <2>4. <<Update(i, agent[i], shown, 0), Exit>> \in Seq(Posted)
    BY <1>1, <2>1, <2>2, UpdateType
  <2> QED
    BY <1>5, <2>3, <2>4, EmitsType DEF TurnFails
<1>6. CASE TurnStarts(i)
  <2>1. agent[i] \in Agent
    BY <1>6, HasRun DEF TurnStarts, IInv
  <2>2. [agent[i] EXCEPT !.place = "turn", !.turn = @ + 1, !.started = FALSE] \in Agent
    <3>1. agent[i].turn + 1 \in Nat
      BY <2>1 DEF Agent
    <3> QED
      BY <2>1, <3>1, AgentFields
  <2>3. agent' \in [Issues -> Agent \cup {NoAgent}]
    BY <1>6, <2>2 DEF TurnStarts, IInv, TypeOK
  <2> QED
    BY <1>6, <2>3 DEF TurnStarts, IInv, TypeOK, ReplyInv, runtime, surface
<1>7. CASE RunEnds(i)
  <2>1. agent[i] \in Agent
    BY <1>7, HasRun DEF RunEnds, IInv
  <2>2. <<Exit>> \in Seq(Posted)
    BY <1>1
  <2>3. [agent[i] EXCEPT !.place = "done", !.out = <<Exit>>] \in Agent
    BY <2>1, <2>2 DEF Agent
  <2>4. agent' \in [Issues -> Agent \cup {NoAgent}]
    BY <1>7, <2>3 DEF RunEnds, IInv, TypeOK
  <2> QED
    BY <1>7, <2>4 DEF RunEnds, IInv, TypeOK, ReplyInv, runtime, surface
<1>8. CASE Posts(i)
  <2>1. agent[i] \in Agent /\ agent[i].out \in Seq(Posted) /\ agent[i].out # <<>>
    BY <1>8 DEF Posts, IInv, TypeOK, Agent
  <2>2. Head(agent[i].out) \in Posted /\ Tail(agent[i].out) \in Seq(Posted)
    BY <2>1, Received
  <2>3. agent' \in [Issues -> Agent \cup {NoAgent}]
    BY <1>8, <2>1, <2>2 DEF Posts, IInv, TypeOK, Agent
  <2>4. /\ events' \in Seq(Event)
        /\ \A k \in 1..Len(events') :
             events'[k].kind # "snapshot" \/ (k \in 1..Len(events) /\ events'[k] = events[k])
    <3>1. events \in Seq(Event) /\ Head(agent[i].out) \in Event
          /\ Head(agent[i].out).kind # "snapshot"
      BY <2>2 DEF IInv, TypeOK, Event, Posted
    <3>2. events' = events \/ events' = Append(events, Head(agent[i].out))
      BY <1>8 DEF Posts
    <3> QED
      BY <3>1, <3>2, Appended
  <2> QED
    BY <1>8, <2>3, <2>4 DEF Posts, IInv, TypeOK, ReplyInv, runtime, surface
<1> QED
  BY <1>2, <1>3, <1>4, <1>5, <1>6, <1>7, <1>8 DEF HandlesLine, AgentStep

-----------------------------------------------------------------------------
(* The loop *)

\* What the loop takes from the channel was posted, and the rest stays.
LEMMA HandlesType ==
    ASSUME IInv, NEW kind, Handles(kind)
    PROVE  /\ Next1 \in Event /\ Next1.kind = kind
           /\ kind = "snapshot" => Next1.reply <= requests
           /\ events' \in Seq(Event)
           /\ \A k \in 1..Len(events') : events'[k].kind = "snapshot" => events'[k].reply <= requests
<1>1. events \in Seq(Event) /\ events # <<>> /\ events' = Tail(events) /\ Next1.kind = kind
  BY DEF Handles, Next1, IInv, TypeOK
<1>2. /\ Head(events) \in Event /\ Head(events) = events[1] /\ 1 \in 1..Len(events)
      /\ Tail(events) \in Seq(Event)
      /\ \A k \in 1..Len(Tail(events)) :
           k + 1 \in 1..Len(events) /\ Tail(events)[k] = events[k + 1]
  BY <1>1, Received
<1> QED
  BY <1>1, <1>2 DEF Next1, IInv, ReplyInv

LEMMA LoopKeeps ==
    ASSUME IInv, LoopStep
    PROVE  IInv'
<1>1. CASE OnAgentUpdate
  <2>1. /\ events' \in Seq(Event)
        /\ \A k \in 1..Len(events') : events'[k].kind = "snapshot" => events'[k].reply <= requests
        /\ Next1 \in Event /\ Next1.kind = "update"
    BY <1>1, HandlesType DEF OnAgentUpdate
  <2>2. Next1.usage \in Nat
    BY <2>1 DEF Event, Posted
  <2>3. totals' = totals \/ totals' = [totals EXCEPT !.tokens = @ + Next1.usage]
    BY <1>1 DEF OnAgentUpdate
  <2>4. /\ totals'.tokens \in Nat /\ totals'.tokens >= totals.tokens
        /\ totals' = [tokens |-> totals'.tokens, seconds |-> totals'.seconds]
    BY <2>2, <2>3 DEF IInv, TypeOK
  <2>5. TypeOK'
    BY <1>1, <2>1, <2>4 DEF OnAgentUpdate, IInv, TypeOK, surface
  <2>6. \A o \in Observers : observer[o] # Idle => observer[o].floor \in Nat
    BY DEF IInv, TypeOK, Asking
  <2>7. ReplyInv'
    BY <1>1, <2>1, <2>4, <2>6 DEF OnAgentUpdate, IInv, TypeOK, ReplyInv, surface
  <2> QED
    BY <2>5, <2>7 DEF IInv
<1>2. CASE OnWorkerExit
  <2>1. /\ events' \in Seq(Event)
        /\ \A k \in 1..Len(events') : events'[k].kind = "snapshot" => events'[k].reply <= requests
    BY <1>2, HandlesType DEF OnWorkerExit
  <2>2. /\ totals'.tokens = totals.tokens
        /\ totals' = [tokens |-> totals'.tokens, seconds |-> totals'.seconds]
    BY <1>2 DEF OnWorkerExit, IInv, TypeOK
  <2> QED
    BY <1>2, <2>1, <2>2 DEF OnWorkerExit, IInv, TypeOK, ReplyInv, surface
<1>3. CASE OnTick
  <2>1. /\ events' \in Seq(Event)
        /\ \A k \in 1..Len(events') : events'[k].kind = "snapshot" => events'[k].reply <= requests
    BY <1>3, HandlesType DEF OnTick
  <2> QED
    BY <1>3, <2>1 DEF OnTick, IInv, TypeOK, ReplyInv, surface
<1>4. CASE OnSnapshotRequest
  <2> DEFINE reply == Next1.reply
  <2>1. /\ events' \in Seq(Event)
        /\ \A k \in 1..Len(events') : events'[k].kind = "snapshot" => events'[k].reply <= requests
        /\ Next1 \in Event /\ Next1.kind = "snapshot" /\ reply <= requests
    BY <1>4, HandlesType DEF OnSnapshotRequest
  <2>2. reply \in 1..MaxRequests
    BY <2>1 DEF Event, Posted
  <2>3. BuildSnapshot.tokens = totals.tokens
    BY DEF BuildSnapshot
  <2>4. replies' = [n \in 1..MaxRequests |-> replies'[n]]
    BY <1>4 DEF OnSnapshotRequest, IInv, TypeOK
  <2>5. \A n \in 1..MaxRequests :
          \/ replies'[n] = replies[n]
          \/ n = reply /\ replies[n] = <<>> /\ replies'[n] = <<BuildSnapshot>>
    BY <1>4, <2>2 DEF OnSnapshotRequest, IInv, TypeOK
  <2>6. \A n \in 1..MaxRequests : replies'[n] # <<>> =>
          /\ n <= requests /\ replies'[n] = <<Head(replies'[n])>>
          /\ replies'[n] = replies[n] \/ Head(replies'[n]).tokens = totals.tokens
    BY <2>1, <2>3, <2>5, OneReply DEF IInv, ReplyInv
  <2>7. \A o \in Observers : observer[o] # Idle =>
          observer[o].reply \in 1..MaxRequests /\ observer[o].floor \in Nat
    BY DEF IInv, TypeOK, Asking
  <2>8. TypeOK'
    BY <1>4, <2>1, <2>4 DEF OnSnapshotRequest, IInv, TypeOK, runtime
  <2>9. ReplyInv'
    <3>1. \A o \in Observers :
            observer'[o] # Idle /\ replies'[observer'[o].reply] # <<>> =>
              Head(replies'[observer'[o].reply]).tokens >= observer'[o].floor
      BY <1>4, <2>6, <2>7 DEF OnSnapshotRequest, IInv, TypeOK, ReplyInv
    <3> QED
      BY <1>4, <2>1, <2>6, <3>1 DEF OnSnapshotRequest, IInv, TypeOK, ReplyInv, runtime
  <2> QED
    BY <2>8, <2>9 DEF IInv
<1> QED
  BY <1>1, <1>2, <1>3, <1>4 DEF LoopStep

-----------------------------------------------------------------------------
(* The observers *)

\* An observer that goes back to idle leaves the rest as it was.
LEMMA GivesUp ==
    ASSUME IInv, NEW o \in Observers, NEW what, Gets(o, what),
           UNCHANGED <<clock, runs, agent, events, totals, requests, replies>>
    PROVE  IInv'
<1>1. /\ observer' \in [Observers -> Asking \cup {Idle}]
      /\ answer' = [p \in Observers |-> answer'[p]]
      /\ \A p \in Observers : observer'[p] = observer[p] \/ observer'[p] = Idle
  BY DEF Gets, IInv, TypeOK
<1> QED
  BY <1>1 DEF IInv, TypeOK, ReplyInv

LEMMA AsksKeeps ==
    ASSUME IInv, NEW o \in Observers, Asks(o)
    PROVE  IInv'
<1> DEFINE fresh == requests + 1
           request == [kind |-> "snapshot", reply |-> fresh]
           asking == [place |-> "sent", reply |-> fresh, floor |-> totals.tokens]
<1>1. requests \in Nat /\ fresh \in 1..MaxRequests /\ requests' = fresh
  BY SessionsAssumption DEF Asks, IInv, TypeOK
<1>2. \A p \in Observers : observer[p] # Idle => observer[p].reply \in Nat
  BY SessionsAssumption DEF IInv, TypeOK, Asking
<1>3. CASE events' = events
  <2>1. /\ observer' \in [Observers -> Asking \cup {Idle}]
        /\ answer' = [p \in Observers |-> answer'[p]]
        /\ \A p \in Observers : observer'[p] = observer[p] \/ observer'[p] = Idle
    <3>1. CASE \E why : Gets(o, NotGiven(why))
      BY <3>1 DEF Gets, IInv, TypeOK
    <3>2. CASE events' = Append(events, request)
      <4>1. events \in Seq(Event) /\ request \in Event
        BY <1>1 DEF IInv, TypeOK, Event
      <4>2. Len(Append(events, request)) = Len(events) + 1 /\ Len(events) \in Nat
        BY <4>1, AppendProperties, LenProperties
      <4> QED
        BY <1>3, <3>2, <4>2
    <3> QED
      BY <3>1, <3>2 DEF Asks, ReplyChannel
  <2>2. \A k \in 1..Len(events) : events[k].kind = "snapshot" => events[k].reply <= fresh
    <3>1. \A k \in 1..Len(events) : events[k].kind = "snapshot" => events[k].reply \in Nat
      <4>1. \A k \in 1..Len(events) : events[k] \in Event
        BY ElementOfSeq DEF IInv, TypeOK
      <4> QED
        BY <4>1, SessionsAssumption DEF Event, Posted
    <3> QED
      BY <1>1, <3>1 DEF IInv, ReplyInv
  <2>3. TypeOK'
    BY <1>1, <1>3, <2>1 DEF Asks, IInv, TypeOK, runtime
  <2>4. UNCHANGED <<totals, replies>>
    BY DEF Asks, runtime
  <2>5. \A n \in 1..MaxRequests : replies[n] # <<>> =>
          n <= fresh /\ replies[n] = <<Head(replies[n])>>
    BY <1>1, SessionsAssumption DEF IInv, ReplyInv
  <2>6. ReplyInv'
    BY <1>1, <1>2, <1>3, <2>1, <2>2, <2>4, <2>5 DEF IInv, ReplyInv
  <2> QED
    BY <2>3, <2>6 DEF IInv
<1>4. CASE events' # events
  <2>1. /\ events' = Append(events, request)
        /\ observer' = [observer EXCEPT ![o] = asking]
        /\ UNCHANGED <<clock, runs, agent, totals, replies, answer>>
    BY <1>4 DEF Asks, ReplyChannel, runtime
  <2>2. request \in Event /\ asking \in Asking
    BY <1>1 DEF Event, Asking, IInv, TypeOK
  <2>3. events \in Seq(Event) /\ \A k \in 1..Len(events) : events[k] \in Event
    BY ElementOfSeq DEF IInv, TypeOK
  <2>4. /\ events' \in Seq(Event)
        /\ \A k \in 1..Len(events') :
             events'[k] = request \/ (k \in 1..Len(events) /\ events'[k] = events[k])
    BY <2>1, <2>2, <2>3, Appended
  <2>5. \A k \in 1..Len(events') : events'[k].kind = "snapshot" => events'[k].reply <= fresh
    <3>1. \A k \in 1..Len(events) : events[k].kind = "snapshot" => events[k].reply \in Nat
      BY <2>3, SessionsAssumption DEF Event, Posted
    <3> QED
      BY <1>1, <2>4, <3>1 DEF IInv, ReplyInv
  <2>6. replies[fresh] = <<>>
    BY <1>1, SessionsAssumption DEF IInv, ReplyInv
  <2>7. TypeOK'
    BY <1>1, <2>1, <2>2, <2>4 DEF IInv, TypeOK
  <2>8. \A p \in Observers : observer'[p] = observer[p] \/ observer'[p] = asking
    BY <2>1 DEF IInv, TypeOK
  <2>9. \A n \in 1..MaxRequests : replies'[n] # <<>> =>
          n <= fresh /\ replies'[n] = <<Head(replies'[n])>>
    BY <1>1, <2>1, SessionsAssumption DEF IInv, ReplyInv
  <2>10. totals.tokens \in Nat
    BY DEF IInv, TypeOK
  <2>11. ReplyInv'
    BY <1>1, <1>2, <2>1, <2>5, <2>6, <2>8, <2>9, <2>10 DEF IInv, ReplyInv
  <2> QED
    BY <2>7, <2>11 DEF IInv
<1> QED
  BY <1>3, <1>4

LEMMA ObserverKeeps ==
    ASSUME IInv, NEW o \in Observers, ObserverStep(o)
    PROVE  IInv'
<1>1. CASE Waits(o)
  <2>1. CASE rootCtx = "torn"
    BY <1>1, <2>1, GivesUp DEF Waits, runtime
  <2>2. CASE rootCtx # "torn"
    <3> DEFINE waiting == [place |-> "waiting", reply |-> observer[o].reply,
                           floor |-> observer[o].floor, watches |-> rootCtx # "background"]
    <3>1. observer' = [observer EXCEPT ![o] = waiting] /\ observer[o].place = "sent"
      BY <1>1, <2>2 DEF Waits
    <3>2. observer[o] \in Asking /\ observer[o] # Idle
      BY <3>1 DEF IInv, TypeOK, Idle
    <3>3. waiting \in Asking
      BY <3>2 DEF Asking
    <3>4. TypeOK'
      BY <1>1, <2>2, <3>1, <3>3 DEF Waits, IInv, TypeOK, runtime
    <3>5. \A p \in Observers : observer'[p] = observer[p] \/
             (p = o /\ observer'[p].reply = observer[o].reply /\ observer'[p].floor = observer[o].floor)
      BY <3>1 DEF IInv, TypeOK
    <3>6. ReplyInv'
      BY <1>1, <2>2, <3>2, <3>5 DEF Waits, IInv, ReplyInv, runtime
    <3> QED
      BY <3>4, <3>6 DEF IInv
  <2> QED
    BY <2>1, <2>2
<1>2. CASE TimesOut(o) \/ SeesShutdown(o)
  BY <1>2, GivesUp DEF TimesOut, SeesShutdown, runtime
<1>3. CASE Receives(o)
  <2> DEFINE reply == observer[o].reply
  <2>1. observer[o] \in Asking /\ reply \in 1..MaxRequests
    <3>1. observer[o] # Idle
      BY <1>3 DEF Receives, Waiting, Idle
    <3> QED
      BY <3>1 DEF IInv, TypeOK, Asking
  <2>2. replies' = [replies EXCEPT ![reply] = <<>>]
    <3>1. replies[reply] = <<Head(replies[reply])>>
      BY <1>3, <2>1 DEF Receives, IInv, ReplyInv
    <3>2. Tail(replies[reply]) = <<>>
      BY <3>1, OneReply
    <3> QED
      BY <1>3, <3>2 DEF Receives
  <2>3. /\ observer' \in [Observers -> Asking \cup {Idle}]
        /\ answer' = [p \in Observers |-> answer'[p]]
        /\ \A p \in Observers : observer'[p] = observer[p] \/ observer'[p] = Idle
    BY <1>3 DEF Receives, Gets, IInv, TypeOK
  <2>4. /\ replies' = [n \in 1..MaxRequests |-> replies'[n]]
        /\ \A n \in 1..MaxRequests : replies'[n] = replies[n] \/ replies'[n] = <<>>
    BY <2>2 DEF IInv, TypeOK
  <2>5. \A p \in Observers : observer[p] # Idle => observer[p].reply \in 1..MaxRequests
    BY DEF IInv, TypeOK, Asking
  <2> QED
    BY <1>3, <2>3, <2>4, <2>5 DEF Receives, IInv, TypeOK, ReplyInv, runtime
<1> QED
  BY <1>1, <1>2, <1>3 DEF ObserverStep

-----------------------------------------------------------------------------
(* Every step *)

LEMMA NextKeeps ==
    ASSUME IInv, [Next]_vars
    PROVE  IInv'
<1>1. ASSUME NEW i \in Issues, Dispatches(i) PROVE IInv'
  <2>1. FreshAgent(runs + 1) \in Agent
    <3>1. <<>> \in Seq(Posted) /\ Pending \in Sid
      BY DEF Pending, Sid
    <3> QED
      BY <3>1 DEF FreshAgent, Agent, IInv, TypeOK
  <2>2. agent' \in [Issues -> Agent \cup {NoAgent}]
    BY <1>1, <2>1 DEF Dispatches, IInv, TypeOK
  <2> QED
    BY <1>1, <2>2 DEF Dispatches, IInv, TypeOK, ReplyInv, surface
<1>2. ASSUME NEW i \in Issues, RetryReleases(i) PROVE IInv'
  BY <1>2 DEF RetryReleases, IInv, TypeOK, ReplyInv, surface
<1>3. CASE TickFires
  <2>1. events \in Seq(Event) /\ [kind |-> "tick"] \in Event
    BY DEF IInv, TypeOK, Event
  <2>2. /\ events' \in Seq(Event)
        /\ \A k \in 1..Len(events') :
             events'[k].kind # "snapshot" \/ (k \in 1..Len(events) /\ events'[k] = events[k])
    BY <1>3, <2>1, Appended DEF TickFires
  <2> QED
    BY <1>3, <2>2 DEF TickFires, IInv, TypeOK, ReplyInv, runtime, surface
<1>4. CASE Signalled \/ RunSetsContext \/ RunReturns
  BY <1>4 DEF Signalled, RunSetsContext, RunReturns, IInv, TypeOK, ReplyInv, runtime, surface
<1>5. CASE TimePasses
  <2>1. clock' \in Nat
    BY <1>5, SessionsAssumption DEF TimePasses
  <2> QED
    BY <1>5, <2>1 DEF TimePasses, IInv, TypeOK, ReplyInv, runtime, surface
<1>6. CASE UNCHANGED vars
  BY <1>6 DEF vars, IInv, TypeOK, ReplyInv, runtime, surface
<1> QED
  BY <1>1, <1>2, <1>3, <1>4, <1>5, <1>6, AgentStepKeeps, LoopKeeps, AsksKeeps, ObserverKeeps
  DEF Next, Environment

\* Messages, requests and answers are well-formed, and no reply channel is used
\* for a second request.
THEOREM RepliesMatch == Spec => []IInv
<1>1. Init => IInv
  BY SessionsAssumption DEF Init, IInv, TypeOK, ReplyInv
<1> QED
  BY <1>1, NextKeeps, PTL DEF Spec

\* Only a receive hands out a snapshot, and to the observer that takes it.
LEMMA StepIsFresh ==
    ASSUME IInv, [Next]_vars, NEW o \in Observers,
           observer'[o] = Idle, observer[o] # Idle, answer'[o].given = "snapshot"
    PROVE  answer'[o].body.tokens >= observer[o].floor
<1>1. observer' # observer
  OBVIOUS
<1>2. PICK p \in Observers : Asks(p) \/ ObserverStep(p)
  <2>1. ASSUME NEW i \in Issues,
               HandlesLine(i) \/ AgentStep(i) \/ Dispatches(i) \/ RetryReleases(i)
        PROVE  observer' = observer
    BY <2>1 DEF HandlesLine, AgentStep, HandlesInit, HandlesMessage, HandlesResult, TurnFails,
                Emits, TurnStarts, RunEnds, Posts, Dispatches, RetryReleases, surface
  <2>2. CASE LoopStep
    BY <1>1, <2>2 DEF LoopStep, OnAgentUpdate, OnWorkerExit, OnTick, OnSnapshotRequest, surface
  <2>3. CASE TickFires \/ Signalled \/ TimePasses \/ RunSetsContext \/ RunReturns
    BY <1>1, <2>3 DEF TickFires, Signalled, TimePasses, RunSetsContext, RunReturns, surface
  <2>4. CASE UNCHANGED vars
    BY <1>1, <2>4 DEF vars, surface
  <2> QED
    BY <1>1, <2>1, <2>2, <2>3, <2>4 DEF Next, Environment
<1>3. p = o
  <2>1. observer'[o] = observer[o] \/ p = o
    BY <1>2 DEF Asks, ObserverStep, Waits, Receives, TimesOut, SeesShutdown, Gets, IInv, TypeOK
  <2> QED
    BY <2>1
<1>4. \A why : Gets(o, NotGiven(why)) => answer'[o].given = why
  BY DEF Gets, NotGiven, IInv, TypeOK
<1>5. CASE Asks(o)
  BY <1>5 DEF Asks
<1>6. CASE Waits(o)
  <2>1. observer'[o].place = "waiting" \/ Gets(o, NotGiven("aborted"))
    BY <1>6 DEF Waits, IInv, TypeOK
  <2> QED
    BY <1>4, <2>1 DEF Idle
<1>7. CASE TimesOut(o) \/ SeesShutdown(o)
  BY <1>4, <1>7 DEF TimesOut, SeesShutdown
<1>8. CASE Receives(o)
  <2>1. answer'[o].body = Head(replies[observer[o].reply])
    BY <1>8 DEF Receives, Gets, IInv, TypeOK
  <2> QED
    BY <1>8, <2>1 DEF Receives, IInv, ReplyInv
<1> QED
  BY <1>2, <1>3, <1>5, <1>6, <1>7, <1>8 DEF ObserverStep

\* However requests are given up and answered late, an observer is only given a
\* snapshot that the loop built after it asked (Snapshot, onSnapshotRequest).
THEOREM AnswersFollowRequests == Spec => AnswersAreFresh
<1>1. IInv /\ [Next]_vars =>
        [\A o \in Observers :
           observer'[o] = Idle /\ observer[o] # Idle /\ answer'[o].given = "snapshot" =>
             answer'[o].body.tokens >= observer[o].floor]_vars
  BY StepIsFresh
<1> QED
  BY <1>1, RepliesMatch, PTL DEF Spec, AnswersAreFresh

-----------------------------------------------------------------------------
(* What sessions keep: the invariant *)

Session == [sid : Sid, turn : Nat, tokens : Nat, activity : Seq(Nat), lastAt : Nat \cup {-1},
            startedAt : Nat, terminating : BOOLEAN]
Out(i) == IF agent[i] = NoAgent THEN <<>> ELSE agent[i].out
Mine(i) == {e \in Posted : e.issue = i}

\* A goroutine posts messages of its own issue, its exit last, and a session
\* lasts until the loop has taken that.
Queued(s, a, q) ==
    /\ s = NoSession => q = <<>> /\ (a = NoAgent \/ a.place = "done")
    /\ s # NoSession => a \in Agent
    /\ \A k \in DOMAIN q : q[k].kind = "exit" => k = Len(q) /\ a.place = "done"

QueueInv ==
    /\ session \in [Issues -> Session \cup {NoSession}]
    /\ totals.seconds \in Int /\ reported \in Int
    /\ \A i \in Issues :
         Out(i) \in Seq(Mine(i)) /\ Queued(session[i], agent[i], OnTheWay(i))

\* Tokens and texts of the messages on the way, and texts among the first k.
TokenAt(q) == [k \in DOMAIN q |-> IF k \in InFlight(q) THEN q[k].usage ELSE 0]
TextAt(q) == [k \in DOMAIN q |-> IF k \in InFlight(q) /\ q[k].text # 0 THEN 1 ELSE 0]
TextsUpTo(q, k) == SumFunctionOnSet(TextAt(q), 1..k)
IsLast(q, k) == k \in InFlight(q) /\ \A j \in InFlight(q) : j <= k

TextsKept(s, a, q) ==
    LET seen == a.said - TextsOf(q)
        shown == IF seen < Window THEN seen ELSE Window
    IN  /\ seen \in Nat
        /\ s.activity = [k \in 1..shown |-> seen - shown + k]
        /\ \A k \in InFlight(q) : q[k].text # 0 => q[k].text = seen + TextsUpTo(q, k)

\* The last update says how the goroutine stands; when there is none on its
\* way, the session does.
LatestKept(s, a, q) ==
    /\ \A k \in InFlight(q) : IsLast(q, k) =>
         /\ q[k].sid = a.sid /\ q[k].at = a.lastAt
         /\ a.place = "ready" => q[k].turn = a.turn
    /\ InFlight(q) = {} =>
         /\ s.sid = a.sid /\ LastActivity(s) = a.lastAt
         /\ a.place = "ready" => s.turn = a.turn
    /\ \A k \in InFlight(q) : (q[k].sid # Pending => a.sid # Pending) /\ q[k].turn <= a.turn
    /\ (s.sid # Pending => a.sid # Pending) /\ s.turn <= a.turn
    /\ a.run > 0 /\ (a.started => a.sid = <<a.run, a.turn>>)

Kept(s, a, q) ==
    /\ s.tokens + TokensOf(q) = a.spent
    /\ TextsKept(s, a, q) /\ LatestKept(s, a, q)

KeptInv ==
    rootCtx # "cancelled" =>
        /\ totals.tokens + SumFunction([i \in Issues |-> TokensOf(OnTheWay(i))]) = reported
        /\ \A i \in Running : Kept(session[i], agent[i], OnTheWay(i))

-----------------------------------------------------------------------------
(* The messages of one issue among those in the channel *)

LEMMA MineIs ==
    ASSUME NEW i \in Issues, NEW e \in Event
    PROVE  e \in Mine(i) <=> e.kind \in {"update", "exit"} /\ e.issue = i
BY DEF Event, Mine, Posted

\* The filter of OfIssue is a walk along the channel.
Sifts(w, i, q) ==
    /\ w \in [0..Len(q) -> Seq(Mine(i))] /\ w[0] = <<>>
    /\ \A k \in 1..Len(q) :
         w[k] = IF q[k] \in Mine(i) THEN Append(w[k - 1], q[k]) ELSE w[k - 1]

\* The function that FoldLeft takes its value from.
Takes(i, q, kept, k) == IF q[k].kind \in {"update", "exit"} /\ q[k].issue = i
                        THEN Append(kept, q[k]) ELSE kept
Folding(g, i, q) ==
    g = [T \in SUBSET DOMAIN q |->
           IF T = {} THEN <<>> ELSE Takes(i, q, g[T \ {Max(T)}], Max(T))]

LEMMA SiftExists ==
    ASSUME NEW i \in Issues, NEW q \in Seq(Event)
    PROVE  \E w : Sifts(w, i, q) /\ OfIssue(i, q) = w[Len(q)]
<1>1. PICK n \in Nat : n = Len(q) /\ DOMAIN q = 1..n
  BY LenProperties
<1>2. \A k \in 1..n : q[k] \in Event
  BY <1>1, ElementOfSeq
<1> DEFINE V == Seq(Mine(i))
<1>3. \A k \in 1..n : \A v \in V :
        /\ Takes(i, q, v, k) \in V
        /\ Takes(i, q, v, k) = IF q[k] \in Mine(i) THEN Append(v, q[k]) ELSE v
  <2>1. \A e \in Mine(i) : \A v \in V : Append(v, e) \in V
    OBVIOUS
  <2>2. \A k \in 1..n : q[k] \in Mine(i) <=> q[k].kind \in {"update", "exit"} /\ q[k].issue = i
    BY <1>2, MineIs
  <2> HIDE DEF V
  <2> QED
    BY <2>1, <2>2 DEF Takes
<1>4. <<>> \in V
  OBVIOUS
<1> HIDE DEF V
<1>5. PICK body \in [1..n -> [V -> V]] : \A k \in 1..n : \A v \in V : body[k][v] = Takes(i, q, v, k)
  <2>1. [k \in 1..n |-> [v \in V |-> Takes(i, q, v, k)]] \in [1..n -> [V -> V]]
    BY <1>3
  <2> QED
    BY <2>1
<1>6. PICK it : IsFoldLeft(it, n, V, <<>>, body)
  BY <1>4, FoldLeftExists
<1>8. Folding(it, i, q)
  <2>1. it = [T \in SUBSET (1..n) |-> it[T]]
    BY <1>6 DEF IsFoldLeft
  <2>2. ASSUME NEW T \in SUBSET (1..n)
        PROVE  it[T] = IF T = {} THEN <<>> ELSE Takes(i, q, it[T \ {Max(T)}], Max(T))
    <3>1. it[T] = IF T = {} THEN <<>> ELSE body[Max(T)][it[T \ {Max(T)}]]
      BY <1>6 DEF IsFoldLeft
    <3>2. T # {} => Max(T) \in 1..n /\ it[T \ {Max(T)}] \in V
      BY <1>6, MaxIn DEF IsFoldLeft
    <3> QED
      BY <1>5, <3>1, <3>2
  <2> QED
    BY <1>1, <2>1, <2>2 DEF Folding
<1>9. OfIssue(i, q) = (CHOOSE g : Folding(g, i, q))[1..n]
  BY <1>1 DEF OfIssue, FoldLeft, MapThenFoldSet, Folding, Takes
<1>10. PICK g : Folding(g, i, q) /\ OfIssue(i, q) = g[1..n]
  BY <1>8, <1>9
<1> DEFINE w == [k \in 0..n |-> g[1..k]]
<1>11. w[0] = <<>>
  BY <1>1, <1>10 DEF Folding
<1>12. ASSUME NEW k \in 1..n PROVE w[k] = Takes(i, q, w[k - 1], k)
  <2>1. 1..k \in SUBSET DOMAIN q /\ 1..k # {} /\ (1..k) \ {k} = 1..(k - 1) /\ Max(1..k) = k
    BY <1>1, MaxOfFirst
  <2>2. g[1..k] = Takes(i, q, g[1..(k - 1)], k)
    BY <1>10, <2>1 DEF Folding
  <2> QED
    BY <2>2
<1> HIDE DEF w
<1>13. \A k \in 0..n : w[k] \in V
  <2>1. g[{}] \in V
    <3>1. w[0] = g[1..0] /\ 1..0 = {}
      BY <1>1 DEF w
    <3> QED
      BY <1>4, <1>11, <3>1
  <2>2. \A k \in 1..n : g[1..(k - 1)] \in V => g[1..k] \in V
    <3>1. \A k \in 1..n : w[k] = g[1..k] /\ w[k - 1] = g[1..(k - 1)]
      BY <1>1 DEF w
    <3> QED
      BY <1>3, <1>12, <3>1
  <2>3. \A k \in 0..n : g[1..k] \in V
    BY <1>1, <2>1, <2>2, PrefixesStay
  <2> QED
    BY <2>3 DEF w
<1>14. Sifts(w, i, q)
  <2>1. w \in [0..n -> V]
    BY <1>13 DEF w
  <2>2. \A k \in 1..n : w[k] = IF q[k] \in Mine(i) THEN Append(w[k - 1], q[k]) ELSE w[k - 1]
    <3>1. \A k \in 1..n : k - 1 \in 0..n
      OBVIOUS
    <3> QED
      BY <1>3, <1>12, <1>13, <3>1
  <2> QED
    BY <1>1, <1>11, <2>1, <2>2 DEF Sifts, V
<1>15. OfIssue(i, q) = w[Len(q)]
  BY <1>1, <1>10 DEF w
<1> QED
  BY <1>14, <1>15

LEMMA OfIssueType ==
    ASSUME NEW i \in Issues, NEW q \in Seq(Event)
    PROVE  OfIssue(i, q) \in Seq(Mine(i))
<1>1. PICK w : Sifts(w, i, q) /\ OfIssue(i, q) = w[Len(q)]
  BY SiftExists
<1>2. Len(q) \in 0..Len(q)
  BY LenProperties
<1> QED
  BY <1>1, <1>2 DEF Sifts

\* What is taken of a channel and of what is put after it.
LEMMA OfIssueConcat ==
    ASSUME NEW i \in Issues, NEW q \in Seq(Event), NEW r \in Seq(Event)
    PROVE  OfIssue(i, q \o r) = OfIssue(i, q) \o OfIssue(i, r)
<1>1. PICK n \in Nat, m \in Nat : n = Len(q) /\ m = Len(r)
  BY LenProperties
<1>2. /\ q \o r \in Seq(Event) /\ Len(q \o r) = n + m
      /\ \A k \in 1..n : (q \o r)[k] = q[k]
      /\ \A k \in 1..m : (q \o r)[n + k] = r[k]
  <2>1. /\ q \o r \in Seq(Event) /\ Len(q \o r) = n + m
        /\ \A k \in 1..(n + m) : (q \o r)[k] = IF k <= n THEN q[k] ELSE r[k - n]
    BY <1>1, ConcatProperties
  <2>2. \A k \in 1..m : n + k \in 1..(n + m) /\ ~(n + k <= n) /\ (n + k) - n = k
    OBVIOUS
  <2> QED
    BY <2>1, <2>2
<1>3. PICK qr : qr = q \o r
  OBVIOUS
<1>4. PICK w : Sifts(w, i, qr) /\ OfIssue(i, qr) = w[n + m]
  BY <1>2, <1>3, SiftExists
<1>5. PICK u : Sifts(u, i, q) /\ OfIssue(i, q) = u[n]
  BY <1>1, SiftExists
<1>6. PICK v : Sifts(v, i, r) /\ OfIssue(i, r) = v[m]
  BY <1>1, SiftExists
<1> DEFINE P == {k \in Nat : k <= n => w[k] = u[k]}
           j == [k \in 0..m |-> u[n] \o v[k]]
<1>7. Nat \subseteq P
  <2>1. 0 \in P
    BY <1>4, <1>5 DEF Sifts
  <2>2. ASSUME NEW k \in Nat, k \in P PROVE k + 1 \in P
    <3> SUFFICES ASSUME k + 1 <= n PROVE w[k + 1] = u[k + 1]
      OBVIOUS
    <3>1. k + 1 \in 1..n /\ k + 1 \in 1..(n + m) /\ (k + 1) - 1 = k
      OBVIOUS
    <3>2. w[k + 1] = IF qr[k + 1] \in Mine(i) THEN Append(w[k], qr[k + 1]) ELSE w[k]
      BY <1>2, <1>3, <1>4, <3>1 DEF Sifts
    <3>3. u[k + 1] = IF q[k + 1] \in Mine(i) THEN Append(u[k], q[k + 1]) ELSE u[k]
      BY <1>1, <1>5, <3>1 DEF Sifts
    <3>4. w[k] = u[k] /\ qr[k + 1] = q[k + 1]
      BY <1>2, <1>3, <2>2, <3>1
    <3> QED
      BY <3>2, <3>3, <3>4
  <2> HIDE DEF P
  <2> QED
    BY <2>1, <2>2, NumbersByInduction
<1>8. w[n] = u[n]
  BY <1>7
<1>9. u[n] \in Seq(Mine(i))
  BY <1>1, <1>5, OfIssueType
<1>10. \A k \in 0..m : v[k] \in Seq(Mine(i))
  BY <1>1, <1>6 DEF Sifts
<1>11. \A k \in 0..m : j[k] = u[n] \o v[k]
  OBVIOUS
<1>12. j[0] = u[n]
  <2>1. 0 \in 0..m /\ v[0] = <<>>
    BY <1>6 DEF Sifts
  <2> QED
    BY <1>9, <1>11, <2>1, ConcatEmptySeq
<1>13. ASSUME NEW k \in 1..m
       PROVE  j[k] = IF r[k] \in Mine(i) THEN Append(j[k - 1], r[k]) ELSE j[k - 1]
  <2>1. k \in 0..m /\ k - 1 \in 0..m
    OBVIOUS
  <2>2. v[k] = IF r[k] \in Mine(i) THEN Append(v[k - 1], r[k]) ELSE v[k - 1]
    BY <1>1, <1>6 DEF Sifts
  <2>3. ASSUME NEW e \in Mine(i), NEW s \in Seq(Mine(i)), NEW t \in Seq(Mine(i))
        PROVE  s \o Append(t, e) = Append(s \o t, e)
    <3>1. <<e>> \in Seq(Mine(i)) /\ Append(t, e) = t \o <<e>>
      BY AppendIsConcat
    <3>2. s \o t \in Seq(Mine(i)) /\ Append(s \o t, e) = (s \o t) \o <<e>>
      BY ConcatProperties, AppendIsConcat
    <3> QED
      BY <3>1, <3>2, ConcatAssociative
  <2>4. v[k - 1] \in Seq(Mine(i)) /\ j[k] = u[n] \o v[k] /\ j[k - 1] = u[n] \o v[k - 1]
    BY <1>10, <1>11, <2>1
  <2>5. CASE r[k] \in Mine(i)
    <3>1. j[k] = u[n] \o Append(v[k - 1], r[k])
      BY <2>2, <2>4, <2>5
    <3>2. u[n] \o Append(v[k - 1], r[k]) = Append(u[n] \o v[k - 1], r[k])
      BY <1>9, <2>3, <2>4, <2>5
    <3> QED
      BY <2>4, <2>5, <3>1, <3>2
  <2> QED
    BY <2>2, <2>4, <2>5
<1> HIDE DEF j
<1> DEFINE Q == {k \in Nat : k <= m => w[n + k] = j[k]}
<1>14. Nat \subseteq Q
  <2>1. 0 \in Q
    BY <1>8, <1>12
  <2>2. ASSUME NEW k \in Nat, k \in Q PROVE k + 1 \in Q
    <3> SUFFICES ASSUME k + 1 <= m PROVE w[n + (k + 1)] = j[k + 1]
      OBVIOUS
    <3>1. /\ k + 1 \in 1..m /\ n + (k + 1) \in 1..(n + m) /\ (k + 1) - 1 = k
          /\ (n + (k + 1)) - 1 = n + k
      OBVIOUS
    <3>2. w[n + (k + 1)] = IF qr[n + (k + 1)] \in Mine(i)
                           THEN Append(w[n + k], qr[n + (k + 1)]) ELSE w[n + k]
      BY <1>2, <1>3, <1>4, <3>1 DEF Sifts
    <3>3. j[k + 1] = IF r[k + 1] \in Mine(i) THEN Append(j[k], r[k + 1]) ELSE j[k]
      BY <1>13, <3>1
    <3>4. w[n + k] = j[k] /\ qr[n + (k + 1)] = r[k + 1]
      BY <1>2, <1>3, <2>2, <3>1
    <3> QED
      BY <3>2, <3>3, <3>4
  <2> HIDE DEF Q
  <2> QED
    BY <2>1, <2>2, NumbersByInduction
<1>15. w[n + m] = j[m]
  BY <1>14
<1>16. j[m] = u[n] \o v[m]
  <2>1. m \in 0..m
    OBVIOUS
  <2> QED
    BY <1>11, <2>1
<1> QED
  BY <1>3, <1>4, <1>5, <1>6, <1>15, <1>16

LEMMA OfIssueEmpty ==
    ASSUME NEW i \in Issues
    PROVE  OfIssue(i, <<>>) = <<>>
<1>1. <<>> \in Seq(Event) /\ Len(<<>>) = 0
  OBVIOUS
<1>2. PICK w : Sifts(w, i, <<>>) /\ OfIssue(i, <<>>) = w[0]
  BY <1>1, SiftExists
<1> QED
  BY <1>2 DEF Sifts

LEMMA OfIssueOne ==
    ASSUME NEW i \in Issues, NEW e \in Event
    PROVE  OfIssue(i, <<e>>) = IF e \in Mine(i) THEN <<e>> ELSE <<>>
<1>0. <<e>> \in Seq(Event) /\ Len(<<e>>) = 1 /\ <<e>>[1] = e
  OBVIOUS
<1>1. PICK q \in Seq(Event) : q = <<e>> /\ Len(q) = 1 /\ q[1] = e
  BY <1>0
<1>2. PICK w : Sifts(w, i, q) /\ OfIssue(i, q) = w[1]
  BY <1>1, SiftExists
<1>3. w[0] = <<>> /\ w[1] = IF e \in Mine(i) THEN Append(w[0], e) ELSE w[0]
  <2>1. 1 \in 1..Len(q) /\ 1 - 1 = 0
    BY <1>1
  <2> QED
    BY <1>1, <1>2, <2>1 DEF Sifts
<1> QED
  BY <1>1, <1>2, <1>3

\* What the loop takes, what is added at the end, and what one goroutine posts.
LEMMA OfIssueTaken ==
    ASSUME NEW i \in Issues, NEW q \in Seq(Event), q # <<>>
    PROVE  OfIssue(i, q) = IF Head(q) \in Mine(i) THEN <<Head(q)>> \o OfIssue(i, Tail(q))
                           ELSE OfIssue(i, Tail(q))
<1>1. Head(q) \in Event /\ Tail(q) \in Seq(Event) /\ q = <<Head(q)>> \o Tail(q)
      /\ <<Head(q)>> \in Seq(Event)
  OBVIOUS
<1>2. PICK one \in Seq(Event), rest \in Seq(Event) :
        one = <<Head(q)>> /\ rest = Tail(q) /\ q = one \o rest
  BY <1>1
<1>3. OfIssue(i, q) = OfIssue(i, one) \o OfIssue(i, rest)
  BY <1>2, OfIssueConcat
<1>4. OfIssue(i, rest) \in Seq(Mine(i))
  BY OfIssueType
<1>5. OfIssue(i, one) = IF Head(q) \in Mine(i) THEN <<Head(q)>> ELSE <<>>
  BY <1>1, <1>2, OfIssueOne
<1> QED
  BY <1>2, <1>3, <1>4, <1>5, ConcatEmptySeq

LEMMA OfIssueAdded ==
    ASSUME NEW i \in Issues, NEW q \in Seq(Event), NEW e \in Event
    PROVE  OfIssue(i, Append(q, e)) = IF e \in Mine(i) THEN OfIssue(i, q) \o <<e>>
                                      ELSE OfIssue(i, q)
<1>0. <<e>> \in Seq(Event) /\ Append(q, e) = q \o <<e>>
  BY AppendIsConcat
<1>1. PICK one \in Seq(Event) : one = <<e>> /\ Append(q, e) = q \o one
  BY <1>0
<1>2. OfIssue(i, Append(q, e)) = OfIssue(i, q) \o OfIssue(i, one)
  BY <1>1, OfIssueConcat
<1>3. OfIssue(i, one) = IF e \in Mine(i) THEN <<e>> ELSE <<>>
  BY <1>1, OfIssueOne
<1> QED
  BY <1>2, <1>3, OfIssueType, ConcatEmptySeq

LEMMA OfIssueOwn ==
    ASSUME NEW i \in Issues, NEW q \in Seq(Mine(i))
    PROVE  OfIssue(i, q) = q
<1> DEFINE P == {n \in Nat : \A r \in Seq(Mine(i)) : Len(r) = n => OfIssue(i, r) = r}
<1>1. Mine(i) \subseteq Event
  BY DEF Mine, Event
<1>2. 0 \in P
  <2>1. \A r \in Seq(Mine(i)) : Len(r) = 0 => r = <<>>
    BY EmptySeq
  <2> QED
    BY <2>1, OfIssueEmpty
<1>3. ASSUME NEW n \in Nat, n \in P PROVE n + 1 \in P
  <2> SUFFICES ASSUME NEW r \in Seq(Mine(i)), Len(r) = n + 1 PROVE OfIssue(i, r) = r
    OBVIOUS
  <2>1. r # <<>> /\ r \in Seq(Event)
    BY <1>1, SeqMonotonic
  <2>2. /\ Head(r) \in Mine(i) /\ Tail(r) \in Seq(Mine(i)) /\ Len(Tail(r)) = n
        /\ r = <<Head(r)>> \o Tail(r)
    BY <2>1
  <2>3. OfIssue(i, Tail(r)) = Tail(r)
    BY <1>3, <2>2
  <2> QED
    BY <2>1, <2>2, <2>3, OfIssueTaken
<1> HIDE DEF P
<1>4. Nat \subseteq P
  BY <1>2, <1>3, NumbersByInduction
<1> QED
  BY <1>4, LenProperties DEF P

-----------------------------------------------------------------------------
(* Tokens and texts along a queue *)

LEMMA Joined ==
    ASSUME NEW q \in Seq(Posted), NEW r \in Seq(Posted), NEW n \in Nat, n = Len(q)
    PROVE  /\ q \o r \in Seq(Posted) /\ Len(r) \in Nat /\ Len(q \o r) = n + Len(r)
           /\ DOMAIN q = 1..n /\ DOMAIN r = 1..Len(r) /\ DOMAIN (q \o r) = 1..(n + Len(r))
           /\ \A k \in 1..n : (q \o r)[k] = q[k] /\ (k \in InFlight(q \o r) <=> k \in InFlight(q))
           /\ \A k \in 1..Len(r) :
                (q \o r)[n + k] = r[k] /\ (n + k \in InFlight(q \o r) <=> k \in InFlight(r))
<1>1. PICK m \in Nat : m = Len(r)
  BY LenProperties
<1>2. PICK qr \in Seq(Posted) : qr = q \o r
  BY ConcatProperties
<1>3. /\ Len(qr) = n + m
      /\ \A k \in 1..(n + m) : qr[k] = IF k <= n THEN q[k] ELSE r[k - n]
  BY <1>1, <1>2, ConcatProperties
<1>4. DOMAIN q = 1..n /\ DOMAIN r = 1..m /\ DOMAIN qr = 1..(n + m)
  BY <1>1, <1>2, <1>3, LenProperties
<1>5. \A k \in 1..m : n + k \in 1..(n + m) /\ ~(n + k <= n) /\ (n + k) - n = k
  OBVIOUS
<1>6. \A k \in 1..m : qr[n + k] = r[k]
  BY <1>3, <1>5
<1>7. \A k \in 1..n : qr[k] = q[k]
  BY <1>3
<1> QED
  BY <1>1, <1>2, <1>3, <1>4, <1>5, <1>6, <1>7 DEF InFlight

LEMMA MessageType ==
    ASSUME NEW q \in Seq(Posted), NEW k \in DOMAIN q
    PROVE  /\ q[k] \in Posted
           /\ k \in InFlight(q) => q[k].usage \in Nat /\ q[k].text \in Nat
           /\ k \notin InFlight(q) => q[k].kind = "exit"
<1>1. q[k] \in Posted
  BY LenProperties, ElementOfSeq
<1> QED
  BY <1>1 DEF InFlight, Posted

LEMMA TokensJoined ==
    ASSUME NEW q \in Seq(Posted), NEW r \in Seq(Posted)
    PROVE  /\ TokensOf(q) \in Int /\ TokensOf(r) \in Int
           /\ TokensOf(q \o r) = TokensOf(q) + TokensOf(r)
<1>1. PICK n \in Nat, m \in Nat : n = Len(q) /\ m = Len(r)
  BY LenProperties
<1>2. PICK qr \in Seq(Posted) : qr = q \o r
  BY Joined, <1>1
<1>3. /\ DOMAIN q = 1..n /\ DOMAIN r = 1..m /\ DOMAIN qr = 1..(n + m)
      /\ \A k \in 1..n : qr[k] = q[k] /\ (k \in InFlight(qr) <=> k \in InFlight(q))
      /\ \A k \in 1..m : qr[n + k] = r[k] /\ (n + k \in InFlight(qr) <=> k \in InFlight(r))
  <2>1. /\ DOMAIN q = 1..n /\ DOMAIN r = 1..Len(r) /\ DOMAIN (q \o r) = 1..(n + Len(r))
        /\ \A k \in 1..n :
             (q \o r)[k] = q[k] /\ (k \in InFlight(q \o r) <=> k \in InFlight(q))
        /\ \A k \in 1..Len(r) :
             (q \o r)[n + k] = r[k] /\ (n + k \in InFlight(q \o r) <=> k \in InFlight(r))
    BY <1>1, Joined
  <2> QED
    BY <1>1, <1>2, <2>1
<1>4. \A p \in Seq(Posted) : \A k \in DOMAIN p : TokenAt(p)[k] \in Int
  BY MessageType DEF TokenAt
<1>5. \A p \in Seq(Posted) : TokensOf(p) = SumFunctionOnSet(TokenAt(p), DOMAIN p)
  BY DEF TokensOf, TokenAt, SumFunction
<1>6. PICK f, g, h : f = TokenAt(q) /\ g = TokenAt(r) /\ h = TokenAt(qr)
  OBVIOUS
<1>7. /\ \A k \in 1..n : h[k] = f[k] /\ f[k] \in Int
      /\ \A k \in 1..m : h[n + k] = g[k] /\ g[k] \in Int
  <2>1. \A k \in 1..n : k \in 1..(n + m)
    OBVIOUS
  <2>2. \A k \in 1..m : n + k \in 1..(n + m)
    OBVIOUS
  <2> QED
    BY <1>3, <1>4, <1>6, <2>1, <2>2 DEF TokenAt
<1>8. \A k \in 1..(n + m) : h[k] \in Int
  BY <1>3, <1>4, <1>6
<1>9. SumFunctionOnSet(h, 1..n) = SumFunctionOnSet(f, 1..n)
  <2>1. IsFiniteSet(1..n)
    BY FS_Interval
  <2> QED
    BY <1>7, <2>1, SumSame
<1>10. SumFunctionOnSet(h, 1..(n + m)) = SumFunctionOnSet(h, 1..n) + SumFunctionOnSet(g, 1..m)
  <2>1. \A k \in 1..m : g[k] = h[n + k]
    BY <1>7
  <2> QED
    BY <1>8, <2>1, SumSplit
<1>11. SumFunctionOnSet(f, 1..n) \in Int /\ SumFunctionOnSet(g, 1..m) \in Int
  <2>1. IsFiniteSet(1..n) /\ IsFiniteSet(1..m)
    BY FS_Interval
  <2> QED
    BY <1>7, <2>1, SumType
<1> QED
  BY <1>2, <1>3, <1>5, <1>6, <1>9, <1>10, <1>11

LEMMA TextsJoined ==
    ASSUME NEW q \in Seq(Posted), NEW r \in Seq(Posted)
    PROVE  /\ TextsOf(q) \in Int /\ TextsOf(r) \in Int
           /\ TextsOf(q \o r) = TextsOf(q) + TextsOf(r)
           /\ \A k \in 1..Len(q) :
                TextsUpTo(q \o r, k) = TextsUpTo(q, k) /\ TextsUpTo(q, k) \in Int
           /\ \A k \in 1..Len(r) :
                TextsUpTo(q \o r, Len(q) + k) = TextsOf(q) + TextsUpTo(r, k) /\ TextsUpTo(r, k) \in Int
<1>1. PICK n \in Nat, m \in Nat : n = Len(q) /\ m = Len(r)
  BY LenProperties
<1>2. PICK qr \in Seq(Posted) : qr = q \o r
  BY Joined, <1>1
<1>3. /\ DOMAIN q = 1..n /\ DOMAIN r = 1..m /\ DOMAIN qr = 1..(n + m)
      /\ \A k \in 1..n : qr[k] = q[k] /\ (k \in InFlight(qr) <=> k \in InFlight(q))
      /\ \A k \in 1..m : qr[n + k] = r[k] /\ (n + k \in InFlight(qr) <=> k \in InFlight(r))
  <2>1. /\ DOMAIN q = 1..n /\ DOMAIN r = 1..Len(r) /\ DOMAIN (q \o r) = 1..(n + Len(r))
        /\ \A k \in 1..n :
             (q \o r)[k] = q[k] /\ (k \in InFlight(q \o r) <=> k \in InFlight(q))
        /\ \A k \in 1..Len(r) :
             (q \o r)[n + k] = r[k] /\ (n + k \in InFlight(q \o r) <=> k \in InFlight(r))
    BY <1>1, Joined
  <2> QED
    BY <1>1, <1>2, <2>1
<1>4. \A p \in Seq(Posted) : \A k \in DOMAIN p : TextAt(p)[k] \in Int
  BY DEF TextAt
<1>5. \A p \in Seq(Posted) : TextsOf(p) = SumFunctionOnSet(TextAt(p), DOMAIN p)
  BY DEF TextsOf, TextAt, SumFunction
<1>6. PICK f, g, h : f = TextAt(q) /\ g = TextAt(r) /\ h = TextAt(qr)
  OBVIOUS
<1>7. /\ \A k \in 1..n : h[k] = f[k] /\ f[k] \in Int
      /\ \A k \in 1..m : h[n + k] = g[k] /\ g[k] \in Int
  <2>1. \A k \in 1..n : k \in 1..(n + m)
    OBVIOUS
  <2>2. \A k \in 1..m : n + k \in 1..(n + m)
    OBVIOUS
  <2> QED
    BY <1>3, <1>4, <1>6, <2>1, <2>2 DEF TextAt
<1>8. \A k \in 1..(n + m) : h[k] \in Int
  BY <1>3, <1>4, <1>6
<1>9. \A k \in 0..n : SumFunctionOnSet(h, 1..k) = SumFunctionOnSet(f, 1..k)
                      /\ SumFunctionOnSet(f, 1..k) \in Int
  <2>1. ASSUME NEW k \in 0..n
        PROVE  SumFunctionOnSet(h, 1..k) = SumFunctionOnSet(f, 1..k)
               /\ SumFunctionOnSet(f, 1..k) \in Int
    <3>1. \A j \in 1..k : h[j] = f[j] /\ f[j] \in Int
      <4>1. \A j \in 1..k : j \in 1..n
        OBVIOUS
      <4> QED
        BY <1>7, <4>1
    <3>2. IsFiniteSet(1..k)
      BY FS_Interval
    <3> QED
      BY <3>1, <3>2, SumSame, SumType
  <2> QED
    BY <2>1
<1>10. \A k \in 0..m :
         /\ SumFunctionOnSet(g, 1..k) \in Int
         /\ SumFunctionOnSet(h, 1..(n + k)) = SumFunctionOnSet(h, 1..n) + SumFunctionOnSet(g, 1..k)
  <2>1. \A j \in 1..m : g[j] = h[n + j]
    BY <1>7
  <2> QED
    <3>1. Pieces(h, g, n, m)
      BY <1>8, <2>1 DEF Pieces
    <3>2. SumsOfPieces(h, g, n, m)
      BY <3>1, SumsSplit
    <3> QED
      BY <3>2 DEF SumsOfPieces
<1>11. \A k \in 1..n : TextsUpTo(qr, k) = TextsUpTo(q, k) /\ TextsUpTo(q, k) \in Int
  BY <1>6, <1>9 DEF TextsUpTo
<1>12. TextsOf(q) = SumFunctionOnSet(h, 1..n) /\ TextsOf(q) \in Int
  <2>1. n \in 0..n
    OBVIOUS
  <2> QED
    BY <1>3, <1>5, <1>6, <1>9, <2>1
<1>13. \A k \in 1..m : TextsUpTo(qr, n + k) = TextsOf(q) + TextsUpTo(r, k) /\ TextsUpTo(r, k) \in Int
  BY <1>6, <1>10, <1>12 DEF TextsUpTo
<1>14. TextsOf(qr) = TextsOf(q) + TextsOf(r) /\ TextsOf(r) \in Int
  <2>1. m \in 0..m
    OBVIOUS
  <2> QED
    BY <1>2, <1>3, <1>5, <1>6, <1>10, <1>12, <2>1
<1> QED
  BY <1>1, <1>2, <1>11, <1>12, <1>13, <1>14

LEMMA OneMessage ==
    ASSUME NEW e \in Posted
    PROVE  /\ <<e>> \in Seq(Posted) /\ Len(<<e>>) = 1 /\ <<e>>[1] = e
           /\ InFlight(<<e>>) = IF e.kind = "update" THEN {1} ELSE {}
           /\ TokensOf(<<e>>) = IF e.kind = "update" THEN e.usage ELSE 0
           /\ TextsOf(<<e>>) = IF e.kind = "update" /\ e.text # 0 THEN 1 ELSE 0
           /\ TextsUpTo(<<e>>, 1) = TextsOf(<<e>>)
<1>0. <<e>> \in Seq(Posted)
  OBVIOUS
<1>1. PICK q \in Seq(Posted) : q = <<e>>
  BY <1>0
<1>2. Len(q) = 1 /\ q[1] = e /\ DOMAIN q = 1..1 /\ 1..1 = {1}
  BY <1>1
<1>3. InFlight(q) = IF e.kind = "update" THEN {1} ELSE {}
  BY <1>2 DEF InFlight
<1>4. ASSUME NEW f, f[1] \in Int PROVE SumFunctionOnSet(f, {1}) = f[1]
  <2>1. IsFiniteSet({1}) /\ {1} \ {1} = {}
    BY FS_Singleton
  <2>2. SumFunctionOnSet(f, {1}) = f[1] + SumFunctionOnSet(f, {1} \ {1})
    <3>1. \A x \in {1} : f[x] \in Int
      BY <1>4
    <3> QED
      BY <2>1, <3>1, SumRemove
  <2>3. SumFunctionOnSet(f, {1} \ {1}) = 0
    BY <2>1, SumEmpty
  <2> QED
    BY <1>4, <2>2, <2>3
<1>5. TokenAt(q)[1] = (IF e.kind = "update" THEN e.usage ELSE 0) /\ TokenAt(q)[1] \in Int
  BY <1>2, <1>3, MessageType DEF TokenAt
<1>6. TextAt(q)[1] = (IF e.kind = "update" /\ e.text # 0 THEN 1 ELSE 0) /\ TextAt(q)[1] \in Int
  BY <1>2, <1>3 DEF TextAt
<1>7. TokensOf(q) = SumFunctionOnSet(TokenAt(q), {1})
  BY <1>2 DEF TokensOf, TokenAt, SumFunction
<1>8. TextsOf(q) = SumFunctionOnSet(TextAt(q), {1}) /\ TextsUpTo(q, 1) = SumFunctionOnSet(TextAt(q), {1})
  BY <1>2 DEF TextsOf, TextAt, TextsUpTo, SumFunction
<1> QED
  BY <1>1, <1>2, <1>3, <1>4, <1>5, <1>6, <1>7, <1>8

LEMMA NoMessage ==
    <<>> \in Seq(Posted) /\ InFlight(<<>>) = {} /\ TokensOf(<<>>) = 0 /\ TextsOf(<<>>) = 0
<1>0. <<>> \in Seq(Posted) /\ DOMAIN <<>> = {}
  OBVIOUS
<1>1. PICK q \in Seq(Posted) : q = <<>> /\ DOMAIN q = {}
  BY <1>0
<1>2. InFlight(q) = {}
  BY <1>1 DEF InFlight
<1>3. TokensOf(q) = SumFunctionOnSet(TokenAt(q), {}) /\ TextsOf(q) = SumFunctionOnSet(TextAt(q), {})
  BY <1>1 DEF TokensOf, TokenAt, TextsOf, TextAt, SumFunction
<1> QED
  BY <1>1, <1>2, <1>3, SumEmpty

-----------------------------------------------------------------------------
(* What a session keeps, message by message *)

\* Terminating a session, or posting, changes nothing that is kept.
LEMMA KeptSame ==
    ASSUME NEW s, NEW t, NEW a, NEW b, NEW q, Kept(s, a, q),
           t.tokens = s.tokens, t.activity = s.activity, t.sid = s.sid, t.turn = s.turn,
           t.lastAt = s.lastAt, t.startedAt = s.startedAt,
           b.spent = a.spent, b.said = a.said, b.sid = a.sid, b.lastAt = a.lastAt,
           b.turn = a.turn, b.run = a.run, b.started => a.started,
           b.place = "ready" => a.place = "ready"
    PROVE  Kept(t, b, q)
<1>1. t.tokens + TokensOf(q) = b.spent
  BY DEF Kept
<1>2. TextsKept(t, b, q)
  BY DEF Kept, TextsKept
<1>3. LatestKept(t, b, q)
  <2>1. LastActivity(t) = LastActivity(s)
    BY DEF LastActivity
  <2> QED
    BY <2>1 DEF Kept, LatestKept
<1> QED
  BY <1>1, <1>2, <1>3 DEF Kept

LEMMA KeptNextTurn ==
    ASSUME NEW s \in Session, NEW a \in Agent, NEW b \in Agent, NEW q \in Seq(Posted), Kept(s, a, q),
           b = [a EXCEPT !.place = "turn", !.turn = @ + 1, !.started = FALSE]
    PROVE  Kept(s, b, q)
<1>1. /\ b.place = "turn" /\ b.turn = a.turn + 1 /\ b.started = FALSE /\ b.sid = a.sid
      /\ b.spent = a.spent /\ b.said = a.said /\ b.lastAt = a.lastAt /\ b.run = a.run
      /\ a.turn \in Nat /\ s.turn \in Nat
  BY DEF Agent, Session
<1>2. \A k \in InFlight(q) : q[k].turn \in Nat
  <2>1. \A k \in InFlight(q) : k \in DOMAIN q /\ q[k].kind = "update"
    BY DEF InFlight
  <2> QED
    BY <2>1, MessageType DEF Posted
<1>3. TextsKept(s, b, q)
  BY <1>1 DEF Kept, TextsKept
<1>4. LatestKept(s, b, q)
  BY <1>1, <1>2 DEF Kept, LatestKept
<1> QED
  BY <1>1, <1>3, <1>4 DEF Kept

\* One message more.
OneMore(q, p, e, n) ==
    /\ p \in Seq(Posted) /\ DOMAIN q = 1..n /\ DOMAIN p = 1..(n + 1)
    /\ \A k \in 1..n : p[k] = q[k]
    /\ p[n + 1] = e
    /\ InFlight(q) \subseteq 1..n
    /\ InFlight(p) = InFlight(q) \cup (IF e.kind = "update" THEN {n + 1} ELSE {})
    /\ TokensOf(q) \in Int
    /\ TokensOf(p) = TokensOf(q) + (IF e.kind = "update" THEN e.usage ELSE 0)
    /\ TextsOf(q) \in Int
    /\ TextsOf(p) = TextsOf(q) + (IF e.kind = "update" /\ e.text # 0 THEN 1 ELSE 0)
    /\ \A k \in 1..n : TextsUpTo(p, k) = TextsUpTo(q, k)
    /\ TextsUpTo(p, n + 1) = TextsOf(p)

LEMMA JoinedOne ==
    ASSUME NEW q \in Seq(Posted), NEW e \in Posted, NEW n \in Nat, n = Len(q),
           NEW p, p = q \o <<e>>
    PROVE  OneMore(q, p, e, n)
<1>1. PICK r \in Seq(Posted) :
        /\ r = <<e>> /\ Len(r) = 1 /\ r[1] = e
        /\ TokensOf(r) = (IF e.kind = "update" THEN e.usage ELSE 0)
        /\ TextsOf(r) = (IF e.kind = "update" /\ e.text # 0 THEN 1 ELSE 0)
        /\ TextsUpTo(r, 1) = TextsOf(r)
  BY OneMessage
<1>2. p = q \o r /\ 1 \in 1..Len(r)
  BY <1>1
<1>3. /\ p \in Seq(Posted) /\ Len(p) = n + 1
      /\ \A k \in 1..(n + 1) : p[k] = IF k <= n THEN q[k] ELSE r[k - n]
  BY <1>1, <1>2, ConcatProperties
<1>4. DOMAIN q = 1..n /\ DOMAIN p = 1..(n + 1)
  BY <1>3, LenProperties
<1>5. (\A k \in 1..n : p[k] = q[k]) /\ p[n + 1] = e
  <2>1. ~(n + 1 <= n) /\ (n + 1) - n = 1 /\ n + 1 \in 1..(n + 1)
    OBVIOUS
  <2>2. \A k \in 1..n : k \in 1..(n + 1) /\ k <= n
    OBVIOUS
  <2> QED
    BY <1>1, <1>3, <2>1, <2>2
<1>6. InFlight(q) \subseteq 1..n
      /\ InFlight(p) = InFlight(q) \cup (IF e.kind = "update" THEN {n + 1} ELSE {})
  <2>1. 1..(n + 1) = (1..n) \cup {n + 1} /\ n + 1 \notin 1..n
    OBVIOUS
  <2> QED
    BY <1>4, <1>5, <2>1 DEF InFlight
<1>7. TokensOf(q) \in Int /\ TokensOf(p) = TokensOf(q) + TokensOf(r)
  BY <1>2, TokensJoined
<1>8. /\ TextsOf(q) \in Int /\ TextsOf(p) = TextsOf(q) + TextsOf(r)
      /\ \A k \in 1..n : TextsUpTo(p, k) = TextsUpTo(q, k)
      /\ TextsUpTo(p, n + 1) = TextsOf(q) + TextsUpTo(r, 1)
  <2>1. /\ TextsOf(q) \in Int /\ TextsOf(q \o r) = TextsOf(q) + TextsOf(r)
        /\ \A k \in 1..Len(q) : TextsUpTo(q \o r, k) = TextsUpTo(q, k)
        /\ \A k \in 1..Len(r) : TextsUpTo(q \o r, Len(q) + k) = TextsOf(q) + TextsUpTo(r, k)
    BY TextsJoined
  <2> QED
    BY <1>2, <2>1
<1> QED
  BY <1>1, <1>3, <1>4, <1>5, <1>6, <1>7, <1>8 DEF OneMore

LEMMA KeptExit ==
    ASSUME NEW s, NEW a, NEW q \in Seq(Posted), NEW e \in Posted, e.kind = "exit", Kept(s, a, q)
    PROVE  Kept(s, a, q \o <<e>>)
<1>1. PICK n \in Nat : n = Len(q)
  BY LenProperties
<1>2. PICK p : p = q \o <<e>>
  OBVIOUS
<1>3. /\ \A k \in 1..n : p[k] = q[k]
      /\ InFlight(q) \subseteq 1..n /\ InFlight(p) = InFlight(q) \cup {}
      /\ TokensOf(q) \in Int /\ TokensOf(p) = TokensOf(q) + 0
      /\ TextsOf(q) \in Int /\ TextsOf(p) = TextsOf(q) + 0
      /\ \A k \in 1..n : TextsUpTo(p, k) = TextsUpTo(q, k)
  <2>1. OneMore(q, p, e, n)
    BY <1>1, <1>2, JoinedOne
  <2> QED
    BY <2>1 DEF OneMore
<1>4. InFlight(p) = InFlight(q) /\ TokensOf(p) = TokensOf(q) /\ TextsOf(p) = TextsOf(q)
  BY <1>3
<1>5. \A k \in InFlight(q) : p[k] = q[k] /\ TextsUpTo(p, k) = TextsUpTo(q, k)
  BY <1>3
<1>6. TextsKept(s, a, p)
  BY <1>4, <1>5 DEF Kept, TextsKept
<1>7. LatestKept(s, a, p)
  BY <1>4, <1>5 DEF Kept, LatestKept, IsLast
<1> QED
  BY <1>2, <1>4, <1>6, <1>7 DEF Kept

\* An update that says how the goroutine stands after it.
LEMMA KeptUpdate ==
    ASSUME NEW s \in Session, NEW a \in Agent, NEW b \in Agent, NEW q \in Seq(Posted),
           NEW e \in Posted, e.kind = "update", Kept(s, a, q),
           e.sid = b.sid, e.at = b.lastAt, e.turn = b.turn, b.turn = a.turn, b.run = a.run,
           b.spent = a.spent + e.usage, b.said = a.said + (IF e.text = 0 THEN 0 ELSE 1),
           e.text # 0 => e.text = b.said,
           a.sid # Pending => b.sid # Pending, b.started => b.sid = <<b.run, b.turn>>
    PROVE  Kept(s, b, q \o <<e>>)
<1>1. PICK n \in Nat : n = Len(q)
  BY LenProperties
<1> DEFINE t == IF e.text = 0 THEN 0 ELSE 1
<1>2. PICK p : p = q \o <<e>>
  OBVIOUS
<1>3. /\ \A k \in 1..n : p[k] = q[k]
      /\ p[n + 1] = e
      /\ InFlight(q) \subseteq 1..n /\ InFlight(p) = InFlight(q) \cup {n + 1}
      /\ TokensOf(q) \in Int /\ TokensOf(p) = TokensOf(q) + e.usage
      /\ TextsOf(q) \in Int /\ TextsOf(p) = TextsOf(q) + t
      /\ \A k \in 1..n : TextsUpTo(p, k) = TextsUpTo(q, k)
      /\ TextsUpTo(p, n + 1) = TextsOf(p)
  <2>1. OneMore(q, p, e, n)
    BY <1>1, <1>2, JoinedOne
  <2> QED
    BY <2>1 DEF OneMore
<1>4. n + 1 \in InFlight(p)
  BY <1>3
<1>5. \A k \in InFlight(p) :
        k = n + 1 \/ (k \in InFlight(q) /\ p[k] = q[k] /\ TextsUpTo(p, k) = TextsUpTo(q, k))
  BY <1>3
<1>6. e.usage \in Nat /\ e.text \in Nat /\ s.tokens \in Nat /\ a.spent \in Nat /\ a.said \in Nat
      /\ a.turn \in Nat /\ s.turn \in Nat
  BY DEF Posted, Session, Agent
<1>7. s.tokens + TokensOf(p) = b.spent
  <2>1. s.tokens + TokensOf(q) = a.spent /\ b.spent = a.spent + e.usage
    BY DEF Kept
  <2> QED
    BY <1>3, <1>6, <2>1
<1>9. TextsKept(s, b, p)
  <2>1. b.said - TextsOf(p) = a.said - TextsOf(q)
    BY <1>3, <1>6
  <2>2. PICK seen \in Nat : seen = a.said - TextsOf(q)
    BY DEF Kept, TextsKept
  <2>3. ASSUME NEW k \in InFlight(p), p[k].text # 0 PROVE p[k].text = seen + TextsUpTo(p, k)
    <3>1. CASE k = n + 1
      <4>1. p[k].text = a.said + 1 /\ t = 1
        BY <1>3, <2>3, <3>1
      <4> QED
        BY <1>3, <1>6, <2>2, <3>1, <4>1
    <3>2. CASE k \in InFlight(q) /\ p[k] = q[k] /\ TextsUpTo(p, k) = TextsUpTo(q, k)
      <4>1. q[k].text = seen + TextsUpTo(q, k)
        BY <2>2, <2>3, <3>2 DEF Kept, TextsKept
      <4> QED
        BY <3>2, <4>1
    <3> QED
      BY <1>5, <3>1, <3>2
  <2> QED
    BY <2>1, <2>2, <2>3 DEF Kept, TextsKept
<1>10. LatestKept(s, b, p)
  <2>1. ASSUME NEW k \in InFlight(p), IsLast(p, k) PROVE p[k] = e
    <3>1. n + 1 <= k
      BY <1>4, <2>1 DEF IsLast
    <3>2. k \notin 1..n
      BY <3>1
    <3> QED
      BY <1>3, <1>5, <3>2
  <2>2. \A k \in InFlight(p) : (p[k].sid # Pending => b.sid # Pending) /\ p[k].turn <= b.turn
    <3>1. ASSUME NEW k \in InFlight(q)
          PROVE  (q[k].sid # Pending => b.sid # Pending) /\ q[k].turn <= b.turn
      BY DEF Kept, LatestKept
    <3>2. e.turn <= b.turn
      BY <1>6
    <3> QED
      BY <1>3, <1>5, <3>1, <3>2
  <2>3. InFlight(p) # {}
    BY <1>4
  <2>4. (s.sid # Pending => b.sid # Pending) /\ s.turn <= b.turn /\ b.run > 0
    BY DEF Kept, LatestKept
  <2> QED
    BY <2>1, <2>2, <2>3, <2>4 DEF LatestKept
<1> QED
  BY <1>2, <1>7, <1>9, <1>10 DEF Kept

\* The oldest message, and the rest.
OneLess(p, e, r, m) ==
    /\ DOMAIN r = 1..m /\ p[1] = e /\ InFlight(r) \subseteq 1..m
    /\ \A k \in 1..m : p[k + 1] = r[k] /\ (k + 1 \in InFlight(p) <=> k \in InFlight(r))
    /\ 1 \in InFlight(p) <=> e.kind = "update"
    /\ \A k \in InFlight(p) : k = 1 \/ (k - 1 \in InFlight(r) /\ k = (k - 1) + 1)
    /\ TokensOf(r) \in Int
    /\ TokensOf(p) = (IF e.kind = "update" THEN e.usage ELSE 0) + TokensOf(r)
    /\ TextsOf(r) \in Int
    /\ TextsOf(p) = (IF e.kind = "update" /\ e.text # 0 THEN 1 ELSE 0) + TextsOf(r)
    /\ \A k \in 1..m :
         /\ TextsUpTo(r, k) \in Int
         /\ TextsUpTo(p, k + 1) =
              (IF e.kind = "update" /\ e.text # 0 THEN 1 ELSE 0) + TextsUpTo(r, k)
    /\ TextsUpTo(p, 1) = IF e.kind = "update" /\ e.text # 0 THEN 1 ELSE 0

LEMMA PartedOne ==
    ASSUME NEW e \in Posted, NEW r \in Seq(Posted), NEW m \in Nat, m = Len(r),
           NEW p, p = <<e>> \o r
    PROVE  OneLess(p, e, r, m)
<1>1. PICK q \in Seq(Posted) :
        /\ q = <<e>> /\ Len(q) = 1 /\ q[1] = e
        /\ InFlight(q) = (IF e.kind = "update" THEN {1} ELSE {})
        /\ TokensOf(q) = (IF e.kind = "update" THEN e.usage ELSE 0)
        /\ TextsOf(q) = (IF e.kind = "update" /\ e.text # 0 THEN 1 ELSE 0)
        /\ TextsUpTo(q, 1) = TextsOf(q)
  BY OneMessage
<1>2. p = q \o r
  BY <1>1
<1>3. /\ DOMAIN r = 1..m /\ DOMAIN p = 1..(1 + m)
      /\ \A k \in 1..1 : p[k] = q[k] /\ (k \in InFlight(p) <=> k \in InFlight(q))
      /\ \A k \in 1..m : p[1 + k] = r[k] /\ (1 + k \in InFlight(p) <=> k \in InFlight(r))
  <2>1. PICK n \in Nat : n = Len(q)
    BY LenProperties
  <2>2. /\ DOMAIN r = 1..Len(r) /\ DOMAIN (q \o r) = 1..(n + Len(r))
        /\ \A k \in 1..n : (q \o r)[k] = q[k] /\ (k \in InFlight(q \o r) <=> k \in InFlight(q))
        /\ \A k \in 1..Len(r) :
             (q \o r)[n + k] = r[k] /\ (n + k \in InFlight(q \o r) <=> k \in InFlight(r))
    BY <2>1, Joined
  <2>3. n = 1
    BY <1>1, <2>1
  <2> QED
    BY <1>2, <2>2, <2>3
<1>4. InFlight(r) \subseteq 1..m /\ InFlight(p) \subseteq 1..(1 + m)
  BY <1>3 DEF InFlight
<1>5. /\ \A k \in 1..m : p[k + 1] = r[k] /\ (k + 1 \in InFlight(p) <=> k \in InFlight(r))
      /\ p[1] = e /\ (1 \in InFlight(p) <=> e.kind = "update")
  <2>1. \A k \in 1..m : 1 + k = k + 1
    OBVIOUS
  <2>2. 1 \in 1..1
    OBVIOUS
  <2> QED
    BY <1>1, <1>3, <2>1, <2>2
<1>6. \A k \in InFlight(p) : k = 1 \/ (k - 1 \in InFlight(r) /\ k = (k - 1) + 1)
  <2>1. \A k \in 1..(1 + m) : k = 1 \/ (k - 1 \in 1..m /\ k = (k - 1) + 1)
    OBVIOUS
  <2> QED
    BY <1>4, <1>5, <2>1
<1>7. TokensOf(r) \in Int /\ TokensOf(p) = TokensOf(q) + TokensOf(r)
  BY <1>2, TokensJoined
<1>8. /\ TextsOf(r) \in Int /\ TextsOf(p) = TextsOf(q) + TextsOf(r)
      /\ TextsUpTo(p, 1) = TextsUpTo(q, 1)
      /\ \A k \in 1..m :
           TextsUpTo(r, k) \in Int /\ TextsUpTo(p, 1 + k) = TextsOf(q) + TextsUpTo(r, k)
  <2>1. /\ TextsOf(r) \in Int /\ TextsOf(q \o r) = TextsOf(q) + TextsOf(r)
        /\ \A k \in 1..Len(q) : TextsUpTo(q \o r, k) = TextsUpTo(q, k)
        /\ \A k \in 1..Len(r) :
             TextsUpTo(q \o r, Len(q) + k) = TextsOf(q) + TextsUpTo(r, k) /\ TextsUpTo(r, k) \in Int
    BY TextsJoined
  <2>2. 1 \in 1..Len(q)
    BY <1>1
  <2> QED
    BY <1>1, <1>2, <2>1, <2>2
<1>9. \A k \in 1..m : TextsUpTo(p, k + 1) = TextsOf(q) + TextsUpTo(r, k)
  <2>1. \A k \in 1..m : 1 + k = k + 1
    OBVIOUS
  <2> QED
    BY <1>8, <2>1
<1> QED
  BY <1>1, <1>3, <1>4, <1>5, <1>6, <1>7, <1>8, <1>9 DEF OneLess

\* The newest texts of a run, without a gap, however many there were.
LEMMA WindowMoves ==
    ASSUME NEW seen \in Nat, NEW hist, NEW shown, NEW next,
           shown = (IF seen < Window THEN seen ELSE Window),
           next = (IF seen + 1 < Window THEN seen + 1 ELSE Window),
           hist = [k \in 1..shown |-> seen - shown + k]
    PROVE  AppendActivity(hist, seen + 1) = [k \in 1..next |-> (seen + 1) - next + k]
<1>1. Window \in Nat /\ Window > 0 /\ shown \in Nat /\ next \in Nat
  BY SessionsAssumption
<1>2. hist \in Seq(Int) /\ Len(hist) = shown
  BY <1>1
<1>3. PICK longer \in Seq(Int) :
        /\ longer = Append(hist, seen + 1) /\ Len(longer) = shown + 1
        /\ longer[shown + 1] = seen + 1 /\ \A k \in 1..shown : longer[k] = seen - shown + k
  <2>1. /\ Append(hist, seen + 1) \in Seq(Int) /\ Len(Append(hist, seen + 1)) = shown + 1
        /\ Append(hist, seen + 1)[shown + 1] = seen + 1
        /\ \A k \in 1..shown : Append(hist, seen + 1)[k] = hist[k]
    BY <1>2, AppendProperties
  <2> QED
    BY <2>1
<1>4. \A k \in 1..(shown + 1) : longer[k] = seen - shown + k
  <2>1. \A k \in 1..(shown + 1) : k \in 1..shown \/ k = shown + 1
    BY <1>1
  <2>2. seen + 1 = seen - shown + (shown + 1)
    BY <1>1
  <2> QED
    BY <1>3, <2>1, <2>2
<1>5. longer \in [1..(shown + 1) -> Int]
  BY <1>1, <1>3, LenProperties
<1>6. CASE seen < Window
  <2>1. shown = seen /\ next = seen + 1 /\ ~(shown + 1 > Window)
    BY <1>1, <1>6
  <2>2. AppendActivity(hist, seen + 1) = longer
    BY <1>3, <2>1 DEF AppendActivity
  <2>3. longer = [k \in 1..next |-> (seen + 1) - next + k]
    <3>1. \A k \in 1..next : longer[k] = (seen + 1) - next + k
      BY <1>4, <2>1
    <3> QED
      BY <1>5, <2>1, <3>1
  <2> QED
    BY <2>2, <2>3
<1>7. CASE ~(seen < Window)
  <2>1. shown = Window /\ next = Window /\ shown + 1 > Window
    BY <1>1, <1>7
  <2>2. AppendActivity(hist, seen + 1) = Tail(longer)
    BY <1>3, <2>1 DEF AppendActivity
  <2>3. longer # <<>>
    BY <1>1, <1>3
  <2>4. /\ Tail(longer) \in [1..next -> Int]
        /\ \A k \in 1..next : Tail(longer)[k] = longer[k + 1]
    <3>1. /\ Tail(longer) \in Seq(Int) /\ Len(Tail(longer)) = Len(longer) - 1
          /\ \A k \in 1..Len(Tail(longer)) : Tail(longer)[k] = longer[k + 1]
      BY <2>3, HeadTailProperties
    <3>2. Len(Tail(longer)) = next
      BY <1>1, <1>3, <2>1, <3>1
    <3> QED
      BY <3>1, <3>2, LenProperties
  <2>5. \A k \in 1..next : Tail(longer)[k] = (seen + 1) - next + k
    <3>1. \A k \in 1..next : k + 1 \in 1..(shown + 1) /\ seen - shown + (k + 1) = (seen + 1) - next + k
      BY <1>1, <2>1
    <3> QED
      BY <1>4, <2>4, <3>1
  <2> QED
    BY <2>2, <2>4, <2>5
<1> QED
  BY <1>6, <1>7

\* onAgentUpdate on a session.
Updated(s, e) ==
    [s EXCEPT !.lastAt = e.at,
              !.sid = IF e.sid = Pending THEN @ ELSE e.sid,
              !.turn = IF e.turn > @ THEN e.turn ELSE @,
              !.tokens = @ + e.usage,
              !.activity = IF e.text = 0 THEN @ ELSE AppendActivity(@, e.text)]

LEMMA UpdatedType ==
    ASSUME NEW s \in Session, NEW e \in Posted, e.kind = "update"
    PROVE  /\ Updated(s, e) \in Session
           /\ Updated(s, e).lastAt = e.at
           /\ Updated(s, e).sid = (IF e.sid = Pending THEN s.sid ELSE e.sid)
           /\ Updated(s, e).turn = (IF e.turn > s.turn THEN e.turn ELSE s.turn)
           /\ Updated(s, e).tokens = s.tokens + e.usage
           /\ Updated(s, e).activity =
                (IF e.text = 0 THEN s.activity ELSE AppendActivity(s.activity, e.text))
           /\ Updated(s, e).startedAt = s.startedAt
           /\ Updated(s, e).terminating = s.terminating
<1>1. e.at \in Nat /\ e.sid \in Sid /\ e.turn \in Nat /\ e.usage \in Nat /\ e.text \in Nat
  BY DEF Posted
<1>2. /\ s.sid \in Sid /\ s.turn \in Nat /\ s.tokens \in Nat /\ s.activity \in Seq(Nat)
      /\ s.startedAt \in Nat /\ s.terminating \in BOOLEAN
      /\ s = [sid |-> s.sid, turn |-> s.turn, tokens |-> s.tokens, activity |-> s.activity,
              lastAt |-> s.lastAt, startedAt |-> s.startedAt, terminating |-> s.terminating]
  BY DEF Session
<1>3. AppendActivity(s.activity, e.text) \in Seq(Nat)
  <2>1. Append(s.activity, e.text) \in Seq(Nat) /\ Append(s.activity, e.text) # <<>>
    BY <1>1, <1>2, AppendProperties
  <2>2. Tail(Append(s.activity, e.text)) \in Seq(Nat)
    BY <2>1, HeadTailProperties
  <2> QED
    BY <2>1, <2>2 DEF AppendActivity
<1>4. PICK h \in Seq(Nat) : h = IF e.text = 0 THEN s.activity ELSE AppendActivity(s.activity, e.text)
  BY <1>2, <1>3
<1>5. PICK tokens \in Nat : tokens = s.tokens + e.usage
  BY <1>1, <1>2
<1>6. Updated(s, e) =
        [s EXCEPT !.lastAt = e.at, !.sid = IF e.sid = Pending THEN @ ELSE e.sid,
                  !.turn = IF e.turn > @ THEN e.turn ELSE @, !.tokens = tokens, !.activity = h]
  BY <1>4, <1>5 DEF Updated
<1>7. Updated(s, e) =
        [sid |-> IF e.sid = Pending THEN s.sid ELSE e.sid,
         turn |-> IF e.turn > s.turn THEN e.turn ELSE s.turn, tokens |-> tokens, activity |-> h,
         lastAt |-> e.at, startedAt |-> s.startedAt, terminating |-> s.terminating]
  BY <1>2, <1>6
<1> QED
  BY <1>1, <1>2, <1>4, <1>5, <1>7 DEF Session

\* Whatever the loop takes, the session and the rest of the queue add up.
LEMMA KeptTaken ==
    ASSUME NEW s \in Session, NEW a \in Agent, NEW r \in Seq(Posted), NEW e \in Posted,
           e.kind = "update", Kept(s, a, <<e>> \o r)
    PROVE  Kept(Updated(s, e), a, r)
<1>1. PICK m \in Nat : m = Len(r)
  BY LenProperties
<1>2. PICK p : p = <<e>> \o r
  OBVIOUS
<1> DEFINE t == IF e.text = 0 THEN 0 ELSE 1
<1>3. /\ DOMAIN r = 1..m /\ p[1] = e /\ InFlight(r) \subseteq 1..m
      /\ \A k \in 1..m : p[k + 1] = r[k] /\ (k + 1 \in InFlight(p) <=> k \in InFlight(r))
      /\ 1 \in InFlight(p)
      /\ \A k \in InFlight(p) : k = 1 \/ (k - 1 \in InFlight(r) /\ k = (k - 1) + 1)
      /\ TokensOf(r) \in Int /\ TokensOf(p) = e.usage + TokensOf(r)
      /\ TextsOf(r) \in Int /\ TextsOf(p) = t + TextsOf(r)
      /\ \A k \in 1..m : TextsUpTo(r, k) \in Int /\ TextsUpTo(p, k + 1) = t + TextsUpTo(r, k)
      /\ TextsUpTo(p, 1) = t
  <2>1. OneLess(p, e, r, m)
    BY <1>1, <1>2, PartedOne
  <2> QED
    BY <2>1 DEF OneLess
<1>4. PICK u : u = Updated(s, e)
  OBVIOUS
<1>5. /\ u.lastAt = e.at /\ u.sid = (IF e.sid = Pending THEN s.sid ELSE e.sid)
      /\ u.turn = (IF e.turn > s.turn THEN e.turn ELSE s.turn) /\ u.tokens = s.tokens + e.usage
      /\ u.activity = (IF e.text = 0 THEN s.activity ELSE AppendActivity(s.activity, e.text))
  BY <1>4, UpdatedType
<1>6. /\ e.usage \in Nat /\ e.text \in Nat /\ e.at \in Nat /\ e.turn \in Nat
      /\ s.tokens \in Nat /\ s.turn \in Nat /\ a.said \in Nat /\ a.turn \in Nat
  BY DEF Posted, Session, Agent
<1>7. s.tokens + TokensOf(p) = a.spent /\ TextsKept(s, a, p) /\ LatestKept(s, a, p)
  BY <1>2 DEF Kept
<1>8. u.tokens + TokensOf(r) = a.spent
  BY <1>3, <1>5, <1>6, <1>7
<1>9. TextsKept(u, a, r)
  <2>1. PICK seen \in Nat : seen = a.said - TextsOf(p)
    BY <1>7 DEF TextsKept
  <2>2. PICK shown : shown = IF seen < Window THEN seen ELSE Window
    OBVIOUS
  <2>3. /\ s.activity = [k \in 1..shown |-> seen - shown + k]
        /\ \A k \in InFlight(p) : p[k].text # 0 => p[k].text = seen + TextsUpTo(p, k)
    BY <1>7, <2>1, <2>2 DEF TextsKept
  <2>4. PICK later \in Nat : later = seen + t
    OBVIOUS
  <2>5. a.said - TextsOf(r) = later
    BY <1>3, <1>6, <2>1, <2>4
  <2>6. PICK next : next = IF later < Window THEN later ELSE Window
    OBVIOUS
  <2>7. u.activity = [k \in 1..next |-> later - next + k]
    <3>1. CASE e.text = 0
      <4>1. later = seen /\ next = shown /\ u.activity = s.activity
        BY <1>5, <2>2, <2>4, <2>6, <3>1
      <4> QED
        BY <2>3, <4>1
    <3>2. CASE e.text # 0
      <4>1. later = seen + 1 /\ e.text = seen + 1
        BY <1>3, <2>3, <2>4, <3>2
      <4>2. u.activity = AppendActivity(s.activity, seen + 1)
        BY <1>5, <3>2, <4>1
      <4>3. AppendActivity(s.activity, seen + 1) = [k \in 1..next |-> (seen + 1) - next + k]
        BY <2>2, <2>3, <2>6, <4>1, WindowMoves
      <4> QED
        BY <4>1, <4>2, <4>3
    <3> QED
      BY <3>1, <3>2
  <2>8. ASSUME NEW k \in InFlight(r), r[k].text # 0 PROVE r[k].text = later + TextsUpTo(r, k)
    <3>1. k \in 1..m
      BY <1>3
    <3>2. p[k + 1] = r[k] /\ k + 1 \in InFlight(p) /\ TextsUpTo(p, k + 1) = t + TextsUpTo(r, k)
          /\ TextsUpTo(r, k) \in Int
      BY <1>3, <3>1
    <3>3. r[k].text = seen + (t + TextsUpTo(r, k))
      BY <2>3, <2>8, <3>2
    <3> QED
      BY <2>4, <3>2, <3>3
  <2> HIDE DEF t
  <2> QED
    BY <2>5, <2>6, <2>7, <2>8 DEF TextsKept
<1>10. LatestKept(u, a, r)
  <2>1. ASSUME NEW k \in InFlight(r)
        PROVE  /\ r[k].sid # Pending => a.sid # Pending
               /\ r[k].turn <= a.turn
               /\ IsLast(r, k) => /\ r[k].sid = a.sid /\ r[k].at = a.lastAt
                                  /\ a.place = "ready" => r[k].turn = a.turn
    <3>1. k \in 1..m /\ p[k + 1] = r[k] /\ k + 1 \in InFlight(p)
      BY <1>3
    <3>2. IsLast(r, k) => IsLast(p, k + 1)
      <4> SUFFICES ASSUME IsLast(r, k), NEW j \in InFlight(p) PROVE j <= k + 1
        BY <3>1 DEF IsLast
      <4>1. CASE j = 1
        BY <3>1, <4>1
      <4>2. CASE j - 1 \in InFlight(r) /\ j = (j - 1) + 1
        <5>1. j - 1 <= k /\ j - 1 \in 1..m
          BY <1>3, <4>2 DEF IsLast
        <5>2. PICK h \in Int : h = j - 1
          BY <5>1
        <5> QED
          BY <3>1, <4>2, <5>1, <5>2
      <4> QED
        BY <1>3, <4>1, <4>2
    <3> QED
      BY <1>7, <3>1, <3>2 DEF LatestKept
  <2>2. (e.sid # Pending => a.sid # Pending) /\ e.turn <= a.turn
    BY <1>3, <1>7 DEF LatestKept
  <2>3. (s.sid # Pending => a.sid # Pending) /\ s.turn <= a.turn
        /\ a.run > 0 /\ (a.started => a.sid = <<a.run, a.turn>>)
    BY <1>7 DEF LatestKept
  <2>4. (u.sid # Pending => a.sid # Pending) /\ u.turn <= a.turn
    BY <1>5, <2>2, <2>3
  <2>5. ASSUME InFlight(r) = {}
        PROVE  /\ u.sid = a.sid /\ LastActivity(u) = a.lastAt
               /\ a.place = "ready" => u.turn = a.turn
    <3>1. IsLast(p, 1)
      BY <1>3, <2>5 DEF IsLast
    <3>2. e.sid = a.sid /\ e.at = a.lastAt /\ (a.place = "ready" => e.turn = a.turn)
      BY <1>3, <1>7, <3>1 DEF LatestKept
    <3>3. LastActivity(u) = a.lastAt
      BY <1>5, <1>6, <3>2 DEF LastActivity
    <3>4. u.sid = a.sid
      BY <1>5, <2>3, <3>2
    <3>5. a.place = "ready" => u.turn = a.turn
      BY <1>5, <1>6, <2>3, <3>2
    <3> QED
      BY <3>3, <3>4, <3>5
  <2> QED
    BY <2>1, <2>3, <2>4, <2>5 DEF LatestKept
<1> QED
  BY <1>4, <1>8, <1>9, <1>10 DEF Kept

-----------------------------------------------------------------------------
(* What is on the way of an issue, step by step *)

LEMMA WayOf ==
    ASSUME NEW i \in Issues, NEW es \in Seq(Event), NEW out \in Seq(Mine(i))
    PROVE  /\ OfIssue(i, es \o out) = OfIssue(i, es) \o out
           /\ OfIssue(i, es) \in Seq(Mine(i)) /\ OfIssue(i, es) \o out \in Seq(Mine(i))
<1>1. out \in Seq(Event)
  <2>1. Mine(i) \subseteq Event
    BY DEF Mine, Event
  <2> QED
    BY <2>1, SeqMonotonic
<1>2. OfIssue(i, es \o out) = OfIssue(i, es) \o OfIssue(i, out)
  BY <1>1, OfIssueConcat
<1>3. OfIssue(i, es) \in Seq(Mine(i))
  BY OfIssueType
<1>4. OfIssue(i, es) \o out \in Seq(Mine(i))
  BY <1>3, ConcatProperties
<1> QED
  BY <1>2, <1>3, <1>4, OfIssueOwn

LEMMA MineIsPosted ==
    ASSUME NEW i \in Issues, NEW q \in Seq(Mine(i))
    PROVE  q \in Seq(Posted)
<1>1. Mine(i) \subseteq Posted
  BY DEF Mine
<1> QED
  BY <1>1, SeqMonotonic

LEMMA WayIs ==
    ASSUME IInv, QueueInv, NEW i \in Issues
    PROVE  /\ OnTheWay(i) = OfIssue(i, events) \o Out(i)
           /\ OnTheWay(i) \in Seq(Posted) /\ OnTheWay(i) \in Seq(Mine(i))
           /\ OfIssue(i, events) \in Seq(Mine(i)) /\ Out(i) \in Seq(Mine(i))
<1>1. events \in Seq(Event) /\ Out(i) \in Seq(Mine(i))
  BY DEF IInv, TypeOK, QueueInv
<1>2. OnTheWay(i) = OfIssue(i, events \o Out(i))
  BY DEF OnTheWay, Out
<1> QED
  <2>1. /\ OfIssue(i, events \o Out(i)) = OfIssue(i, events) \o Out(i)
        /\ OfIssue(i, events) \in Seq(Mine(i)) /\ OfIssue(i, events) \o Out(i) \in Seq(Mine(i))
    BY <1>1, WayOf
  <2> QED
    BY <1>1, <1>2, <2>1, MineIsPosted

\* The same after a step, which the invariant is not yet known to survive.
LEMMA WayThen ==
    ASSUME NEW i \in Issues, events' \in Seq(Event), Out(i)' \in Seq(Mine(i))
    PROVE  /\ OnTheWay(i)' = OfIssue(i, events') \o Out(i)'
           /\ OnTheWay(i)' \in Seq(Posted)
<1>1. OnTheWay(i)' = OfIssue(i, events' \o Out(i)')
  BY DEF OnTheWay, Out
<1>2. PICK out \in Seq(Mine(i)) : out = Out(i)'
  OBVIOUS
<1>3. PICK es \in Seq(Event) : es = events'
  OBVIOUS
<1>4. OfIssue(i, es \o out) = OfIssue(i, es) \o out /\ OfIssue(i, es) \o out \in Seq(Mine(i))
  BY WayOf
<1> QED
  BY <1>1, <1>2, <1>3, <1>4, MineIsPosted

\* A goroutine that stays as it is while the channel keeps its messages.
LEMMA WaySame ==
    ASSUME IInv, QueueInv, NEW i \in Issues, events' \in Seq(Event),
           agent'[i] = agent[i], OfIssue(i, events') = OfIssue(i, events)
    PROVE  OnTheWay(i)' = OnTheWay(i) /\ Out(i)' = Out(i)
<1>1. Out(i)' = Out(i)
  BY DEF Out
<1>2. Out(i) \in Seq(Mine(i))
  BY DEF QueueInv
<1>3. OnTheWay(i)' = OfIssue(i, events') \o Out(i)'
  BY <1>1, <1>2, WayThen
<1>4. OnTheWay(i) = OfIssue(i, events) \o Out(i)
  BY WayIs
<1> QED
  BY <1>1, <1>3, <1>4

\* Ticks and requests are nobody's messages.
LEMMA WayOthers ==
    ASSUME NEW i \in Issues, NEW q \in Seq(Event), NEW e \in Event, e.kind \in {"tick", "snapshot"}
    PROVE  OfIssue(i, Append(q, e)) = OfIssue(i, q)
<1>1. e \notin Mine(i)
  BY MineIs
<1> QED
  BY <1>1, OfIssueAdded

IsJoin(p, q, r, n, m) ==
    /\ n = Len(q) /\ m = Len(r) /\ Len(p) = n + m /\ p \in Seq(Posted)
    /\ DOMAIN p = 1..(n + m) /\ DOMAIN q = 1..n /\ DOMAIN r = 1..m
    /\ \A k \in 1..n : p[k] = q[k]
    /\ \A k \in 1..m : p[n + k] = r[k]
    /\ \A k \in 1..(n + m) : k \in 1..n \/ (k - n \in 1..m /\ n + (k - n) = k)

LEMMA JoinIs ==
    ASSUME NEW q \in Seq(Posted), NEW r \in Seq(Posted), NEW p, p = q \o r
    PROVE  \E n, m \in Nat : IsJoin(p, q, r, n, m)
<1>1. PICK n \in Nat, m \in Nat : n = Len(q) /\ m = Len(r)
  BY LenProperties
<1>2. /\ p \in Seq(Posted) /\ Len(p) = n + m
      /\ \A k \in 1..(n + m) : p[k] = IF k <= n THEN q[k] ELSE r[k - n]
  BY <1>1, ConcatProperties
<1>3. DOMAIN p = 1..(n + m) /\ DOMAIN q = 1..n /\ DOMAIN r = 1..m
  BY <1>1, <1>2, LenProperties
<1>4. \A k \in 1..m : n + k \in 1..(n + m) /\ ~(n + k <= n) /\ (n + k) - n = k
  OBVIOUS
<1>5. \A k \in 1..(n + m) : k \in 1..n \/ (k - n \in 1..m /\ n + (k - n) = k)
  OBVIOUS
<1>6. \A k \in 1..n : k \in 1..(n + m) /\ k <= n
  OBVIOUS
<1>7. (\A k \in 1..n : p[k] = q[k]) /\ (\A k \in 1..m : p[n + k] = r[k])
  BY <1>2, <1>4, <1>6
<1>8. IsJoin(p, q, r, n, m)
  BY <1>1, <1>2, <1>3, <1>5, <1>7 DEF IsJoin
<1> QED
  BY <1>8

LEMMA QueuedLonger ==
    ASSUME NEW s, NEW a, NEW b \in Agent, NEW q \in Seq(Posted), NEW out \in Seq(Posted),
           Queued(s, a, q), s # NoSession, a.place # "done",
           \A k \in 1..Len(out) : out[k].kind = "exit" => k = Len(out) /\ b.place = "done"
    PROVE  Queued(s, b, q \o out)
<1>1. PICK p : p = q \o out
  OBVIOUS
<1>2. PICK n \in Nat, m \in Nat : IsJoin(p, q, out, n, m)
  BY <1>1, JoinIs
<1>3. ASSUME NEW k \in 1..(n + m), p[k].kind = "exit"
      PROVE  k = n + m /\ b.place = "done"
  <2>1. CASE k \in 1..n
    <3>1. q[k].kind = "exit" /\ k \in DOMAIN q
      BY <1>2, <1>3, <2>1 DEF IsJoin
    <3> QED
      BY <3>1 DEF Queued
  <2>2. CASE k - n \in 1..m /\ n + (k - n) = k
    <3>1. out[k - n].kind = "exit" /\ m = Len(out)
      BY <1>2, <1>3, <2>2 DEF IsJoin
    <3>2. k - n = m /\ b.place = "done"
      BY <2>2, <3>1
    <3> QED
      BY <2>2, <3>2
  <2> QED
    BY <1>2, <2>1, <2>2 DEF IsJoin
<1> QED
  BY <1>1, <1>2, <1>3 DEF Queued, IsJoin

\* The oldest message has been taken, and r is left.
Shorter(s, a, e, r) ==
    /\ s # NoSession /\ a \in Agent
    /\ e.kind = "exit" => r = <<>> /\ a.place = "done"
    /\ \A u : u # NoSession => Queued(u, a, r)

LEMMA QueuedShorter ==
    ASSUME NEW s, NEW a, NEW e \in Posted, NEW r \in Seq(Posted), Queued(s, a, <<e>> \o r)
    PROVE  Shorter(s, a, e, r)
<1>1. PICK p : p = <<e>> \o r
  OBVIOUS
<1>2. <<e>> \in Seq(Posted) /\ Len(<<e>>) = 1 /\ <<e>>[1] = e
  BY OneMessage
<1>3. PICK q \in Seq(Posted) : q = <<e>> /\ Len(q) = 1 /\ q[1] = e
  BY <1>2
<1>4. PICK n \in Nat, m \in Nat : IsJoin(p, q, r, n, m)
  BY <1>1, <1>3, JoinIs
<1>5. n = 1
  BY <1>3, <1>4 DEF IsJoin
<1>6. p[1] = e /\ 1 \in DOMAIN p /\ Len(p) = 1 + m
  BY <1>3, <1>4, <1>5 DEF IsJoin
<1>7. Queued(s, a, p)
  BY <1>1
<1>8. s # NoSession /\ a \in Agent
  <2>1. p # <<>>
    BY <1>6
  <2> QED
    BY <1>7, <2>1 DEF Queued
<1>9. e.kind = "exit" => m = 0 /\ a.place = "done"
  <2>1. e.kind = "exit" => 1 = Len(p) /\ a.place = "done"
    BY <1>6, <1>7 DEF Queued
  <2> QED
    BY <1>6, <2>1
<1>10. m = 0 => r = <<>>
  BY <1>4, EmptySeq DEF IsJoin
<1>11. ASSUME NEW k \in 1..m, r[k].kind = "exit" PROVE k = m /\ a.place = "done"
  <2>1. p[1 + k] = r[k] /\ 1 + k \in DOMAIN p
    BY <1>4, <1>5 DEF IsJoin
  <2>2. 1 + k = Len(p) /\ a.place = "done"
    BY <1>7, <1>11, <2>1 DEF Queued
  <2> QED
    BY <1>6, <2>2
<1>12. Len(r) = m /\ DOMAIN r = 1..m
  BY <1>4 DEF IsJoin
<1> QED
  BY <1>8, <1>9, <1>10, <1>11, <1>12 DEF Queued, Shorter

\* A message dropped when the daemon stops.
LEMMA QueuedDropped ==
    ASSUME NEW s, NEW a \in Agent, NEW b \in Agent, b.place = a.place,
           NEW q \in Seq(Posted), NEW out \in Seq(Posted), out # <<>>, Queued(s, a, q \o out)
    PROVE  s # NoSession /\ Queued(s, b, q \o Tail(out))
<1>1. PICK r \in Seq(Posted) : r = Tail(out)
  BY HeadTailProperties
<1>2. PICK p, d : p = q \o out /\ d = q \o r
  OBVIOUS
<1>3. PICK n \in Nat, l \in Nat : IsJoin(p, q, out, n, l)
  BY <1>2, JoinIs
<1>4. PICK n2 \in Nat, m \in Nat : IsJoin(d, q, r, n2, m)
  BY <1>2, JoinIs
<1>5. n2 = n /\ l = m + 1 /\ \A k \in 1..m : r[k] = out[k + 1]
  <2>1. Len(r) = Len(out) - 1 /\ \A k \in 1..Len(r) : r[k] = out[k + 1]
    BY <1>1, HeadTailProperties
  <2> QED
    BY <1>3, <1>4, <2>1 DEF IsJoin
<1>6. Queued(s, a, p)
  BY <1>2
<1>7. \A k \in 1..(n + l) : p[k].kind = "exit" => k = n + l /\ a.place = "done"
  BY <1>3, <1>6 DEF Queued, IsJoin
<1>8. s # NoSession
  <2>1. 1 \in DOMAIN p
    BY <1>3, <1>5 DEF IsJoin
  <2>2. p # <<>>
    BY <2>1
  <2> QED
    BY <1>6, <2>2 DEF Queued
<1>9. ASSUME NEW k \in 1..(n + m), d[k].kind = "exit" PROVE k = n + m /\ b.place = "done"
  <2>1. CASE k \in 1..n
    <3>1. p[k] = d[k]
      BY <1>3, <1>4, <1>5, <2>1 DEF IsJoin
    <3>2. k \in 1..(n + l) /\ k # n + l
      BY <1>5, <2>1
    <3> QED
      BY <1>7, <1>9, <3>1, <3>2
  <2>2. CASE k - n \in 1..m /\ n + (k - n) = k
    <3>1. d[k] = r[k - n] /\ r[k - n] = out[(k - n) + 1]
      BY <1>4, <1>5, <2>2 DEF IsJoin
    <3>2. (k - n) + 1 \in 1..l /\ n + ((k - n) + 1) = k + 1 /\ k + 1 \in 1..(n + l)
      BY <1>5, <2>2
    <3>3. p[k + 1] = out[(k - n) + 1]
      BY <1>3, <3>2 DEF IsJoin
    <3>4. k + 1 = n + l /\ a.place = "done"
      BY <1>7, <1>9, <3>1, <3>2, <3>3
    <3> QED
      BY <1>5, <3>4
  <2> QED
    BY <1>4, <1>5, <2>1, <2>2 DEF IsJoin
<1>10. Len(d) = n + m /\ DOMAIN d = 1..(n + m)
  BY <1>4, <1>5 DEF IsJoin
<1> QED
  BY <1>1, <1>2, <1>8, <1>9, <1>10 DEF Queued

-----------------------------------------------------------------------------
(* A goroutine goes on *)

\* It becomes b, with out to post.
Speaks(i, b, out) ==
    /\ agent[i] \in Agent /\ agent[i].out = <<>> /\ agent[i].place \in {"ready", "turn"}
    /\ b \in Agent /\ b.out = out /\ out \in Seq(Mine(i))
    /\ \A k \in 1..Len(out) : out[k].kind = "exit" => k = Len(out) /\ b.place = "done"
    /\ agent' = [agent EXCEPT ![i] = b]
    /\ reported' = reported + (b.spent - agent[i].spent)
    /\ UNCHANGED <<clock, runs, events, session, retrying, totals, rootCtx>>

\* What was kept before it is kept with what it has to post.
Reports(i, b, out) ==
    \A s \in Session : \A q \in Seq(Posted) : Kept(s, agent[i], q) => Kept(s, b, q \o out)

Stamped(a, out) == [a EXCEPT !.out = out, !.lastAt = IF out = <<>> THEN @ ELSE clock]

LEMMA StampedType ==
    ASSUME clock \in Nat, NEW a \in Agent, NEW out \in Seq(Posted)
    PROVE  /\ Stamped(a, out) \in Agent /\ Stamped(a, out).out = out
           /\ Stamped(a, out).lastAt = (IF out = <<>> THEN a.lastAt ELSE clock)
           /\ Stamped(a, out).place = a.place /\ Stamped(a, out).turn = a.turn
           /\ Stamped(a, out).run = a.run /\ Stamped(a, out).sid = a.sid
           /\ Stamped(a, out).started = a.started
           /\ Stamped(a, out).spent = a.spent /\ Stamped(a, out).said = a.said
BY DEF Stamped, Agent

LEMMA EmitsSpeaks ==
    ASSUME IInv, NEW i \in Issues, InTurn(i), NEW a \in Agent, NEW out \in Seq(Mine(i)),
           \A k \in 1..Len(out) : out[k].kind = "exit" => k = Len(out) /\ a.place = "done",
           Emits(i, a, out)
    PROVE  Speaks(i, Stamped(a, out), out)
<1>1. agent[i] \in Agent /\ agent[i].out = <<>> /\ agent[i].place \in {"ready", "turn"}
  <2>1. agent[i] \in Agent
    BY HasRun DEF InTurn, IInv
  <2> QED
    BY <2>1 DEF InTurn
<1>2. clock \in Nat /\ out \in Seq(Posted)
  BY MineIsPosted DEF IInv, TypeOK
<1>3. Stamped(a, out) \in Agent /\ Stamped(a, out).out = out
      /\ Stamped(a, out).place = a.place /\ Stamped(a, out).spent = a.spent
  BY <1>2, StampedType
<1>4. /\ agent' = [agent EXCEPT ![i] = Stamped(a, out)]
      /\ reported' = reported + (a.spent - agent[i].spent)
      /\ UNCHANGED <<clock, runs, events, session, retrying, totals, rootCtx>>
  BY DEF Emits, Stamped, runtime, daemon
<1> QED
  BY <1>1, <1>3, <1>4 DEF Speaks

LEMMA UpdateIs ==
    ASSUME clock \in Nat, NEW i \in Issues, NEW a \in Agent, NEW text \in Nat, NEW usage \in Nat
    PROVE  /\ Update(i, a, text, usage) \in Posted /\ Update(i, a, text, usage) \in Mine(i)
           /\ Update(i, a, text, usage).kind = "update"
           /\ Update(i, a, text, usage).sid = a.sid /\ Update(i, a, text, usage).turn = a.turn
           /\ Update(i, a, text, usage).text = text /\ Update(i, a, text, usage).usage = usage
           /\ Update(i, a, text, usage).at = clock
<1>1. Update(i, a, text, usage) \in Posted
  BY UpdateType
<1> QED
  BY <1>1 DEF Update, Mine

ExitOf(i) == [kind |-> "exit", issue |-> i]

LEMMA ExitIs ==
    ASSUME NEW i \in Issues
    PROVE  ExitOf(i) \in Posted /\ ExitOf(i) \in Mine(i) /\ ExitOf(i).kind = "exit"
BY DEF ExitOf, Posted, Mine

LEMMA WithIdIs ==
    ASSUME NEW i \in Issues, agent[i] \in Agent, NEW id \in BOOLEAN
    PROVE  /\ WithId(i, id).sid = (IF id THEN <<agent[i].run, agent[i].turn>> ELSE agent[i].sid)
           /\ WithId(i, id).started = (id \/ agent[i].started)
           /\ WithId(i, id).place = agent[i].place /\ WithId(i, id).turn = agent[i].turn
           /\ WithId(i, id).run = agent[i].run /\ WithId(i, id).out = agent[i].out
           /\ WithId(i, id).lastAt = agent[i].lastAt
           /\ WithId(i, id).spent = agent[i].spent /\ WithId(i, id).said = agent[i].said
BY DEF WithId, Agent

\* The first id of a turn is announced; a later one is the same.
LEMMA AnnouncedKept ==
    ASSUME IInv, NEW i \in Issues, agent[i] \in Agent, NEW id \in BOOLEAN,
           NEW s \in Session, NEW q \in Seq(Posted), Kept(s, agent[i], q),
           NEW b \in Agent, b.sid = WithId(i, id).sid, b.started = WithId(i, id).started,
           b.place = agent[i].place, b.turn = agent[i].turn, b.run = agent[i].run,
           b.spent = agent[i].spent, b.said = agent[i].said,
           b.lastAt = IF Announced(i, id) = <<>> THEN agent[i].lastAt ELSE clock
    PROVE  Kept(s, b, q \o Announced(i, id))
<1>1. clock \in Nat
  BY DEF IInv, TypeOK
<1>2. /\ agent[i].run > 0 /\ (agent[i].started => agent[i].sid = <<agent[i].run, agent[i].turn>>)
      /\ agent[i].run \in Nat /\ agent[i].turn \in Nat /\ agent[i].spent \in Nat
      /\ agent[i].said \in Nat /\ agent[i].started \in BOOLEAN
  BY DEF Kept, LatestKept, Agent
<1>3. /\ b.sid = (IF id THEN <<agent[i].run, agent[i].turn>> ELSE agent[i].sid)
      /\ b.started = (id \/ agent[i].started)
  BY WithIdIs
<1>4. CASE ~id \/ agent[i].started
  <2>1. Announced(i, id) = <<>>
    BY <1>4 DEF Announced
  <2>2. b.sid = agent[i].sid /\ (b.started => agent[i].started) /\ b.lastAt = agent[i].lastAt
    BY <1>2, <1>3, <1>4, <2>1
  <2>3. Kept(s, b, q)
    BY <2>2, KeptSame
  <2> QED
    BY <2>1, <2>3, ConcatEmptySeq
<1>5. CASE id /\ ~agent[i].started
  <2>1. WithId(i, id) \in Agent
    BY <1>1, WithIdType
  <2>2. PICK e \in Posted : e = Update(i, WithId(i, id), 0, 0)
    BY <1>1, <2>1, UpdateIs
  <2>3. /\ e.kind = "update" /\ e.sid = WithId(i, id).sid /\ e.turn = WithId(i, id).turn
        /\ e.text = 0 /\ e.usage = 0 /\ e.at = clock
    BY <1>1, <2>1, <2>2, UpdateIs
  <2>4. Announced(i, id) = <<e>> /\ <<e>> # <<>>
    BY <1>5, <2>2 DEF Announced
  <2>5. e.sid = b.sid /\ e.at = b.lastAt /\ e.turn = b.turn
    BY <2>3, <2>4, WithIdIs
  <2>6. b.sid # Pending /\ (b.started => b.sid = <<b.run, b.turn>>)
    BY <1>2, <1>3, <1>5 DEF Pending
  <2>7. b.spent = agent[i].spent + e.usage /\ b.said = agent[i].said + (IF e.text = 0 THEN 0 ELSE 1)
    BY <1>2, <2>3
  <2>8. Kept(s, b, q \o <<e>>)
    BY <2>3, <2>5, <2>6, <2>7, KeptUpdate
  <2> QED
    BY <2>4, <2>8
<1> QED
  BY <1>4, <1>5

LEMMA InTurnHasRun ==
    ASSUME IInv, NEW i \in Issues, InTurn(i)
    PROVE  clock \in Nat /\ agent[i] \in Agent /\ agent[i].spent \in Nat /\ agent[i].said \in Nat
<1>1. agent[i] \in Agent
  BY HasRun DEF InTurn, IInv
<1> QED
  BY <1>1 DEF Agent, IInv, TypeOK

LEMMA AnnouncedType ==
    ASSUME IInv, NEW i \in Issues, agent[i] \in Agent, NEW id \in BOOLEAN
    PROVE  /\ Announced(i, id) \in Seq(Mine(i)) /\ Announced(i, id) \in Seq(Posted)
           /\ \A k \in 1..Len(Announced(i, id)) : Announced(i, id)[k].kind = "update"
<1>1. clock \in Nat
  BY DEF IInv, TypeOK
<1>2. WithId(i, id) \in Agent
  BY <1>1, WithIdType
<1>3. PICK e : e = Update(i, WithId(i, id), 0, 0)
  OBVIOUS
<1>4. e \in Mine(i) /\ e.kind = "update"
  BY <1>1, <1>2, <1>3, UpdateIs
<1>5. Announced(i, id) = <<>> \/ Announced(i, id) = <<e>>
  BY <1>3 DEF Announced
<1>6. /\ <<>> \in Seq(Mine(i)) /\ <<e>> \in Seq(Mine(i)) /\ Len(<<>>) = 0
      /\ Len(<<e>>) = 1 /\ <<e>>[1] = e
  BY <1>4
<1>7. PICK out : out = Announced(i, id)
  OBVIOUS
<1>8. out \in Seq(Mine(i)) /\ \A k \in 1..Len(out) : out[k].kind = "update"
  <2>1. CASE out = <<>>
    BY <1>6, <2>1
  <2>2. CASE out = <<e>>
    BY <1>4, <1>6, <2>2
  <2> QED
    BY <1>5, <1>7, <2>1, <2>2
<1> QED
  BY <1>7, <1>8, MineIsPosted

LEMMA InitSpeaks ==
    ASSUME IInv, NEW i \in Issues, HandlesInit(i)
    PROVE  \E b, out : Speaks(i, b, out) /\ Reports(i, b, out)
<1>1. InTurn(i) /\ Emits(i, WithId(i, TRUE), Announced(i, TRUE))
  BY DEF HandlesInit
<1>2. clock \in Nat /\ agent[i] \in Agent
  BY <1>1, InTurnHasRun
<1>3. PICK out \in Seq(Mine(i)) : out = Announced(i, TRUE) /\ out \in Seq(Posted)
  BY <1>2, AnnouncedType
<1>4. \A k \in 1..Len(out) : out[k].kind # "exit"
  BY <1>2, <1>3, AnnouncedType
<1>5. PICK a \in Agent : a = WithId(i, TRUE)
  BY <1>2, WithIdType
<1>6. PICK b : b = Stamped(a, out)
  OBVIOUS
<1>7. Speaks(i, b, out)
  BY <1>1, <1>3, <1>4, <1>5, <1>6, EmitsSpeaks
<1>8. ASSUME NEW s \in Session, NEW q \in Seq(Posted), Kept(s, agent[i], q)
      PROVE  Kept(s, b, q \o out)
  <2>1. /\ b \in Agent /\ b.lastAt = (IF out = <<>> THEN a.lastAt ELSE clock)
        /\ b.place = a.place /\ b.turn = a.turn /\ b.run = a.run /\ b.sid = a.sid
        /\ b.started = a.started /\ b.spent = a.spent /\ b.said = a.said
    BY <1>2, <1>3, <1>6, StampedType
  <2>2. /\ a.place = agent[i].place /\ a.turn = agent[i].turn /\ a.run = agent[i].run
        /\ a.lastAt = agent[i].lastAt /\ a.spent = agent[i].spent /\ a.said = agent[i].said
    BY <1>2, <1>5, WithIdIs
  <2>3. Kept(s, b, q \o Announced(i, TRUE))
    BY <1>2, <1>3, <1>5, <1>8, <2>1, <2>2, AnnouncedKept
  <2> QED
    BY <1>3, <2>3
<1> QED
  BY <1>7, <1>8 DEF Reports

\* An update that a goroutine makes of its own state, which may be its last.
LEMMA ReportKept ==
    ASSUME clock \in Nat, NEW i \in Issues, NEW s \in Session, NEW q \in Seq(Posted),
           NEW a \in Agent, NEW c \in Agent, NEW b \in Agent, NEW texts \in 0..1, NEW usage \in Nat,
           Kept(s, a, q), c.said = a.said + texts, c.sid = a.sid, c.turn = a.turn,
           b.sid = a.sid, b.turn = a.turn, b.run = a.run, b.started = a.started, b.lastAt = clock,
           b.said = a.said + texts, b.spent = a.spent + usage
    PROVE  Kept(s, b, q \o <<Update(i, c, IF texts = 0 THEN 0 ELSE c.said, usage)>>)
<1>1. a.said \in Nat /\ c.said \in Nat
  BY DEF Agent
<1>2. PICK text \in Nat : text = IF texts = 0 THEN 0 ELSE c.said
  BY <1>1
<1>3. PICK e \in Posted : e = Update(i, c, text, usage)
  BY UpdateIs
<1>4. /\ e.kind = "update" /\ e.sid = c.sid /\ e.turn = c.turn /\ e.text = text
      /\ e.usage = usage /\ e.at = clock
  BY <1>3, UpdateIs
<1>5. b.said = a.said + (IF e.text = 0 THEN 0 ELSE 1) /\ (e.text # 0 => e.text = b.said)
  BY <1>1, <1>2, <1>4
<1>6. b.started => b.sid = <<b.run, b.turn>>
  BY DEF Kept, LatestKept
<1>7. Kept(s, b, q \o <<e>>)
  BY <1>4, <1>5, <1>6, KeptUpdate
<1> QED
  BY <1>2, <1>3, <1>7

LEMMA MessageSpeaks ==
    ASSUME IInv, NEW i \in Issues, NEW texts \in 0..1, HandlesMessage(i, texts)
    PROVE  \E b, out : Speaks(i, b, out) /\ Reports(i, b, out)
<1> DEFINE said == agent[i].said + texts
           text == IF texts = 0 THEN 0 ELSE said
<1>1. InTurn(i) /\ Emits(i, [agent[i] EXCEPT !.said = said], <<Update(i, agent[i], text, 0)>>)
  BY DEF HandlesMessage
<1>2. clock \in Nat /\ agent[i] \in Agent /\ said \in Nat /\ text \in Nat
  BY <1>1, InTurnHasRun
<1>3. PICK e \in Posted : e = Update(i, agent[i], text, 0)
  BY <1>2, UpdateIs
<1>4. e \in Mine(i) /\ e.kind = "update"
  BY <1>2, <1>3, UpdateIs
<1>5. PICK out \in Seq(Mine(i)) : out = <<e>> /\ out \in Seq(Posted) /\ Len(out) = 1 /\ out[1] = e /\ out # <<>>
  <2>1. <<e>> \in Seq(Mine(i)) /\ Len(<<e>>) = 1 /\ <<e>>[1] = e /\ <<e>> # <<>>
    BY <1>4
  <2> QED
    BY <2>1, MineIsPosted
<1>6. PICK a \in Agent : a = [agent[i] EXCEPT !.said = said]
  BY <1>2 DEF Agent
<1>7. /\ a.said = agent[i].said + texts /\ a.sid = agent[i].sid /\ a.turn = agent[i].turn
      /\ a.run = agent[i].run /\ a.started = agent[i].started /\ a.spent = agent[i].spent
  BY <1>2, <1>6 DEF Agent
<1>8. PICK b : b = Stamped(a, out)
  OBVIOUS
<1>9. Speaks(i, b, out)
  <2>1. Emits(i, a, out)
    BY <1>1, <1>3, <1>5, <1>6
  <2>2. \A k \in 1..Len(out) : out[k].kind # "exit"
    BY <1>4, <1>5
  <2> QED
    BY <1>1, <1>8, <2>1, <2>2, EmitsSpeaks
<1>10. ASSUME NEW s \in Session, NEW q \in Seq(Posted), Kept(s, agent[i], q)
       PROVE  Kept(s, b, q \o out)
  <2>1. PICK c \in Agent : c = [agent[i] EXCEPT !.said = said]
    BY <1>6
  <2>2. /\ b \in Agent /\ b.lastAt = clock /\ b.sid = a.sid /\ b.turn = a.turn /\ b.run = a.run
        /\ b.started = a.started /\ b.spent = a.spent /\ b.said = a.said
    BY <1>2, <1>5, <1>8, StampedType
  <2>3. a.spent = agent[i].spent + 0
    BY <1>2, <1>7 DEF Agent
  <2>4. Update(i, agent[i], text, 0) = Update(i, a, IF texts = 0 THEN 0 ELSE a.said, 0)
    BY <1>7 DEF Update
  <2>5. Kept(s, b, q \o <<Update(i, a, IF texts = 0 THEN 0 ELSE a.said, 0)>>)
    BY <1>2, <1>7, <1>10, <2>2, <2>3, ReportKept
  <2> QED
    BY <1>3, <1>5, <2>4, <2>5
<1> QED
  BY <1>9, <1>10 DEF Reports

LEMMA FailSpeaks ==
    ASSUME IInv, NEW i \in Issues, NEW texts \in 0..1, TurnFails(i, texts)
    PROVE  \E b, out : Speaks(i, b, out) /\ Reports(i, b, out)
<1> DEFINE said == agent[i].said + texts
           text == IF texts = 0 THEN 0 ELSE said
<1>1. InTurn(i) /\ Emits(i, [agent[i] EXCEPT !.place = "done", !.said = said],
                         <<Update(i, agent[i], text, 0), ExitOf(i)>>)
  BY DEF TurnFails, ExitOf
<1>2. clock \in Nat /\ agent[i] \in Agent /\ said \in Nat /\ text \in Nat
  BY <1>1, InTurnHasRun
<1>3. PICK e \in Posted : e = Update(i, agent[i], text, 0)
  BY <1>2, UpdateIs
<1>4. e \in Mine(i) /\ e.kind = "update" /\ ExitOf(i) \in Mine(i) /\ ExitOf(i) \in Posted
      /\ ExitOf(i).kind = "exit"
  BY <1>2, <1>3, UpdateIs, ExitIs
<1>5. PICK x \in Mine(i) : x = ExitOf(i)
  BY <1>4
<1>6. PICK out \in Seq(Mine(i)) : /\ out = <<e, x>> /\ out \in Seq(Posted) /\ Len(out) = 2
                                  /\ out[1] = e /\ out[2] = x /\ out # <<>>
                                  /\ \A q \in Seq(Posted) : q \o out = (q \o <<e>>) \o <<x>>
  <2>1. /\ <<e, x>> \in Seq(Mine(i)) /\ Len(<<e, x>>) = 2 /\ <<e, x>>[1] = e /\ <<e, x>>[2] = x
        /\ <<e, x>> # <<>> /\ <<e, x>> = <<e>> \o <<x>> /\ <<e>> \in Seq(Mine(i)) /\ <<x>> \in Seq(Mine(i))
    BY <1>4, <1>5
  <2>2. <<e>> \in Seq(Posted) /\ <<x>> \in Seq(Posted) /\ <<e, x>> \in Seq(Posted)
    BY <2>1, MineIsPosted
  <2>3. \A q \in Seq(Posted) : q \o (<<e>> \o <<x>>) = (q \o <<e>>) \o <<x>>
    BY <2>2, ConcatAssociative
  <2> QED
    BY <2>1, <2>2, <2>3
<1>7. PICK a \in Agent : a = [agent[i] EXCEPT !.place = "done", !.said = said]
  BY <1>2 DEF Agent
<1>8. /\ a.said = agent[i].said + texts /\ a.sid = agent[i].sid /\ a.turn = agent[i].turn
      /\ a.run = agent[i].run /\ a.started = agent[i].started /\ a.spent = agent[i].spent
      /\ a.place = "done"
  BY <1>2, <1>7 DEF Agent
<1>9. PICK b : b = Stamped(a, out)
  OBVIOUS
<1>10. Speaks(i, b, out)
  <2>1. Emits(i, a, out)
    BY <1>1, <1>3, <1>5, <1>6, <1>7
  <2>2. \A k \in 1..Len(out) : out[k].kind = "exit" => k = Len(out) /\ a.place = "done"
    <3>1. \A k \in 1..2 : k = 1 \/ k = 2
      OBVIOUS
    <3> QED
      BY <1>4, <1>6, <1>8, <3>1
  <2> QED
    BY <1>1, <1>9, <2>1, <2>2, EmitsSpeaks
<1>11. ASSUME NEW s \in Session, NEW q \in Seq(Posted), Kept(s, agent[i], q)
       PROVE  Kept(s, b, q \o out)
  <2>1. /\ b \in Agent /\ b.lastAt = clock /\ b.sid = a.sid /\ b.turn = a.turn /\ b.run = a.run
        /\ b.started = a.started /\ b.spent = a.spent /\ b.said = a.said
    BY <1>2, <1>6, <1>9, StampedType
  <2>2. a.spent = agent[i].spent + 0
    BY <1>2, <1>8 DEF Agent
  <2>3. Update(i, agent[i], text, 0) = Update(i, a, IF texts = 0 THEN 0 ELSE a.said, 0)
    BY <1>8 DEF Update
  <2>4. Kept(s, b, q \o <<Update(i, a, IF texts = 0 THEN 0 ELSE a.said, 0)>>)
    BY <1>2, <1>8, <1>11, <2>1, <2>2, ReportKept
  <2>5. Kept(s, b, q \o <<e>>) /\ q \o <<e>> \in Seq(Posted)
    <3>1. <<e>> \in Seq(Posted)
      BY OneMessage
    <3> QED
      BY <1>3, <2>3, <2>4, <3>1, ConcatProperties
  <2>6. Kept(s, b, (q \o <<e>>) \o <<x>>)
    BY <1>4, <1>5, <2>5, KeptExit
  <2> QED
    BY <1>6, <2>6
<1> QED
  BY <1>10, <1>11 DEF Reports

LEMMA ResultSpeaks ==
    ASSUME IInv, NEW i \in Issues, NEW id \in BOOLEAN, NEW error \in BOOLEAN,
           NEW usage \in 0..MaxTokens, HandlesResult(i, id, usage, error)
    PROVE  \E b, out : Speaks(i, b, out) /\ Reports(i, b, out)
<1> DEFINE said == agent[i].said + (IF error THEN 1 ELSE 0)
           end(a) == Update(i, a, IF error THEN said ELSE 0, usage)
           last == IF error THEN <<ExitOf(i)>> ELSE <<>>
<1>1. PICK a : a = [WithId(i, id) EXCEPT !.place = IF error THEN "done" ELSE "ready",
                                         !.spent = @ + usage, !.said = said]
  OBVIOUS
<1>2. InTurn(i) /\ Emits(i, a, Announced(i, id) \o <<end(a)>> \o last)
  BY <1>1 DEF HandlesResult, ExitOf
<1>3. /\ clock \in Nat /\ agent[i] \in Agent /\ agent[i].spent \in Nat /\ agent[i].said \in Nat
      /\ said \in Nat /\ usage \in Nat /\ WithId(i, id) \in Agent
  <2>1. clock \in Nat /\ agent[i] \in Agent /\ agent[i].spent \in Nat /\ agent[i].said \in Nat
    BY <1>2, InTurnHasRun
  <2> QED
    BY <2>1, WithIdType, SessionsAssumption
<1>4. /\ WithId(i, id).spent = agent[i].spent /\ WithId(i, id).said = agent[i].said
      /\ WithId(i, id).lastAt = agent[i].lastAt /\ WithId(i, id).place = agent[i].place
      /\ WithId(i, id).turn = agent[i].turn /\ WithId(i, id).run = agent[i].run
  BY <1>3, WithIdIs
<1>5. PICK spent \in Nat : spent = agent[i].spent + usage
  BY <1>3
<1>6. a = [WithId(i, id) EXCEPT !.place = IF error THEN "done" ELSE "ready",
                                !.spent = spent, !.said = said]
  BY <1>1, <1>4, <1>5
<1>7. /\ a \in Agent /\ a.said = said /\ a.spent = spent /\ a.sid = WithId(i, id).sid
      /\ a.turn = WithId(i, id).turn /\ a.run = WithId(i, id).run
      /\ a.started = WithId(i, id).started /\ (error => a.place = "done")
  BY <1>3, <1>6 DEF Agent
<1>8. PICK e \in Posted : e = end(a)
  BY <1>3, <1>7, UpdateIs
<1>9. e \in Mine(i) /\ e.kind = "update"
  BY <1>3, <1>7, <1>8, UpdateIs
<1>10. PICK ann \in Seq(Mine(i)) :
         ann = Announced(i, id) /\ ann \in Seq(Posted) /\ \A k \in 1..Len(ann) : ann[k].kind = "update"
  BY <1>3, AnnouncedType
<1>11. PICK x \in Mine(i) : x = ExitOf(i) /\ x \in Posted /\ x.kind = "exit"
  BY ExitIs
<1>12. PICK one \in Seq(Mine(i)) : one = <<e>> /\ one \in Seq(Posted) /\ Len(one) = 1 /\ one[1] = e
  <2>1. <<e>> \in Seq(Mine(i)) /\ Len(<<e>>) = 1 /\ <<e>>[1] = e
    BY <1>9
  <2> QED
    BY <2>1, MineIsPosted
<1>13. PICK tl \in Seq(Mine(i)) : /\ tl = (IF error THEN <<x>> ELSE <<>>) /\ tl \in Seq(Posted)
                                  /\ Len(tl) = (IF error THEN 1 ELSE 0) /\ (error => tl[1] = x)
  <2>1. <<x>> \in Seq(Mine(i)) /\ <<x>> \in Seq(Posted) /\ Len(<<x>>) = 1 /\ <<x>>[1] = x
    BY <1>11
  <2>2. PICK ox \in Seq(Mine(i)) : ox = <<x>> /\ ox \in Seq(Posted) /\ Len(ox) = 1 /\ ox[1] = x
    BY <2>1
  <2>3. PICK none \in Seq(Mine(i)) : none = <<>> /\ none \in Seq(Posted) /\ Len(none) = 0
    <3>1. <<>> \in Seq(Mine(i)) /\ <<>> \in Seq(Posted) /\ Len(<<>>) = 0
      OBVIOUS
    <3> QED
      BY <3>1
  <2>4. PICK t : t = IF error THEN ox ELSE none
    OBVIOUS
  <2>5. t \in Seq(Mine(i)) /\ t \in Seq(Posted) /\ Len(t) = (IF error THEN 1 ELSE 0)
        /\ (error => t[1] = x)
    BY <2>2, <2>3, <2>4
  <2> QED
    BY <2>2, <2>3, <2>4, <2>5
<1>14. PICK head \in Seq(Mine(i)) : head = ann \o one /\ head \in Seq(Posted)
  BY <1>10, <1>12, ConcatProperties, MineIsPosted
<1>15. PICK out \in Seq(Mine(i)) : out = head \o tl /\ out \in Seq(Posted)
  BY <1>13, <1>14, ConcatProperties, MineIsPosted
<1>16. Emits(i, a, out)
  BY <1>2, <1>8, <1>10, <1>11, <1>12, <1>13, <1>14, <1>15
<1>17. PICK m \in Nat, l \in Nat : IsJoin(head, ann, one, m, l)
  BY <1>10, <1>12, <1>14, JoinIs
<1>18. \A k \in 1..Len(head) : head[k].kind = "update"
  <2>1. l = 1 /\ Len(head) = m + l
    BY <1>12, <1>17 DEF IsJoin
  <2>2. ASSUME NEW k \in 1..(m + l) PROVE head[k].kind = "update"
    <3>1. CASE k \in 1..m
      BY <1>10, <1>17, <3>1 DEF IsJoin
    <3>2. CASE k - m \in 1..l /\ m + (k - m) = k
      <4>1. k - m = 1 /\ head[k] = one[k - m]
        BY <1>17, <2>1, <3>2 DEF IsJoin
      <4> QED
        BY <1>9, <1>12, <4>1
    <3> QED
      BY <1>17, <3>1, <3>2 DEF IsJoin
  <2> QED
    BY <2>1, <2>2
<1>19. PICK n \in Nat, h \in Nat : IsJoin(out, head, tl, n, h)
  BY <1>13, <1>14, <1>15, JoinIs
<1>20. \A k \in 1..Len(out) : out[k].kind = "exit" => k = Len(out) /\ a.place = "done"
  <2>1. Len(out) = n + h /\ h = Len(tl) /\ n = Len(head)
    BY <1>19 DEF IsJoin
  <2>2. ASSUME NEW k \in 1..(n + h), out[k].kind = "exit" PROVE k = n + h /\ a.place = "done"
    <3>1. CASE k \in 1..n
      <4>1. out[k] = head[k]
        BY <1>19, <3>1 DEF IsJoin
      <4>2. out[k].kind = "update"
        BY <1>18, <2>1, <3>1, <4>1
      <4> QED
        BY <2>2, <4>2
    <3>2. CASE k - n \in 1..h /\ n + (k - n) = k
      <4>1. h \in {0, 1} /\ (h = 1 => error)
        BY <1>13, <2>1
      <4>2. h = 1 /\ k - n = 1
        BY <3>2, <4>1
      <4> QED
        BY <1>7, <3>2, <4>1, <4>2
    <3> QED
      BY <1>19, <3>1, <3>2 DEF IsJoin
  <2> QED
    BY <2>1, <2>2
<1>21. out # <<>>
  <2>1. Len(out) = Len(head) + Len(tl) /\ Len(head) = Len(ann) + 1
        /\ Len(tl) \in Nat /\ Len(ann) \in Nat
    BY <1>10, <1>12, <1>13, <1>14, <1>15, ConcatProperties, LenProperties
  <2> QED
    BY <2>1, EmptySeq
<1>22. PICK b : b = Stamped(a, out)
  OBVIOUS
<1>23. Speaks(i, b, out)
  BY <1>2, <1>7, <1>16, <1>20, <1>22, EmitsSpeaks
<1>24. ASSUME NEW s \in Session, NEW q \in Seq(Posted), Kept(s, agent[i], q)
       PROVE  Kept(s, b, q \o out)
  <2>1. /\ b \in Agent /\ b.lastAt = clock /\ b.sid = a.sid /\ b.turn = a.turn /\ b.run = a.run
        /\ b.started = a.started /\ b.spent = a.spent /\ b.said = a.said
    BY <1>3, <1>7, <1>15, <1>21, <1>22, StampedType
  <2>2. PICK at \in Nat : at = IF Announced(i, id) = <<>> THEN agent[i].lastAt ELSE clock
    BY <1>3 DEF Agent
  <2>3. PICK mid \in Agent :
          /\ mid.sid = WithId(i, id).sid /\ mid.started = WithId(i, id).started
          /\ mid.place = agent[i].place /\ mid.turn = agent[i].turn /\ mid.run = agent[i].run
          /\ mid.spent = agent[i].spent /\ mid.said = agent[i].said /\ mid.lastAt = at
    <3>1. [WithId(i, id) EXCEPT !.lastAt = at] \in Agent
      BY <1>3 DEF Agent
    <3>2. \A f \in {"sid", "started", "place", "turn", "run", "spent", "said"} :
            [WithId(i, id) EXCEPT !.lastAt = at][f] = WithId(i, id)[f]
      BY <1>3 DEF Agent
    <3>3. [WithId(i, id) EXCEPT !.lastAt = at].lastAt = at
      BY <1>3 DEF Agent
    <3> QED
      BY <1>4, <3>1, <3>2, <3>3
  <2>4. Kept(s, mid, q \o ann)
    <3>1. Kept(s, mid, q \o Announced(i, id))
      BY <1>3, <1>24, <2>2, <2>3, AnnouncedKept
    <3> QED
      BY <1>10, <3>1
  <2>5. PICK qa \in Seq(Posted) : qa = q \o ann
    BY <1>10, ConcatProperties
  <2>6. PICK texts \in 0..1 : texts = IF error THEN 1 ELSE 0
    OBVIOUS
  <2>7. a.said = mid.said + texts /\ a.spent = mid.spent + usage
    BY <1>5, <1>7, <2>3, <2>6
  <2>8. e = Update(i, a, IF texts = 0 THEN 0 ELSE a.said, usage)
    BY <1>7, <1>8, <2>6
  <2>9. Kept(s, b, qa \o <<e>>)
    <3>1. Kept(s, b, qa \o <<Update(i, a, IF texts = 0 THEN 0 ELSE a.said, usage)>>)
      <4>1. a.sid = mid.sid /\ a.turn = mid.turn /\ a.run = mid.run /\ a.started = mid.started
        BY <1>4, <1>7, <2>3
      <4>2. Kept(s, mid, qa)
        BY <2>4, <2>5
      <4> QED
        BY <1>3, <1>7, <2>1, <2>7, <4>1, <4>2, ReportKept
    <3> QED
      BY <2>8, <3>1
  <2>10. PICK qe \in Seq(Posted) : qe = qa \o one /\ Kept(s, b, qe)
    BY <1>12, <2>9, ConcatProperties
  <2>11. Kept(s, b, qe \o tl)
    <3>1. CASE error
      <4>1. Kept(s, b, qe \o <<x>>)
        BY <1>11, <2>10, KeptExit
      <4> QED
        BY <1>13, <3>1, <4>1
    <3>2. CASE ~error
      BY <1>13, <2>10, <3>2, ConcatEmptySeq
    <3> QED
      BY <3>1, <3>2
  <2>12. q \o out = qe \o tl
    <3>1. q \o out = (q \o head) \o tl
      <4>1. q \o (head \o tl) = (q \o head) \o tl
        BY <1>13, <1>14, ConcatAssociative
      <4> QED
        BY <1>15, <4>1
    <3>2. q \o head = (q \o ann) \o one
      BY <1>10, <1>12, <1>14, ConcatAssociative
    <3> QED
      BY <2>5, <2>10, <3>1, <3>2
  <2> QED
    BY <2>11, <2>12
<1> QED
  BY <1>23, <1>24 DEF Reports

LEMMA StartSpeaks ==
    ASSUME IInv, reported \in Int, NEW i \in Issues, TurnStarts(i)
    PROVE  \E b, out : Speaks(i, b, out) /\ Reports(i, b, out)
<1>1. agent[i] \in Agent /\ agent[i].place = "ready" /\ agent[i].out = <<>>
  BY HasRun DEF TurnStarts, IInv
<1>2. PICK b : b = [agent[i] EXCEPT !.place = "turn", !.turn = @ + 1, !.started = FALSE]
  OBVIOUS
<1>3. b \in Agent /\ b.out = <<>> /\ b.spent = agent[i].spent /\ agent[i].spent \in Nat
  <2>1. PICK n \in Nat : n = agent[i].turn + 1
    BY <1>1 DEF Agent
  <2> QED
    BY <1>1, <1>2, <2>1 DEF Agent
<1>4. <<>> \in Seq(Mine(i)) /\ Len(<<>>) = 0
  OBVIOUS
<1>5. agent' = [agent EXCEPT ![i] = b]
      /\ UNCHANGED <<clock, runs, events, session, retrying, totals, rootCtx, reported>>
  BY <1>2 DEF TurnStarts, runtime, daemon
<1>6. reported' = reported + (b.spent - agent[i].spent)
  BY <1>3, <1>5
<1>7. Speaks(i, b, <<>>)
  BY <1>1, <1>3, <1>4, <1>5, <1>6 DEF Speaks
<1>8. ASSUME NEW s \in Session, NEW q \in Seq(Posted), Kept(s, agent[i], q)
      PROVE  Kept(s, b, q \o <<>>)
  BY <1>1, <1>2, <1>3, <1>8, KeptNextTurn, ConcatEmptySeq
<1> QED
  BY <1>7, <1>8 DEF Reports

LEMMA EndSpeaks ==
    ASSUME IInv, reported \in Int, NEW i \in Issues, RunEnds(i)
    PROVE  \E b, out : Speaks(i, b, out) /\ Reports(i, b, out)
<1>1. agent[i] \in Agent /\ agent[i].place = "ready" /\ agent[i].out = <<>>
  BY HasRun DEF RunEnds, IInv
<1>2. PICK x \in Mine(i) : x = ExitOf(i) /\ x \in Posted /\ x.kind = "exit"
  BY ExitIs
<1>3. PICK out \in Seq(Mine(i)) : out = <<x>> /\ out \in Seq(Posted) /\ Len(out) = 1
  <2>1. <<x>> \in Seq(Mine(i)) /\ Len(<<x>>) = 1
    OBVIOUS
  <2> QED
    BY <2>1, MineIsPosted
<1>4. PICK b : b = [agent[i] EXCEPT !.place = "done", !.out = out]
  OBVIOUS
<1>5. /\ b \in Agent /\ b.out = out /\ b.place = "done" /\ b.spent = agent[i].spent
      /\ agent[i].spent \in Nat /\ b.said = agent[i].said /\ b.sid = agent[i].sid
      /\ b.lastAt = agent[i].lastAt /\ b.turn = agent[i].turn /\ b.run = agent[i].run
      /\ b.started = agent[i].started
  BY <1>1, <1>3, <1>4 DEF Agent
<1>6. agent' = [agent EXCEPT ![i] = b]
      /\ UNCHANGED <<clock, runs, events, session, retrying, totals, rootCtx, reported>>
  <2>1. agent' = [agent EXCEPT ![i].place = "done", ![i].out = out]
    BY <1>2, <1>3 DEF RunEnds, ExitOf
  <2>2. agent \in [Issues -> Agent \cup {NoAgent}]
    BY DEF IInv, TypeOK
  <2>3. agent' = [agent EXCEPT ![i] = b]
    BY <1>1, <1>4, <2>1, <2>2
  <2> QED
    BY <2>3 DEF RunEnds, runtime, daemon
<1>7. reported' = reported + (b.spent - agent[i].spent)
  BY <1>5, <1>6
<1>8. Speaks(i, b, out)
  <2>1. \A k \in 1..Len(out) : k = Len(out)
    BY <1>3
  <2> QED
    BY <1>1, <1>5, <1>6, <1>7, <2>1 DEF Speaks
<1>9. ASSUME NEW s \in Session, NEW q \in Seq(Posted), Kept(s, agent[i], q)
      PROVE  Kept(s, b, q \o out)
  <2>1. Kept(s, b, q)
    BY <1>5, <1>9, KeptSame
  <2> QED
    BY <1>2, <1>3, <2>1, KeptExit
<1> QED
  BY <1>8, <1>9 DEF Reports

-----------------------------------------------------------------------------
(* One issue at a time *)

AllTokens == SumFunction([i \in Issues |-> TokensOf(OnTheWay(i))])

\* A step of issue i leaves the others, and what is on their way, alone.
Others(i) ==
    \A j \in Issues \ {i} :
      session'[j] = session[j] /\ agent'[j] = agent[j] /\ OnTheWay(j)' = OnTheWay(j)

LEMMA OneQueued ==
    ASSUME QueueInv, NEW i \in Issues, Others(i),
           session' \in [Issues -> Session \cup {NoSession}],
           totals'.seconds \in Int, reported' \in Int,
           Out(i)' \in Seq(Mine(i)), Queued(session'[i], agent'[i], OnTheWay(i)')
    PROVE  QueueInv'
<1>1. ASSUME NEW j \in Issues
      PROVE  Out(j)' \in Seq(Mine(j)) /\ Queued(session'[j], agent'[j], OnTheWay(j)')
  <2>1. CASE j = i
    BY <2>1
  <2>2. CASE j # i
    <3>1. session'[j] = session[j] /\ agent'[j] = agent[j] /\ OnTheWay(j)' = OnTheWay(j)
      BY <2>2 DEF Others
    <3>2. Out(j) \in Seq(Mine(j)) /\ Queued(session[j], agent[j], OnTheWay(j))
      BY DEF QueueInv
    <3>3. Out(j)' = Out(j)
      BY <3>1 DEF Out
    <3> QED
      BY <3>1, <3>2, <3>3
  <2> QED
    BY <2>1, <2>2
<1> QED
  BY <1>1 DEF QueueInv

LEMMA TokensType == ASSUME NEW q \in Seq(Posted) PROVE TokensOf(q) \in Int
BY TokensJoined

LEMMA AllTokensChange ==
    ASSUME IInv, QueueInv, NEW i \in Issues, Others(i), OnTheWay(i)' \in Seq(Posted)
    PROVE  /\ AllTokens \in Int /\ TokensOf(OnTheWay(i)) \in Int /\ TokensOf(OnTheWay(i)') \in Int
           /\ AllTokens' = AllTokens + TokensOf(OnTheWay(i)') - TokensOf(OnTheWay(i))
<1>1. PICK f : f = [j \in Issues |-> TokensOf(OnTheWay(j))]
  OBVIOUS
<1>2. PICK g : g = [j \in Issues |-> TokensOf(OnTheWay(j)')]
  OBVIOUS
<1>3. AllTokens = SumFunctionOnSet(f, Issues) /\ AllTokens' = SumFunctionOnSet(g, Issues)
  <2>1. DOMAIN f = Issues /\ DOMAIN g = Issues
    BY <1>1, <1>2
  <2>2. AllTokens = SumFunction(f) /\ AllTokens' = SumFunction(g)
    BY <1>1, <1>2 DEF AllTokens
  <2> QED
    BY <2>1, <2>2 DEF SumFunction
<1>4. \A j \in Issues : f[j] \in Int /\ g[j] \in Int /\ (j # i => g[j] = f[j])
  <2> SUFFICES ASSUME NEW j \in Issues
               PROVE  f[j] \in Int /\ g[j] \in Int /\ (j # i => g[j] = f[j])
    OBVIOUS
  <2>1. OnTheWay(j) \in Seq(Posted)
    BY WayIs
  <2>2. TokensOf(OnTheWay(j)) \in Int
    BY <2>1, TokensType
  <2>3. j # i => OnTheWay(j)' = OnTheWay(j)
    BY DEF Others
  <2>4. TokensOf(OnTheWay(i)') \in Int
    <3>1. PICK q \in Seq(Posted) : q = OnTheWay(i)'
      OBVIOUS
    <3> QED
      BY <3>1, TokensType
  <2>5. f[j] = TokensOf(OnTheWay(j)) /\ g[j] = TokensOf(OnTheWay(j)')
    BY <1>1, <1>2
  <2> QED
    BY <2>2, <2>3, <2>4, <2>5
<1>5. SumFunctionOnSet(g, Issues) = SumFunctionOnSet(f, Issues) + g[i] - f[i]
      /\ SumFunctionOnSet(f, Issues) \in Int
  BY <1>4, SumChanged, SumType, SessionsAssumption
<1>6. f[i] = TokensOf(OnTheWay(i)) /\ g[i] = TokensOf(OnTheWay(i)')
  BY <1>1, <1>2
<1> QED
  BY <1>3, <1>4, <1>5, <1>6

LEMMA OneKept ==
    ASSUME IInv, QueueInv, KeptInv, NEW i \in Issues, Others(i), OnTheWay(i)' \in Seq(Posted),
           totals'.tokens \in Int, reported' \in Int, rootCtx # "cancelled",
           totals'.tokens + TokensOf(OnTheWay(i)') - reported'
             = totals.tokens + TokensOf(OnTheWay(i)) - reported,
           session'[i] # NoSession => Kept(session'[i], agent'[i], OnTheWay(i)')
    PROVE  KeptInv'
<1>1. totals.tokens + AllTokens = reported
      /\ \A j \in Issues : session[j] # NoSession => Kept(session[j], agent[j], OnTheWay(j))
  BY DEF KeptInv, AllTokens, Running
<1>2. totals'.tokens + AllTokens' = reported'
  <2>1. /\ AllTokens \in Int /\ TokensOf(OnTheWay(i)) \in Int /\ TokensOf(OnTheWay(i)') \in Int
        /\ AllTokens' = AllTokens + TokensOf(OnTheWay(i)') - TokensOf(OnTheWay(i))
    BY AllTokensChange
  <2>2. PICK t \in Int, r \in Int : t = totals.tokens /\ r = reported
    BY DEF IInv, TypeOK, QueueInv
  <2>3. PICK tt \in Int, rr \in Int : tt = totals'.tokens /\ rr = reported'
    OBVIOUS
  <2>4. PICK x \in Int, y \in Int : x = TokensOf(OnTheWay(i)) /\ y = TokensOf(OnTheWay(i)')
    BY <2>1
  <2>5. PICK u, v : u = AllTokens /\ v = AllTokens'
    OBVIOUS
  <2>6. u \in Int /\ v = u + y - x /\ t + u = r /\ tt + y - rr = t + x - r
    BY <1>1, <2>1, <2>2, <2>3, <2>4, <2>5
  <2>7. tt + v = rr
    BY <2>6
  <2> QED
    BY <2>3, <2>5, <2>7
<1>3. \A j \in Issues : session'[j] # NoSession => Kept(session'[j], agent'[j], OnTheWay(j)')
  BY <1>1 DEF Others
<1> QED
  BY <1>2, <1>3 DEF KeptInv, AllTokens, Running

\* A step that leaves every goroutine and its messages alone, and of the
\* sessions changes at most whether they are terminating.
Terminates(s, t) ==
    /\ s # NoSession /\ t \in Session
    /\ t.tokens = s.tokens /\ t.activity = s.activity /\ t.sid = s.sid /\ t.turn = s.turn
    /\ t.lastAt = s.lastAt /\ t.startedAt = s.startedAt

LEMMA NoneKept ==
    ASSUME IInv, QueueInv, KeptInv, events' \in Seq(Event),
           \A j \in Issues : OfIssue(j, events') = OfIssue(j, events),
           agent' = agent, totals' = totals, reported' = reported,
           rootCtx' # "cancelled" => rootCtx # "cancelled",
           session' \in [Issues -> Session \cup {NoSession}],
           \A j \in Issues : session'[j] = session[j] \/ Terminates(session[j], session'[j])
    PROVE  QueueInv' /\ KeptInv'
<1>1. \A j \in Issues : OnTheWay(j)' = OnTheWay(j) /\ Out(j)' = Out(j)
  BY WaySame
<1>2. NoSession \notin Session
  BY DEF NoSession, Session
<1>3. \A j \in Issues : session'[j] = NoSession <=> session[j] = NoSession
  BY <1>2 DEF Terminates
<1>4. QueueInv'
  <2>1. ASSUME NEW j \in Issues
        PROVE  Out(j)' \in Seq(Mine(j)) /\ Queued(session'[j], agent'[j], OnTheWay(j)')
    <3>1. Out(j) \in Seq(Mine(j)) /\ Queued(session[j], agent[j], OnTheWay(j))
      BY DEF QueueInv
    <3>2. Queued(session'[j], agent[j], OnTheWay(j))
      BY <1>3, <3>1 DEF Queued
    <3> QED
      BY <1>1, <3>1, <3>2
  <2> QED
    BY <2>1 DEF QueueInv
<1>5. KeptInv'
  <2> SUFFICES ASSUME rootCtx # "cancelled" PROVE KeptInv'
    BY DEF KeptInv
  <2>1. totals.tokens + AllTokens = reported
        /\ \A j \in Issues : session[j] # NoSession => Kept(session[j], agent[j], OnTheWay(j))
    BY DEF KeptInv, AllTokens, Running
  <2>2. AllTokens' = AllTokens
    BY <1>1 DEF AllTokens
  <2>3. ASSUME NEW j \in Issues, session'[j] # NoSession
        PROVE  Kept(session'[j], agent'[j], OnTheWay(j)')
    <3>1. Kept(session[j], agent[j], OnTheWay(j))
      BY <1>3, <2>1, <2>3
    <3>2. CASE session'[j] = session[j]
      BY <1>1, <3>1, <3>2
    <3>3. CASE Terminates(session[j], session'[j])
      <4>1. Kept(session'[j], agent[j], OnTheWay(j))
        BY <3>1, <3>3, KeptSame DEF Terminates
      <4> QED
        BY <1>1, <4>1
    <3> QED
      BY <3>2, <3>3
  <2> QED
    BY <2>1, <2>2, <2>3 DEF KeptInv, AllTokens, Running
<1> QED
  BY <1>4, <1>5

-----------------------------------------------------------------------------
(* Every step of a goroutine, and of the loop, keeps the invariant *)

\* What is kept between a goroutine, the channel and the loop.
BothInv == QueueInv /\ KeptInv

LEMMA HasSession ==
    ASSUME QueueInv, NEW i \in Issues, agent[i] \in Agent, agent[i].place # "done"
    PROVE  session[i] # NoSession /\ session[i] \in Session
<1>1. agent[i] # NoAgent
  BY DEF Agent, NoAgent
<1> QED
  BY <1>1 DEF QueueInv, Queued

LEMMA SpeaksKeeps ==
    ASSUME IInv, BothInv, IInv', NEW i \in Issues, NEW b, NEW out,
           Speaks(i, b, out), Reports(i, b, out)
    PROVE  BothInv'
<1>1. QueueInv /\ KeptInv
  BY DEF BothInv
<1>2. /\ agent[i] \in Agent /\ agent[i].out = <<>> /\ agent[i].place \in {"ready", "turn"}
      /\ b \in Agent /\ b.out = out /\ out \in Seq(Mine(i))
      /\ \A k \in 1..Len(out) : out[k].kind = "exit" => k = Len(out) /\ b.place = "done"
      /\ agent' = [agent EXCEPT ![i] = b]
      /\ reported' = reported + (b.spent - agent[i].spent)
      /\ UNCHANGED <<clock, runs, events, session, retrying, totals, rootCtx>>
  BY DEF Speaks
<1>3. out \in Seq(Posted) /\ session[i] # NoSession /\ session[i] \in Session
  BY <1>1, <1>2, MineIsPosted, HasSession
<1>4. agent'[i] = b /\ \A j \in Issues \ {i} : agent'[j] = agent[j]
  BY <1>2 DEF IInv, TypeOK
<1>5. events' \in Seq(Event) /\ \A j \in Issues : OfIssue(j, events') = OfIssue(j, events)
  BY <1>2 DEF IInv, TypeOK
<1>6. Others(i)
  BY <1>1, <1>2, <1>4, <1>5, WaySame DEF Others
<1>7. Out(i)' = out /\ Out(i) = <<>>
  <2>1. agent'[i] # NoAgent
    BY <1>2, <1>4 DEF Agent, NoAgent
  <2> QED
    BY <1>2, <1>4, <2>1 DEF Out
<1>8. PICK q \in Seq(Posted) : q = OfIssue(i, events) /\ q = OnTheWay(i)
  <2>1. /\ OnTheWay(i) = OfIssue(i, events) \o Out(i)
        /\ OnTheWay(i) \in Seq(Posted) /\ OfIssue(i, events) \in Seq(Mine(i))
    BY <1>1, WayIs
  <2>2. OnTheWay(i) = OfIssue(i, events)
    BY <1>7, <2>1, ConcatEmptySeq
  <2> QED
    BY <2>1, <2>2
<1>9. OnTheWay(i)' = q \o out /\ OnTheWay(i)' \in Seq(Posted)
  <2>1. OnTheWay(i)' = OfIssue(i, events') \o Out(i)' /\ OnTheWay(i)' \in Seq(Posted)
    BY <1>2, <1>5, <1>7, WayThen
  <2> QED
    BY <1>5, <1>7, <1>8, <2>1
<1>10. Queued(session[i], b, q \o out)
  <2>1. Queued(session[i], agent[i], q)
    BY <1>1, <1>8 DEF QueueInv
  <2> QED
    BY <1>2, <1>3, <2>1, QueuedLonger
<1>11. reported' \in Int
  BY <1>1, <1>2 DEF QueueInv, Agent
<1>12. QueueInv'
  BY <1>1, <1>2, <1>4, <1>6, <1>7, <1>9, <1>10, <1>11, OneQueued DEF QueueInv
<1>13. KeptInv'
  <2> SUFFICES ASSUME rootCtx # "cancelled" PROVE KeptInv'
    BY <1>2 DEF KeptInv
  <2>1. Kept(session[i], agent[i], q)
    BY <1>1, <1>3, <1>8 DEF KeptInv, Running
  <2>2. Kept(session[i], b, q \o out)
    BY <1>3, <2>1 DEF Reports
  <2>3. totals'.tokens + TokensOf(OnTheWay(i)') - reported'
          = totals.tokens + TokensOf(OnTheWay(i)) - reported
    <3>1. PICK x \in Int, y \in Int : x = TokensOf(q) /\ y = TokensOf(q \o out)
      BY <1>3, TokensJoined
    <3>2. PICK n \in Nat, m \in Nat, l \in Nat :
            n = session[i].tokens /\ m = agent[i].spent /\ l = b.spent
      BY <1>2, <1>3 DEF Session, Agent
    <3>3. n + x = m /\ n + y = l
      BY <2>1, <2>2, <3>1, <3>2 DEF Kept
    <3>4. PICK t \in Int, r \in Int : t = totals.tokens /\ r = reported
      BY <1>1 DEF IInv, TypeOK, QueueInv
    <3>5. totals'.tokens = t /\ reported' = r + (l - m)
      BY <1>2, <3>2, <3>4
    <3>6. t + y - (r + (l - m)) = t + x - r
      BY <3>3
    <3> QED
      BY <1>8, <1>9, <3>1, <3>4, <3>5, <3>6
  <2>4. totals'.tokens \in Int
    BY <1>2 DEF IInv, TypeOK
  <2>5. Kept(session'[i], agent'[i], OnTheWay(i)')
    BY <1>2, <1>4, <1>9, <2>2
  <2> QED
    BY <1>1, <1>6, <1>9, <1>11, <2>3, <2>4, <2>5, OneKept
<1> QED
  BY <1>12, <1>13 DEF BothInv

LEMMA PostsKeeps ==
    ASSUME IInv, BothInv, IInv', NEW i \in Issues, Posts(i)
    PROVE  BothInv'
<1>1. QueueInv /\ KeptInv
  BY DEF BothInv
<1>2. /\ agent[i] # NoAgent /\ agent[i] \in Agent /\ agent[i].out # <<>>
      /\ UNCHANGED <<clock, runs, session, retrying, totals, reported, rootCtx>>
  BY DEF Posts, IInv, TypeOK, runtime, daemon
<1>3. PICK out \in Seq(Mine(i)) : out = agent[i].out /\ out = Out(i)
  BY <1>1, <1>2 DEF QueueInv, Out
<1>4. PICK e \in Mine(i), tl \in Seq(Mine(i)) : e = Head(out) /\ tl = Tail(out) /\ out = <<e>> \o tl
  <2>1. out # <<>>
    BY <1>2, <1>3
  <2>2. Head(out) \in Mine(i) /\ Tail(out) \in Seq(Mine(i)) /\ out = <<Head(out)>> \o Tail(out)
    BY <2>1, HeadTailProperties
  <2> QED
    BY <2>2
<1>5. PICK b : b = [agent[i] EXCEPT !.out = tl]
  OBVIOUS
<1>6. tl \in Seq(Posted) /\ out \in Seq(Posted) /\ e \in Posted /\ e \in Event
  BY <1>4, MineIsPosted DEF Mine, Event
<1>7. /\ b \in Agent /\ b.out = tl /\ b.spent = agent[i].spent /\ b.said = agent[i].said
      /\ b.sid = agent[i].sid /\ b.lastAt = agent[i].lastAt /\ b.turn = agent[i].turn
      /\ b.run = agent[i].run /\ b.started = agent[i].started /\ b.place = agent[i].place
  BY <1>2, <1>5, <1>6 DEF Agent
<1>8. agent'[i] = b /\ \A j \in Issues \ {i} : agent'[j] = agent[j]
  <2>1. agent' = [agent EXCEPT ![i] = b]
    BY <1>3, <1>4, <1>5 DEF Posts, IInv, TypeOK
  <2> QED
    BY <2>1 DEF IInv, TypeOK
<1>9. Out(i)' = tl /\ Out(i)' \in Seq(Mine(i))
  <2>1. b # NoAgent
    BY <1>7 DEF Agent, NoAgent
  <2> QED
    BY <1>7, <1>8, <2>1 DEF Out
<1>10. events \in Seq(Event) /\ events' \in Seq(Event)
  BY DEF IInv, TypeOK
<1>11. PICK q \in Seq(Mine(i)) : q = OfIssue(i, events) /\ q \in Seq(Posted)
  BY <1>1, WayIs, MineIsPosted
<1>12. OnTheWay(i) = q \o out /\ q \o out \in Seq(Posted) /\ Queued(session[i], agent[i], q \o out)
  BY <1>1, <1>3, <1>11, WayIs DEF QueueInv
<1>13. session[i] # NoSession /\ Queued(session[i], b, q \o tl)
  BY <1>2, <1>3, <1>4, <1>6, <1>7, <1>11, <1>12, QueuedDropped
<1>14. \A j \in Issues \ {i} : OfIssue(j, events') = OfIssue(j, events)
  <2> SUFFICES ASSUME NEW j \in Issues \ {i} PROVE OfIssue(j, events') = OfIssue(j, events)
    OBVIOUS
  <2>1. e \notin Mine(j)
    BY <1>4 DEF Mine
  <2>2. OfIssue(j, Append(events, e)) = OfIssue(j, events)
    BY <1>6, <1>10, <2>1, OfIssueAdded
  <2> QED
    BY <1>3, <1>4, <2>2 DEF Posts
<1>15. Others(i)
  BY <1>1, <1>2, <1>8, <1>10, <1>14, WaySame DEF Others
<1>16. OnTheWay(i)' = OfIssue(i, events') \o tl /\ OnTheWay(i)' \in Seq(Posted)
  BY <1>9, <1>10, WayThen
<1>17. session' \in [Issues -> Session \cup {NoSession}] /\ totals'.seconds \in Int /\ reported' \in Int
  BY <1>1, <1>2 DEF QueueInv
<1>18. CASE events' = Append(events, e)
  <2>1. OnTheWay(i)' = q \o out
    <3>1. OfIssue(i, events') = q \o <<e>>
      BY <1>4, <1>6, <1>10, <1>11, <1>18, OfIssueAdded
    <3>2. PICK one \in Seq(Posted) : one = <<e>>
      BY <1>6, OneMessage
    <3>3. (q \o one) \o tl = q \o (one \o tl)
      BY <1>6, <1>11, <3>2, ConcatAssociative
    <3> QED
      BY <1>4, <1>16, <3>1, <3>2, <3>3
  <2>2. Queued(session[i], b, q \o out)
    BY <1>7, <1>12, <1>13 DEF Queued
  <2>3. QueueInv'
    BY <1>1, <1>2, <1>8, <1>9, <1>15, <1>17, <2>1, <2>2, OneQueued
  <2>4. KeptInv'
    <3> SUFFICES ASSUME rootCtx # "cancelled" PROVE KeptInv'
      BY <1>2 DEF KeptInv
    <3>1. Kept(session[i], agent[i], q \o out)
      BY <1>1, <1>12, <1>13 DEF KeptInv, Running
    <3>2. Kept(session[i], b, q \o out)
      BY <1>7, <3>1, KeptSame
    <3>3. totals'.tokens \in Int
      BY <1>2 DEF IInv, TypeOK
    <3>4. Kept(session'[i], agent'[i], OnTheWay(i)')
      BY <1>2, <1>8, <2>1, <3>2
    <3>5. totals'.tokens + TokensOf(OnTheWay(i)') - reported'
            = totals.tokens + TokensOf(OnTheWay(i)) - reported
      BY <1>2, <1>12, <2>1
    <3> QED
      BY <1>1, <1>15, <1>16, <1>17, <3>3, <3>4, <3>5, OneKept
  <2> QED
    BY <2>3, <2>4 DEF BothInv
<1>19. CASE rootCtx = "cancelled" /\ events' = events
  <2>1. OnTheWay(i)' = q \o tl
    BY <1>11, <1>16, <1>19
  <2>2. QueueInv'
    BY <1>1, <1>2, <1>8, <1>9, <1>13, <1>15, <1>17, <2>1, OneQueued
  <2> QED
    BY <1>2, <1>19, <2>2 DEF BothInv, KeptInv
<1> QED
  BY <1>3, <1>4, <1>18, <1>19 DEF Posts

LEMMA FreshTypes ==
    ASSUME IInv, NEW n \in Nat
    PROVE  /\ FreshAgent(n) \in Agent /\ FreshAgent(n).out = <<>> /\ FreshAgent(n).place = "ready"
           /\ FreshAgent(n).spent = 0 /\ FreshAgent(n) # NoAgent
           /\ FreshSession \in Session /\ FreshSession.startedAt = clock
<1>1. <<>> \in Seq(Posted) /\ <<>> \in Seq(Nat) /\ Pending \in Sid
  BY DEF Pending, Sid
<1>2. clock \in Nat
  BY DEF IInv, TypeOK
<1>3. FreshAgent(n) \in Agent
  BY <1>1, <1>2 DEF FreshAgent, Agent
<1>4. FreshSession \in Session
  BY <1>1, <1>2 DEF FreshSession, Session
<1> QED
  BY <1>3, <1>4 DEF FreshAgent, FreshSession, NoAgent

\* A run that has not begun shows nothing.
LEMMA FreshKept ==
    ASSUME IInv, NEW n \in Nat, n > 0
    PROVE  Kept(FreshSession, FreshAgent(n), <<>>)
<1>1. PICK s \in Session, a \in Agent : s = FreshSession /\ a = FreshAgent(n)
  BY FreshTypes
<1>2. /\ s.tokens = 0 /\ s.activity = <<>> /\ s.sid = Pending /\ s.turn = 0
      /\ s.lastAt = -1 /\ s.startedAt = clock
      /\ a.spent = 0 /\ a.said = 0 /\ a.sid = Pending /\ a.turn = 0 /\ a.lastAt = clock
      /\ a.run = n /\ a.started = FALSE
  BY <1>1 DEF FreshSession, FreshAgent
<1>3. InFlight(<<>>) = {} /\ TokensOf(<<>>) = 0 /\ TextsOf(<<>>) = 0
  BY NoMessage
<1>4. TextsKept(s, a, <<>>)
  <2>1. 0 < Window /\ 0 - 0 = 0
    BY SessionsAssumption
  <2>2. <<>> = [k \in 1..0 |-> 0 - 0 + k]
    OBVIOUS
  <2> QED
    BY <1>2, <1>3, <2>1, <2>2 DEF TextsKept
<1>5. LatestKept(s, a, <<>>)
  BY <1>2, <1>3 DEF LatestKept, LastActivity
<1> QED
  BY <1>1, <1>2, <1>3, <1>4, <1>5 DEF Kept

LEMMA DispatchKeeps ==
    ASSUME IInv, BothInv, IInv', NEW i \in Issues, Dispatches(i)
    PROVE  BothInv'
<1>1. QueueInv /\ KeptInv
  BY DEF BothInv
<1>2. /\ session[i] = NoSession /\ rootCtx = "running" /\ runs \in Nat
      /\ session' = [session EXCEPT ![i] = FreshSession]
      /\ agent' = [agent EXCEPT ![i] = FreshAgent(runs + 1)]
      /\ UNCHANGED <<clock, events, totals, reported, rootCtx>>
  BY DEF Dispatches, daemon, IInv, TypeOK
<1>3. PICK n \in Nat : n = runs + 1 /\ n > 0
  BY <1>2
<1>4. PICK a \in Agent : /\ a = FreshAgent(n) /\ a.out = <<>> /\ a.place = "ready" /\ a # NoAgent
  BY FreshTypes
<1>5. /\ agent'[i] = a /\ session'[i] = FreshSession
      /\ session' \in [Issues -> Session \cup {NoSession}]
      /\ \A j \in Issues \ {i} : agent'[j] = agent[j] /\ session'[j] = session[j]
  BY <1>1, <1>2, <1>3, <1>4, FreshTypes DEF IInv, TypeOK, QueueInv
<1>6. events' \in Seq(Event) /\ \A j \in Issues : OfIssue(j, events') = OfIssue(j, events)
  BY <1>2 DEF IInv, TypeOK
<1>7. Others(i)
  BY <1>1, <1>5, <1>6, WaySame DEF Others
<1>8. OnTheWay(i) = <<>> /\ OfIssue(i, events) = <<>>
  <2>1. OnTheWay(i) = <<>>
    BY <1>1, <1>2 DEF QueueInv, Queued
  <2>2. PICK q \in Seq(Mine(i)), out \in Seq(Mine(i)) :
          q = OfIssue(i, events) /\ out = Out(i) /\ q \o out = <<>>
    BY <1>1, <2>1, WayIs
  <2>3. Len(q \o out) = Len(q) + Len(out) /\ Len(q) \in Nat /\ Len(out) \in Nat
    BY ConcatProperties, LenProperties
  <2>4. Len(q) = 0
    BY <2>2, <2>3
  <2>5. q = <<>>
    BY <2>4, EmptySeq
  <2> QED
    BY <2>1, <2>2, <2>5
<1>9. Out(i)' = <<>> /\ <<>> \in Seq(Mine(i)) /\ Out(i)' \in Seq(Mine(i))
  <2>1. Out(i)' = <<>>
    BY <1>4, <1>5 DEF Out
  <2> QED
    BY <2>1
<1>10. OnTheWay(i)' = <<>> /\ OnTheWay(i)' \in Seq(Posted)
  <2>1. OnTheWay(i)' = OfIssue(i, events') \o Out(i)' /\ OnTheWay(i)' \in Seq(Posted)
    BY <1>6, <1>9, WayThen
  <2> QED
    BY <1>6, <1>8, <1>9, <2>1, ConcatEmptySeq
<1>11. FreshSession # NoSession /\ Queued(FreshSession, a, <<>>)
  <2>1. FreshSession # NoSession
    BY DEF FreshSession, NoSession
  <2> QED
    BY <2>1 DEF Queued
<1>12. totals'.seconds \in Int /\ reported' \in Int /\ totals'.tokens \in Int
  BY <1>1, <1>2 DEF QueueInv, IInv, TypeOK
<1>13. QueueInv'
  BY <1>1, <1>5, <1>7, <1>9, <1>10, <1>11, <1>12, OneQueued
<1>14. Kept(FreshSession, a, <<>>)
  BY <1>3, <1>4, FreshKept
<1>15. KeptInv'
  <2>1. rootCtx # "cancelled"
    BY <1>2
  <2>2. totals'.tokens + TokensOf(OnTheWay(i)') - reported'
          = totals.tokens + TokensOf(OnTheWay(i)) - reported
    BY <1>2, <1>8, <1>10
  <2>3. Kept(session'[i], agent'[i], OnTheWay(i)')
    BY <1>5, <1>10, <1>14
  <2> QED
    BY <1>1, <1>7, <1>10, <1>12, <2>1, <2>2, <2>3, OneKept
<1> QED
  BY <1>13, <1>15 DEF BothInv

\* The loop reaches message e of issue i, and r is left on its way.
Reaches(i, e, r) ==
    /\ i \in Issues /\ e \in Posted /\ e = Next1 /\ e.issue = i
    /\ r \in Seq(Posted) /\ OnTheWay(i) = <<e>> \o r
    /\ OfIssue(i, events') \o Out(i) = r
    /\ \A j \in Issues \ {i} : OfIssue(j, events') = OfIssue(j, events)

LEMMA HandlesReaches ==
    ASSUME IInv, QueueInv, NEW kind \in {"update", "exit"}, Handles(kind)
    PROVE  \E i, e, r : Reaches(i, e, r) /\ e.kind = kind
<1>1. events \in Seq(Event) /\ events # <<>> /\ events' = Tail(events) /\ Next1 = Head(events)
      /\ Next1.kind = kind
  BY DEF Handles, Next1, IInv, TypeOK
<1>2. PICK es \in Seq(Event) : es = events
  BY <1>1
<1>3. PICK e \in Event : e = Head(es) /\ e = Next1
  BY <1>1, <1>2, HeadTailProperties
<1>4. PICK tl \in Seq(Event) : tl = Tail(es) /\ tl = events'
  BY <1>1, <1>2, HeadTailProperties
<1>5. e.kind = kind /\ e \in Posted /\ e.issue \in Issues
  BY <1>1, <1>3 DEF Event, Posted
<1>6. PICK i \in Issues : i = e.issue
  BY <1>5
<1>7. e \in Mine(i) /\ \A j \in Issues \ {i} : e \notin Mine(j)
  BY <1>5, <1>6 DEF Mine
<1>8. \A j \in Issues \ {i} : OfIssue(j, events') = OfIssue(j, events)
  BY <1>1, <1>2, <1>3, <1>4, <1>7, OfIssueTaken
<1>9. PICK q \in Seq(Mine(i)), out \in Seq(Mine(i)) : q = OfIssue(i, tl) /\ out = Out(i)
  BY OfIssueType DEF QueueInv
<1>10. OfIssue(i, es) = <<e>> \o q
  BY <1>1, <1>2, <1>3, <1>4, <1>7, <1>9, OfIssueTaken
<1>11. PICK one \in Seq(Mine(i)) : one = <<e>>
  <2>1. <<e>> \in Seq(Mine(i))
    BY <1>7
  <2> QED
    BY <2>1
<1>12. PICK r \in Seq(Mine(i)) : r = q \o out
  BY ConcatProperties
<1>13. OnTheWay(i) = one \o r
  <2>1. OnTheWay(i) = OfIssue(i, es) \o out
    BY <1>2, <1>9, WayIs
  <2>2. (one \o q) \o out = one \o (q \o out)
    BY ConcatAssociative
  <2> QED
    BY <1>10, <1>11, <1>12, <2>1, <2>2
<1>14. r \in Seq(Posted)
  BY MineIsPosted
<1>15. Reaches(i, e, r)
  BY <1>3, <1>4, <1>5, <1>6, <1>8, <1>9, <1>11, <1>12, <1>13, <1>14 DEF Reaches
<1> QED
  BY <1>5, <1>15

LEMMA UpdateKeeps ==
    ASSUME IInv, BothInv, IInv', OnAgentUpdate
    PROVE  BothInv'
<1>1. QueueInv /\ KeptInv /\ Handles("update")
  BY DEF BothInv, OnAgentUpdate
<1>2. PICK i, e, r : Reaches(i, e, r) /\ e.kind = "update"
  BY <1>1, HandlesReaches
<1>3. /\ i \in Issues /\ e \in Posted /\ e = Next1 /\ e.issue = i
      /\ r \in Seq(Posted) /\ OnTheWay(i) = <<e>> \o r
      /\ OfIssue(i, events') \o Out(i) = r
      /\ \A j \in Issues \ {i} : OfIssue(j, events') = OfIssue(j, events)
  BY <1>2 DEF Reaches
<1>4. Queued(session[i], agent[i], <<e>> \o r)
  BY <1>1, <1>3 DEF QueueInv
<1>5. /\ session[i] # NoSession /\ agent[i] \in Agent
      /\ \A u : u # NoSession => Queued(u, agent[i], r)
  <2>1. Shorter(session[i], agent[i], e, r)
    BY <1>3, <1>4, QueuedShorter
  <2> QED
    BY <2>1 DEF Shorter
<1>6. PICK s \in Session : s = session[i]
  BY <1>1, <1>3, <1>5 DEF QueueInv
<1>7. PICK u \in Session : u = Updated(s, e)
  BY <1>2, <1>3, UpdatedType
<1>8. /\ session' = [session EXCEPT ![i] = u]
      /\ totals' = [totals EXCEPT !.tokens = @ + e.usage]
      /\ UNCHANGED <<clock, runs, agent, reported, rootCtx>>
  <2>1. /\ session' = [session EXCEPT ![i] = Updated(s, e)]
        /\ totals' = [totals EXCEPT !.tokens = @ + e.usage]
    BY <1>3, <1>5, <1>6 DEF OnAgentUpdate, Updated
  <2> QED
    BY <1>7, <2>1 DEF OnAgentUpdate, daemon
<1>9. u # NoSession /\ Queued(u, agent[i], r)
  <2>1. NoSession \notin Session
    BY DEF Session, NoSession
  <2> QED
    BY <1>5, <2>1
<1>10. /\ session'[i] = u /\ agent'[i] = agent[i]
       /\ session' \in [Issues -> Session \cup {NoSession}]
       /\ \A j \in Issues \ {i} : agent'[j] = agent[j] /\ session'[j] = session[j]
  BY <1>1, <1>3, <1>8 DEF QueueInv
<1>11. events' \in Seq(Event)
  BY DEF IInv, TypeOK
<1>12. Others(i)
  BY <1>1, <1>3, <1>10, <1>11, WaySame DEF Others
<1>13. Out(i)' = Out(i) /\ Out(i)' \in Seq(Mine(i))
  BY <1>1, <1>3, <1>10 DEF Out, QueueInv
<1>14. OnTheWay(i)' = r
  BY <1>3, <1>11, <1>13, WayThen
<1>15. PICK usage \in Nat : usage = e.usage
  BY <1>2, <1>3 DEF Posted
<1>16. totals'.seconds \in Int /\ reported' \in Int /\ totals'.tokens = totals.tokens + usage
       /\ totals'.tokens \in Int
  BY <1>1, <1>8, <1>15 DEF QueueInv, IInv, TypeOK
<1>17. QueueInv'
  BY <1>1, <1>3, <1>9, <1>10, <1>12, <1>13, <1>14, <1>16, OneQueued
<1>18. KeptInv'
  <2> SUFFICES ASSUME rootCtx # "cancelled" PROVE KeptInv'
    BY <1>8 DEF KeptInv
  <2>1. Kept(s, agent[i], <<e>> \o r)
    BY <1>1, <1>3, <1>5, <1>6 DEF KeptInv, Running
  <2>2. Kept(u, agent[i], r)
    BY <1>2, <1>3, <1>5, <1>7, <2>1, KeptTaken
  <2>3. totals'.tokens + TokensOf(OnTheWay(i)') - reported'
          = totals.tokens + TokensOf(OnTheWay(i)) - reported
    <3>1. PICK x \in Int : x = TokensOf(r)
      BY <1>3, TokensType
    <3>2. TokensOf(OnTheWay(i)) = usage + x
      <4>1. PICK one \in Seq(Posted) : one = <<e>> /\ TokensOf(one) = usage
        BY <1>2, <1>3, <1>15, OneMessage
      <4>2. TokensOf(one \o r) = TokensOf(one) + TokensOf(r)
        BY <1>3, TokensJoined
      <4> QED
        BY <1>3, <3>1, <4>1, <4>2
    <3>3. PICK t \in Int, rep \in Int : t = totals.tokens /\ rep = reported
      BY <1>1 DEF IInv, TypeOK, QueueInv
    <3>4. totals'.tokens = t + usage /\ reported' = rep /\ TokensOf(OnTheWay(i)') = x
      BY <1>8, <1>14, <1>16, <3>1, <3>3
    <3>5. (t + usage) + x - rep = t + (usage + x) - rep
      OBVIOUS
    <3> QED
      BY <3>2, <3>3, <3>4, <3>5
  <2>4. Kept(session'[i], agent'[i], OnTheWay(i)')
    BY <1>10, <1>14, <2>2
  <2> QED
    BY <1>1, <1>3, <1>12, <1>14, <1>16, <2>3, <2>4, OneKept
<1> QED
  BY <1>17, <1>18 DEF BothInv

LEMMA ExitKeeps ==
    ASSUME IInv, BothInv, IInv', OnWorkerExit
    PROVE  BothInv'
<1>1. QueueInv /\ KeptInv /\ Handles("exit")
  BY DEF BothInv, OnWorkerExit
<1>2. PICK i, e, r : Reaches(i, e, r) /\ e.kind = "exit"
  BY <1>1, HandlesReaches
<1>3. /\ i \in Issues /\ e \in Posted /\ e = Next1 /\ e.issue = i
      /\ r \in Seq(Posted) /\ OnTheWay(i) = <<e>> \o r
      /\ OfIssue(i, events') \o Out(i) = r
      /\ \A j \in Issues \ {i} : OfIssue(j, events') = OfIssue(j, events)
  BY <1>2 DEF Reaches
<1>4. Queued(session[i], agent[i], <<e>> \o r)
  BY <1>1, <1>3 DEF QueueInv
<1>5. session[i] # NoSession /\ agent[i] \in Agent /\ agent[i].place = "done" /\ r = <<>>
  <2>1. Shorter(session[i], agent[i], e, r)
    BY <1>3, <1>4, QueuedShorter
  <2> QED
    BY <1>2, <2>1 DEF Shorter
<1>6. PICK s \in Session : s = session[i]
  BY <1>1, <1>3, <1>5 DEF QueueInv
<1>7. /\ session' = [session EXCEPT ![i] = NoSession]
      /\ totals' = [totals EXCEPT !.seconds = @ + (clock - s.startedAt)]
      /\ UNCHANGED <<clock, runs, agent, reported, rootCtx>>
  BY <1>3, <1>6 DEF OnWorkerExit, daemon
<1>8. /\ session'[i] = NoSession /\ agent'[i] = agent[i]
      /\ session' \in [Issues -> Session \cup {NoSession}]
      /\ \A j \in Issues \ {i} : agent'[j] = agent[j] /\ session'[j] = session[j]
  BY <1>1, <1>3, <1>7 DEF QueueInv
<1>9. events' \in Seq(Event)
  BY DEF IInv, TypeOK
<1>10. Others(i)
  BY <1>1, <1>3, <1>8, <1>9, WaySame DEF Others
<1>11. Out(i)' = Out(i) /\ Out(i)' \in Seq(Mine(i))
  BY <1>1, <1>3, <1>8 DEF Out, QueueInv
<1>12. OnTheWay(i)' = <<>> /\ OnTheWay(i)' \in Seq(Posted)
  BY <1>3, <1>5, <1>9, <1>11, WayThen
<1>13. totals'.seconds \in Int /\ reported' \in Int /\ totals'.tokens = totals.tokens
       /\ totals'.tokens \in Int
  <2>1. clock \in Int /\ s.startedAt \in Int /\ totals.seconds \in Int
    BY <1>1 DEF Session, QueueInv, IInv, TypeOK
  <2> QED
    BY <1>1, <1>7, <2>1 DEF QueueInv, IInv, TypeOK
<1>14. Queued(NoSession, agent[i], <<>>)
  <2>1. DOMAIN <<>> = {}
    OBVIOUS
  <2> QED
    BY <1>5, <2>1 DEF Queued
<1>15. QueueInv'
  BY <1>1, <1>3, <1>8, <1>10, <1>11, <1>12, <1>13, <1>14, OneQueued
<1>16. KeptInv'
  <2> SUFFICES ASSUME rootCtx # "cancelled" PROVE KeptInv'
    BY <1>7 DEF KeptInv
  <2>1. TokensOf(OnTheWay(i)) = 0 /\ TokensOf(OnTheWay(i)') = 0
    <3>1. PICK one \in Seq(Posted) : one = <<e>> /\ TokensOf(one) = 0
      BY <1>2, <1>3, OneMessage
    <3>2. OnTheWay(i) = one
      BY <1>3, <1>5, <3>1, ConcatEmptySeq
    <3> QED
      BY <1>12, <3>1, <3>2, NoMessage
  <2>2. totals'.tokens + TokensOf(OnTheWay(i)') - reported'
          = totals.tokens + TokensOf(OnTheWay(i)) - reported
    BY <1>7, <1>13, <2>1
  <2> QED
    BY <1>1, <1>3, <1>8, <1>10, <1>12, <1>13, <2>2, OneKept
<1> QED
  BY <1>15, <1>16 DEF BothInv

LEMMA TickKeeps ==
    ASSUME IInv, BothInv, IInv', OnTick
    PROVE  BothInv'
<1>1. QueueInv /\ KeptInv /\ Handles("tick")
  BY DEF BothInv, OnTick
<1>2. /\ events \in Seq(Event) /\ events' \in Seq(Event) /\ events # <<>>
      /\ events' = Tail(events) /\ Head(events).kind = "tick" /\ Head(events) \in Event
  BY <1>1, HandlesType DEF Handles, Next1, IInv, TypeOK
<1>3. ASSUME NEW j \in Issues PROVE OfIssue(j, events') = OfIssue(j, events)
  <2>1. Head(events) \notin Mine(j)
    BY <1>2, MineIs
  <2> QED
    BY <1>2, <2>1, OfIssueTaken
<1>4. /\ session \in [Issues -> Session \cup {NoSession}]
      /\ session' = [j \in Issues |->
           IF session[j] # NoSession /\ Stalled(session[j])
           THEN [session[j] EXCEPT !.terminating = TRUE] ELSE session[j]]
      /\ UNCHANGED <<clock, runs, agent, totals, reported, rootCtx>>
  BY <1>1 DEF QueueInv, OnTick, daemon
<1>5. ASSUME NEW j \in Issues
      PROVE  /\ session'[j] \in Session \cup {NoSession}
             /\ session'[j] = session[j] \/ Terminates(session[j], session'[j])
  <2>1. CASE session'[j] = session[j]
    BY <1>4, <2>1
  <2>2. CASE session[j] # NoSession /\ session'[j] = [session[j] EXCEPT !.terminating = TRUE]
    <3>1. session[j] \in Session
      BY <1>4, <2>2
    <3> QED
      BY <2>2, <3>1 DEF Terminates, Session
  <2> QED
    BY <1>4, <2>1, <2>2
<1>6. session' \in [Issues -> Session \cup {NoSession}]
  BY <1>4, <1>5
<1> QED
  BY <1>1, <1>2, <1>3, <1>4, <1>5, <1>6, NoneKept DEF BothInv

\* What is nobody's message comes and goes.
LEMMA OtherKeeps ==
    ASSUME IInv, BothInv, IInv',
           UNCHANGED <<agent, session, totals, reported>>,
           rootCtx' # "cancelled" => rootCtx # "cancelled",
           \/ events' = events
           \/ \E e \in Event : e.kind \in {"tick", "snapshot"} /\ events' = Append(events, e)
           \/ Handles("snapshot")
    PROVE  BothInv'
<1>1. QueueInv /\ KeptInv /\ events \in Seq(Event) /\ events' \in Seq(Event)
  BY DEF BothInv, IInv, TypeOK
<1>2. ASSUME NEW j \in Issues PROVE OfIssue(j, events') = OfIssue(j, events)
  <2>1. CASE events' = events
    BY <2>1
  <2>2. ASSUME NEW e \in Event, e.kind \in {"tick", "snapshot"}, events' = Append(events, e)
        PROVE  OfIssue(j, events') = OfIssue(j, events)
    BY <1>1, <2>2, WayOthers
  <2>3. CASE Handles("snapshot")
    <3>1. /\ events # <<>> /\ events' = Tail(events)
          /\ Head(events).kind = "snapshot" /\ Head(events) \in Event
      BY <2>3, HandlesType DEF Handles, Next1
    <3>2. Head(events) \notin Mine(j)
      BY <3>1, MineIs
    <3> QED
      BY <1>1, <3>1, <3>2, OfIssueTaken
  <2> QED
    BY <2>1, <2>2, <2>3
<1>3. session' \in [Issues -> Session \cup {NoSession}]
      /\ \A j \in Issues : session'[j] = session[j]
  BY <1>1 DEF QueueInv
<1> QED
  BY <1>1, <1>2, <1>3, NoneKept DEF BothInv

LEMMA AgentKeeps ==
    ASSUME IInv, BothInv, IInv', NEW i \in Issues, HandlesLine(i) \/ AgentStep(i)
    PROVE  BothInv'
<1>1. reported \in Int
  BY DEF BothInv, QueueInv
<1>2. CASE Posts(i)
  BY <1>2, PostsKeeps
<1>3. CASE ~Posts(i)
  <2>1. \E b, out : Speaks(i, b, out) /\ Reports(i, b, out)
    <3>1. ASSUME HandlesLine(i) PROVE \E b, out : Speaks(i, b, out) /\ Reports(i, b, out)
      BY <3>1, InitSpeaks, MessageSpeaks, ResultSpeaks DEF HandlesLine
    <3>2. ASSUME AgentStep(i) PROVE \E b, out : Speaks(i, b, out) /\ Reports(i, b, out)
      BY <1>1, <1>3, <3>2, StartSpeaks, EndSpeaks, FailSpeaks DEF AgentStep
    <3> QED
      BY <3>1, <3>2
  <2> QED
    BY <2>1, SpeaksKeeps
<1> QED
  BY <1>2, <1>3

LEMMA BothKeeps ==
    ASSUME IInv, BothInv, IInv', [Next]_vars
    PROVE  BothInv'
<1>1. ASSUME NEW i \in Issues, HandlesLine(i) \/ AgentStep(i) PROVE BothInv'
  BY <1>1, AgentKeeps
<1>2. ASSUME NEW i \in Issues, Dispatches(i) PROVE BothInv'
  BY <1>2, DispatchKeeps
<1>3. ASSUME NEW i \in Issues, RetryReleases(i) PROVE BothInv'
  BY <1>3, OtherKeeps DEF RetryReleases, daemon
<1>4. CASE OnAgentUpdate \/ OnWorkerExit \/ OnTick
  BY <1>4, UpdateKeeps, ExitKeeps, TickKeeps
<1>5. CASE OnSnapshotRequest
  BY <1>5, OtherKeeps DEF OnSnapshotRequest, runtime, daemon
<1>6. ASSUME NEW o \in Observers, Asks(o) PROVE BothInv'
  <2>1. requests + 1 \in 1..MaxRequests
    BY <1>6, SessionsAssumption DEF Asks, IInv, TypeOK
  <2>2. [kind |-> "snapshot", reply |-> requests + 1] \in Event
    BY <2>1 DEF Event
  <2>3. \/ events' = events
        \/ events' = Append(events, [kind |-> "snapshot", reply |-> requests + 1])
    BY <1>6 DEF Asks, ReplyChannel
  <2> QED
    BY <1>6, <2>2, <2>3, OtherKeeps DEF Asks, runtime, daemon
<1>7. ASSUME NEW o \in Observers, ObserverStep(o) PROVE BothInv'
  BY <1>7, OtherKeeps
  DEF ObserverStep, Waits, Receives, TimesOut, SeesShutdown, runtime, daemon
<1>8. CASE TickFires
  <2>1. [kind |-> "tick"] \in Event
    BY DEF Event
  <2> QED
    BY <1>8, <2>1, OtherKeeps DEF TickFires, runtime, daemon
<1>9. CASE Signalled \/ RunSetsContext \/ RunReturns \/ TimePasses
  BY <1>9, OtherKeeps DEF Signalled, RunSetsContext, RunReturns, TimePasses, runtime, daemon
<1>10. CASE UNCHANGED vars
  BY <1>10, OtherKeeps DEF vars, runtime, daemon
<1> QED
  BY <1>1, <1>2, <1>3, <1>4, <1>5, <1>6, <1>7, <1>8, <1>9, <1>10
  DEF Next, Environment, LoopStep

LEMMA BothHold == Init => BothInv
<1> SUFFICES ASSUME Init PROVE BothInv
  OBVIOUS
<1>1. /\ agent = [i \in Issues |-> NoAgent] /\ events = <<>>
      /\ session = [i \in Issues |-> NoSession]
      /\ totals.tokens = 0 /\ totals.seconds = 0 /\ reported = 0
  BY DEF Init
<1>2. ASSUME NEW i \in Issues PROVE Out(i) = <<>> /\ OnTheWay(i) = <<>>
  <2>1. <<>> \o <<>> = <<>>
    OBVIOUS
  <2>2. Out(i) = <<>>
    BY <1>1 DEF Out
  <2>3. OnTheWay(i) = OfIssue(i, <<>> \o <<>>)
    BY <1>1 DEF OnTheWay
  <2> QED
    BY <2>1, <2>2, <2>3, OfIssueEmpty
<1>3. \A i \in Issues : <<>> \in Seq(Mine(i)) /\ Queued(NoSession, NoAgent, <<>>)
  <2>1. DOMAIN <<>> = {}
    OBVIOUS
  <2> QED
    BY <2>1 DEF Queued
<1>4. QueueInv
  <2>1. session \in [Issues -> Session \cup {NoSession}] /\ totals.seconds \in Int /\ reported \in Int
    BY <1>1
  <2>2. ASSUME NEW i \in Issues
        PROVE  Out(i) \in Seq(Mine(i)) /\ Queued(session[i], agent[i], OnTheWay(i))
    <3>1. session[i] = NoSession /\ agent[i] = NoAgent
      BY <1>1
    <3>2. <<>> \in Seq(Mine(i)) /\ Queued(NoSession, NoAgent, <<>>)
      BY <1>3
    <3> QED
      BY <1>2, <3>1, <3>2
  <2> QED
    BY <2>1, <2>2 DEF QueueInv
<1>5. KeptInv
  <2>1. AllTokens = 0
    <3>1. PICK f : f = [i \in Issues |-> TokensOf(OnTheWay(i))]
      OBVIOUS
    <3>2. PICK g : g = [i \in Issues |-> 0]
      OBVIOUS
    <3>3. \A i \in Issues : f[i] = 0 /\ g[i] = 0
      BY <1>2, <3>1, <3>2, NoMessage
    <3>4. AllTokens = SumFunctionOnSet(f, Issues)
      <4>1. AllTokens = SumFunction(f) /\ DOMAIN f = Issues
        BY <3>1 DEF AllTokens
      <4> QED
        BY <4>1 DEF SumFunction
    <3>5. SumFunctionOnSet(f, Issues) = 0
      BY <3>3, ZeroSum, SessionsAssumption
    <3> QED
      BY <3>4, <3>5
  <2> QED
    BY <1>1, <2>1 DEF KeptInv, AllTokens, Running
<1> QED
  BY <1>4, <1>5 DEF BothInv

\* Every goroutine has a session until its exit is reached, and each session
\* agrees with what its goroutine has said and the loop has reached.
THEOREM SessionInvariant == Spec => [](IInv /\ BothInv)
<1>1. IInv /\ [Next]_vars /\ BothInv => BothInv'
  BY NextKeeps, BothKeeps
<1> QED
  BY <1>1, BothHold, RepliesMatch, PTL DEF Spec

\* No token, text or turn of a run is lost or counted twice between the client
\* and the snapshot, however its messages queue up behind others (emit, post,
\* onAgentUpdate, onWorkerExit).
THEOREM SessionsReport == Spec => []ReportsAreKept
<1>1. IInv /\ BothInv => ReportsAreKept
  <2> SUFFICES ASSUME IInv, BothInv, rootCtx # "cancelled" PROVE ReportsAreKept
    BY DEF ReportsAreKept
  <2>1. /\ totals.tokens + SumFunction([i \in Issues |-> TokensOf(OnTheWay(i))]) = reported
        /\ \A i \in Running : Kept(session[i], agent[i], OnTheWay(i))
    BY DEF BothInv, KeptInv
  <2>2. ASSUME NEW i \in Running
        PROVE  LET s == session[i]
                   texts == agent[i].said - TextsOf(OnTheWay(i))
                   shown == IF texts < Window THEN texts ELSE Window
               IN  /\ s.tokens + TokensOf(OnTheWay(i)) = agent[i].spent
                   /\ s.activity = [k \in 1..shown |-> texts - shown + k]
                   /\ InFlight(OnTheWay(i)) = {} /\ agent[i].place # "turn" => s.sid = agent[i].sid
                   /\ InFlight(OnTheWay(i)) = {} /\ agent[i].place = "ready" => s.turn = agent[i].turn
    BY <2>1 DEF Kept, TextsKept, LatestKept
  <2> QED
    BY <2>1, <2>2 DEF ReportsAreKept
<1> QED
  BY <1>1, SessionInvariant, PTL

-----------------------------------------------------------------------------
(* The seconds of the live sessions *)

Typed(s) == s \in [Issues -> Session \cup {NoSession}]
Live(s) == {i \in Issues : s[i] # NoSession}
Lived(s, c) == [i \in Live(s) |-> c - s[i].startedAt]
Seconds(s, c) == SumFunctionOnSet(Lived(s, c), Live(s))

LEMMA SecondsAre ==
    /\ LiveSeconds = totals.seconds + Seconds(session, clock)
    /\ LiveSeconds' = totals'.seconds + Seconds(session', clock')
    /\ Running = Live(session)
<1>1. DOMAIN Lived(session, clock) = Live(session) /\ DOMAIN Lived(session', clock') = Live(session')
  BY DEF Lived
<1>2. Running = Live(session) /\ Running' = Live(session')
  BY DEF Running, Live
<1> QED
  BY <1>1, <1>2 DEF LiveSeconds, Seconds, Lived, SumFunction

LEMMA LivedType ==
    ASSUME NEW s, Typed(s), NEW c \in Nat
    PROVE  /\ IsFiniteSet(Live(s)) /\ Cardinality(Live(s)) \in Nat
           /\ \A i \in Live(s) : /\ s[i] \in Session /\ s[i].startedAt \in Nat
                                 /\ Lived(s, c)[i] = c - s[i].startedAt /\ Lived(s, c)[i] \in Int
           /\ Seconds(s, c) \in Int
<1>1. IsFiniteSet(Live(s)) /\ Cardinality(Live(s)) \in Nat
  BY FS_Subset, FS_CardinalityType, SessionsAssumption DEF Live
<1>2. ASSUME NEW i \in Live(s)
      PROVE  /\ s[i] \in Session /\ s[i].startedAt \in Nat
             /\ Lived(s, c)[i] = c - s[i].startedAt /\ Lived(s, c)[i] \in Int
  <2>1. s[i] \in Session
    BY DEF Typed, Live
  <2>2. s[i].startedAt \in Nat
    BY <2>1 DEF Session
  <2> QED
    BY <2>1, <2>2 DEF Lived
<1>3. Seconds(s, c) \in Int
  BY <1>1, <1>2, SumType DEF Seconds
<1> QED
  BY <1>1, <1>2, <1>3

LEMMA SecondsRaised ==
    ASSUME NEW s, Typed(s), NEW c \in Nat, NEW d \in Nat, NEW t, Typed(t), Live(t) = Live(s),
           \A i \in Live(s) : t[i].startedAt = s[i].startedAt
    PROVE  Seconds(t, d) = Seconds(s, c) + (d - c) * Cardinality(Live(s))
<1>1. IsFiniteSet(Live(s)) /\ d - c \in Int
  BY LivedType
<1>2. ASSUME NEW i \in Live(s)
      PROVE  Lived(s, c)[i] \in Int /\ Lived(t, d)[i] = Lived(s, c)[i] + (d - c)
  <2>1. PICK n \in Nat : n = s[i].startedAt
    BY LivedType
  <2>2. Lived(s, c)[i] = c - n /\ Lived(t, d)[i] = d - n
    BY <2>1 DEF Lived
  <2>3. d - n = (c - n) + (d - c)
    OBVIOUS
  <2> QED
    BY <2>2, <2>3
<1>3. SumFunctionOnSet(Lived(t, d), Live(s))
        = SumFunctionOnSet(Lived(s, c), Live(s)) + (d - c) * Cardinality(Live(s))
  <2>1. PICK f, g : f = Lived(s, c) /\ g = Lived(t, d)
    OBVIOUS
  <2>2. PICK e \in Int : e = d - c
    BY <1>1
  <2>3. \A i \in Live(s) : f[i] \in Int /\ g[i] = f[i] + e
    BY <1>2, <2>1, <2>2
  <2>4. SumFunctionOnSet(g, Live(s)) = SumFunctionOnSet(f, Live(s)) + e * Cardinality(Live(s))
    BY <1>1, <2>3, SumRaised
  <2> QED
    BY <2>1, <2>2, <2>4
<1> QED
  BY <1>3 DEF Seconds

LEMMA SecondsSame ==
    ASSUME NEW s, Typed(s), NEW c \in Nat, NEW t, Typed(t), Live(t) = Live(s),
           \A i \in Live(s) : t[i].startedAt = s[i].startedAt
    PROVE  Seconds(t, c) = Seconds(s, c)
<1>1. Seconds(t, c) = Seconds(s, c) + (c - c) * Cardinality(Live(s))
  BY SecondsRaised
<1>2. PICK n \in Nat, v \in Int : n = Cardinality(Live(s)) /\ v = Seconds(s, c)
  BY LivedType
<1>3. v + (c - c) * n = v
  OBVIOUS
<1> QED
  BY <1>1, <1>2, <1>3

\* A session that ends takes its seconds along.
LEMMA SecondsEnd ==
    ASSUME NEW s, Typed(s), NEW c \in Nat, NEW i \in Live(s),
           NEW t, Typed(t), t[i] = NoSession, \A j \in Issues \ {i} : t[j] = s[j]
    PROVE  Seconds(s, c) = (c - s[i].startedAt) + Seconds(t, c)
<1>1. Live(t) = Live(s) \ {i} /\ \A j \in Live(t) : t[j] = s[j]
  BY DEF Typed, Live
<1>2. Seconds(s, c) = Lived(s, c)[i] + SumFunctionOnSet(Lived(s, c), Live(s) \ {i})
  BY LivedType, SumRemove DEF Seconds
<1>3. SumFunctionOnSet(Lived(s, c), Live(t)) = Seconds(t, c)
  <2>1. \A j \in Live(t) : Lived(t, c)[j] \in Int /\ Lived(s, c)[j] = Lived(t, c)[j]
    BY <1>1, LivedType DEF Lived
  <2>2. IsFiniteSet(Live(t))
    BY <1>1, LivedType
  <2> QED
    BY <2>1, <2>2, SumSame DEF Seconds
<1>4. Lived(s, c)[i] = c - s[i].startedAt
  BY DEF Lived
<1> QED
  BY <1>1, <1>2, <1>3, <1>4

\* What a step does to the sessions.
SameSessions ==
    \A i \in Issues : \/ session'[i] = session[i]
                      \/ /\ session[i] # NoSession /\ session'[i] # NoSession
                         /\ session'[i].startedAt = session[i].startedAt

LEMMA StepSessions ==
    ASSUME IInv, BothInv, [Next]_vars
    PROVE  \/ SameSessions /\ totals'.seconds = totals.seconds /\ (clock' = clock \/ TimePasses)
           \/ \E i \in Issues : Dispatches(i)
           \/ OnWorkerExit
<1>1. ASSUME NEW i \in Issues, HandlesLine(i) \/ AgentStep(i) \/ RetryReleases(i)
      PROVE  SameSessions /\ totals'.seconds = totals.seconds /\ clock' = clock
  BY <1>1 DEF HandlesLine, AgentStep, RetryReleases, HandlesInit, HandlesMessage, HandlesResult,
     TurnFails, Emits, TurnStarts, RunEnds, Posts, runtime, SameSessions
<1>2. CASE OnAgentUpdate
  <2>1. session[Next1.issue] = NoSession \/ session[Next1.issue] \in Session
    <3>1. Handles("update") /\ QueueInv
      BY <1>2 DEF OnAgentUpdate, BothInv
    <3>2. Next1 \in Event /\ Next1.kind = "update"
      BY <3>1, HandlesType
    <3>3. Next1.issue \in Issues
      BY <3>2 DEF Event, Posted
    <3> QED
      BY <3>1, <3>3 DEF QueueInv
  <2>2. PICK j : j = Next1.issue
    OBVIOUS
  <2>3. CASE session[j] = NoSession
    BY <1>2, <2>2, <2>3 DEF OnAgentUpdate, SameSessions
  <2>4. CASE session[j] # NoSession
    <3>1. session[j] \in Session
      BY <2>1, <2>2, <2>4
    <3>2. PICK u : u = Updated(session[j], Next1)
      OBVIOUS
    <3>3. session' = [session EXCEPT ![j] = u] /\ totals'.seconds = totals.seconds /\ clock' = clock
      BY <1>2, <2>2, <2>4, <3>2 DEF OnAgentUpdate, Updated, IInv, TypeOK
    <3>4. u.startedAt = session[j].startedAt /\ u # NoSession
      <4>1. Next1 \in Posted /\ Next1.kind = "update"
        <5>1. Handles("update")
          BY <1>2 DEF OnAgentUpdate
        <5>2. Next1 \in Event /\ Next1.kind = "update"
          BY <5>1, HandlesType
        <5> QED
          BY <5>2 DEF Event
      <4>2. u.startedAt = session[j].startedAt /\ u \in Session
        BY <3>1, <3>2, <4>1, UpdatedType
      <4>3. NoSession \notin Session
        BY DEF NoSession, Session
      <4> QED
        BY <4>2, <4>3
    <3>5. SameSessions
      BY <2>4, <3>3, <3>4 DEF SameSessions, BothInv, QueueInv
    <3> QED
      BY <3>3, <3>5
  <2> QED
    BY <2>3, <2>4
<1>3. CASE OnTick
  <2>1. \A i \in Issues : session'[i] = session[i] \/
          (session[i] # NoSession /\ session'[i] = [session[i] EXCEPT !.terminating = TRUE])
    BY <1>3 DEF OnTick
  <2>2. ASSUME NEW i \in Issues, session[i] # NoSession,
               session'[i] = [session[i] EXCEPT !.terminating = TRUE]
        PROVE  session'[i] # NoSession /\ session'[i].startedAt = session[i].startedAt
    <3>1. session[i] \in Session
      BY <2>2 DEF BothInv, QueueInv
    <3> QED
      BY <2>2, <3>1 DEF Session, NoSession
  <2> QED
    BY <1>3, <2>1, <2>2 DEF OnTick, SameSessions
<1>4. CASE OnSnapshotRequest \/ TickFires \/ Signalled \/ RunSetsContext \/ RunReturns
  BY <1>4 DEF OnSnapshotRequest, TickFires, Signalled, RunSetsContext, RunReturns, runtime, SameSessions
<1>5. ASSUME NEW o \in Observers, Asks(o) \/ ObserverStep(o)
      PROVE  SameSessions /\ totals'.seconds = totals.seconds /\ clock' = clock
  BY <1>5 DEF Asks, ObserverStep, Waits, Receives, TimesOut, SeesShutdown, runtime, SameSessions
<1>6. CASE TimePasses
  BY <1>6 DEF TimePasses, runtime, SameSessions
<1>7. CASE UNCHANGED vars
  BY <1>7 DEF vars, runtime, SameSessions
<1> QED
  BY <1>1, <1>2, <1>3, <1>4, <1>5, <1>6, <1>7 DEF Next, Environment, LoopStep

LEMMA StepSeconds ==
    ASSUME IInv, BothInv, IInv', BothInv', [Next]_vars
    PROVE  LiveSeconds' - LiveSeconds = (clock' - clock) * Cardinality(Running)
<1>1. PICK s, t : s = session /\ t = session' /\ Typed(s) /\ Typed(t)
  BY DEF BothInv, QueueInv, Typed
<1>2. PICK c \in Nat, d \in Nat : c = clock /\ d = clock'
  BY DEF IInv, TypeOK
<1>3. PICK n \in Int, m \in Int : n = totals.seconds /\ m = totals'.seconds
  BY DEF BothInv, QueueInv
<1>4. PICK k \in Nat : k = Cardinality(Live(s))
  BY <1>1, <1>2, LivedType
<1>5. PICK u \in Int, v \in Int : u = Seconds(s, c) /\ v = Seconds(t, d)
  BY <1>1, <1>2, LivedType
<1>6. LiveSeconds = n + u /\ LiveSeconds' = m + v /\ Running = Live(s)
  BY <1>1, <1>2, <1>3, <1>5, SecondsAre
<1>7. (m + v) - (n + u) = (d - c) * k
  <2>1. CASE SameSessions /\ totals'.seconds = totals.seconds
    <3>1. Live(t) = Live(s) /\ \A i \in Live(s) : t[i].startedAt = s[i].startedAt
      BY <1>1, <2>1 DEF SameSessions, Live
    <3>2. v = u + (d - c) * k
      BY <1>1, <1>4, <1>5, <3>1, SecondsRaised
    <3>3. PICK w \in Int : w = (d - c) * k
      OBVIOUS
    <3>4. v = u + w /\ m = n
      BY <1>3, <2>1, <3>2, <3>3
    <3>5. (m + v) - (n + u) = w
      BY <3>4
    <3> QED
      BY <3>3, <3>5
  <2>2. ASSUME NEW i \in Issues, Dispatches(i) PROVE (m + v) - (n + u) = (d - c) * k
    <3>1. /\ s[i] = NoSession /\ t = [s EXCEPT ![i] = FreshSession] /\ d = c /\ m = n
      BY <1>1, <1>2, <1>3, <2>2 DEF Dispatches
    <3>2. FreshSession.startedAt = c /\ FreshSession # NoSession
      BY <1>2 DEF FreshSession, NoSession
    <3>3. i \in Live(t) /\ t[i].startedAt = c /\ s[i] = NoSession /\ \A j \in Issues \ {i} : s[j] = t[j]
      BY <1>1, <3>1, <3>2 DEF Live, Typed
    <3>4. Seconds(t, c) = (c - t[i].startedAt) + Seconds(s, c)
      BY <1>1, <3>3, SecondsEnd
    <3>5. v = (c - c) + u
      BY <1>5, <3>1, <3>3, <3>4
    <3>6. v = u
      BY <3>5
    <3>7. (d - c) * k = 0
      BY <3>1
    <3> QED
      BY <3>1, <3>6, <3>7
  <2>3. CASE OnWorkerExit
    <3>1. PICK i : i = Next1.issue
      OBVIOUS
    <3>2. /\ t = [s EXCEPT ![i] = NoSession] /\ d = c
          /\ totals' = [totals EXCEPT !.seconds = @ + (clock - session[i].startedAt)]
      BY <1>1, <1>2, <2>3, <3>1 DEF OnWorkerExit
    <3>3. i \in Live(s)
      <4>1. QueueInv /\ Handles("exit")
        BY <2>3 DEF BothInv, OnWorkerExit
      <4>2. PICK j, e, r : Reaches(j, e, r)
        BY <4>1, HandlesReaches
      <4>3. j \in Issues /\ j = i /\ e \in Posted /\ r \in Seq(Posted) /\ OnTheWay(j) = <<e>> \o r
        BY <3>1, <4>2 DEF Reaches
      <4>4. Queued(session[j], agent[j], <<e>> \o r)
        BY <4>1, <4>3 DEF QueueInv
      <4>5. Shorter(session[j], agent[j], e, r)
        BY <4>3, <4>4, QueuedShorter
      <4> QED
        BY <1>1, <4>3, <4>5 DEF Shorter, Live
    <3>4. PICK h \in Nat : h = s[i].startedAt
      BY <1>1, <1>2, <3>3, LivedType
    <3>5. m = n + (c - h)
      BY <1>1, <1>2, <1>3, <3>2, <3>4 DEF IInv, TypeOK
    <3>6. u = (c - h) + v
      <4>1. t[i] = NoSession /\ \A j \in Issues \ {i} : t[j] = s[j]
        BY <1>1, <3>2, <3>3 DEF Typed, Live
      <4>2. Seconds(s, c) = (c - s[i].startedAt) + Seconds(t, c)
        BY <1>1, <3>3, <4>1, SecondsEnd
      <4> QED
        BY <1>5, <3>2, <3>4, <4>2
    <3>7. (m + v) - (n + u) = 0
      BY <3>5, <3>6
    <3>8. (d - c) * k = 0
      BY <3>2
    <3> QED
      BY <3>7, <3>8
  <2> QED
    BY <2>1, <2>2, <2>3, StepSessions
<1> QED
  BY <1>2, <1>4, <1>6, <1>7

\* Each worker's second is counted once, while it runs and after it has ended
\* (onWorkerExit, buildSnapshot).
THEOREM SecondsAddUp == Spec => SecondsFollowTheClock
<1>1. /\ IInv /\ BothInv /\ (IInv /\ BothInv)' /\ [Next]_vars
      => [LiveSeconds' - LiveSeconds = (clock' - clock) * Cardinality(Running)]_vars
  BY StepSeconds
<1> QED
  BY <1>1, SessionInvariant, PTL DEF Spec, SecondsFollowTheClock

-----------------------------------------------------------------------------
(* Stalled workers *)

LEMMA StepStalls ==
    ASSUME IInv, BothInv, [Next]_vars, NEW i \in Running,
           session'[i] # NoSession, ~session[i].terminating, session'[i].terminating
    PROVE  clock - agent[i].lastAt > Stall \/ InFlight(OnTheWay(i)) # {} \/ rootCtx = "cancelled"
<1>1. QueueInv /\ KeptInv /\ i \in Issues /\ session[i] # NoSession /\ session[i] \in Session
  BY DEF BothInv, QueueInv, Running
<1>2. session' # session
  OBVIOUS
<1>3. OnTick
  <2>1. ASSUME NEW j \in Issues, HandlesLine(j) \/ AgentStep(j) \/ RetryReleases(j)
        PROVE  FALSE
    BY <1>2, <2>1 DEF HandlesLine, AgentStep, RetryReleases, HandlesInit, HandlesMessage,
       HandlesResult, TurnFails, Emits, TurnStarts, RunEnds, Posts, runtime
  <2>2. ASSUME NEW j \in Issues, Dispatches(j) PROVE FALSE
    <3>1. j # i
      BY <1>1, <2>2 DEF Dispatches
    <3> QED
      BY <1>1, <2>2, <3>1 DEF Dispatches, QueueInv
  <2>3. CASE OnAgentUpdate
    <3>1. PICK j : j = Next1.issue
      OBVIOUS
    <3>2. session' = [session EXCEPT ![j] = Updated(session[j], Next1)] /\ session[j] # NoSession
      BY <1>2, <2>3, <3>1 DEF OnAgentUpdate, Updated
    <3>3. j = i
      BY <1>1, <3>2 DEF QueueInv
    <3>4. Next1 \in Posted /\ Next1.kind = "update"
      <4>1. Handles("update")
        BY <2>3 DEF OnAgentUpdate
      <4>2. Next1 \in Event /\ Next1.kind = "update"
        BY <4>1, HandlesType
      <4> QED
        BY <4>2 DEF Event
    <3>5. Updated(session[i], Next1).terminating = session[i].terminating
      BY <1>1, <3>4, UpdatedType
    <3>6. session'[i] = Updated(session[i], Next1)
      BY <1>1, <3>2, <3>3 DEF QueueInv
    <3> QED
      BY <3>5, <3>6
  <2>4. CASE OnWorkerExit
    <3>1. session' = [session EXCEPT ![Next1.issue] = NoSession]
      BY <2>4 DEF OnWorkerExit
    <3> QED
      BY <1>1, <3>1 DEF QueueInv
  <2>5. ASSUME NEW o \in Observers, Asks(o) \/ ObserverStep(o) PROVE FALSE
    BY <1>2, <2>5 DEF Asks, ObserverStep, Waits, Receives, TimesOut, SeesShutdown, runtime
  <2>6. CASE \/ OnSnapshotRequest \/ TickFires \/ Signalled \/ RunSetsContext \/ RunReturns
             \/ TimePasses \/ UNCHANGED vars
    BY <1>2, <2>6 DEF OnSnapshotRequest, TickFires, Signalled, RunSetsContext, RunReturns,
       TimePasses, vars, runtime
  <2> QED
    BY <2>1, <2>2, <2>3, <2>4, <2>5, <2>6 DEF Next, Environment, LoopStep
<1>4. clock - LastActivity(session[i]) > Stall
  <2>1. Stalled(session[i])
    BY <1>1, <1>3 DEF OnTick
  <2> QED
    BY <2>1 DEF Stalled
<1>5. CASE rootCtx # "cancelled" /\ InFlight(OnTheWay(i)) = {}
  <2>1. Kept(session[i], agent[i], OnTheWay(i))
    BY <1>1, <1>5 DEF KeptInv, Running
  <2>2. LastActivity(session[i]) = agent[i].lastAt
    BY <1>5, <2>1 DEF Kept, LatestKept
  <2> QED
    BY <1>4, <2>2
<1> QED
  BY <1>5

\* A worker that the loop gives up as stalled has been silent for longer than
\* the timeout, or its news are waiting for the loop (reconcile, onTick).
THEOREM StalledWorkersAreSilent == Spec => StalledIsSilentOrWaiting
<1>1. /\ IInv /\ BothInv /\ [Next]_vars
      => [\A i \in Running :
            session'[i] # NoSession /\ ~session[i].terminating /\ session'[i].terminating =>
              clock - agent[i].lastAt > Stall \/ InFlight(OnTheWay(i)) # {} \/ rootCtx = "cancelled"]_vars
  BY StepStalls
<1> QED
  BY <1>1, SessionInvariant, PTL DEF Spec, StalledIsSilentOrWaiting
=============================================================================
