--------------------------- MODULE SettingsProofs ---------------------------
(* Theorems about Settings, for every workflow file and any set of states. *)
EXTENDS Settings, Induction, SequenceTheorems

Sources == [file : Files, content : Contents]
Routed == {Routing(c, s) : c \in UNION {Configs(f, t) : f \in Files, t \in Contents}, s \in Dispatched}
Worker == [set : {TRUE}, settings : Routed, source : Sources, turn : {1, 2},
           prompt : {"task", "failed", "keep to your task", "go on working"}]

\* The settings in force were read from the files noted for them, ...
InForceInv ==
    /\ file \in Files /\ promptFile \in Contents
    /\ effective # None =>
         source \in Sources /\ effective \in Configs(source.file, source.content)

\* ... and those of a worker are what such files say for the state of its issue.
WorkerInv ==
    worker # None =>
        /\ worker \in Worker
        /\ \E c \in Configs(worker.source.file, worker.source.content), s \in Dispatched :
             worker.settings = Routing(c, s)
        /\ worker.turn = 2 =>
             (worker.prompt = "keep to your task" <=> worker.settings.override = TRUE)
        /\ worker.turn = 1 =>
             (worker.prompt = "failed" <=> ~Renders(worker.settings.template))

IInv == InForceInv /\ WorkerInv

LEMMA DispatchKeeps ==
    ASSUME IInv, NEW s \in Dispatched, Dispatches(s)
    PROVE  WorkerInv'
<1> DEFINE prompt == IF Renders(Routing(effective, s).template) THEN "task" ELSE "failed"
<1>1. /\ source \in Sources /\ effective \in Configs(source.file, source.content)
      /\ worker' = [set |-> TRUE, settings |-> Routing(effective, s), source |-> source,
                    turn |-> 1, prompt |-> prompt]
  BY DEF IInv, InForceInv, Dispatches
<1>2. source.file \in Files /\ source.content \in Contents
  BY <1>1 DEF Sources
<1>3. Routing(effective, s) \in Routed
  BY <1>1, <1>2 DEF Routed
<1>4. prompt \in {"task", "failed"}
  OBVIOUS
<1>5. /\ worker' \in Worker /\ worker'.turn = 1
      /\ worker'.settings = Routing(effective, s) /\ worker'.source = source
      /\ worker'.prompt = prompt
  <2> HIDE DEF prompt
  <2> QED
    BY <1>1, <1>3, <1>4 DEF Worker
<1>6. prompt = "failed" <=> ~Renders(worker'.settings.template)
  BY <1>5
<1> HIDE DEF prompt
<1> QED
  BY <1>1, <1>5, <1>6 DEF WorkerInv

LEMMA ContinueKeeps ==
    ASSUME IInv, Continues
    PROVE  WorkerInv'
<1> DEFINE p == IF worker.settings.override THEN "keep to your task" ELSE "go on working"
<1>1. /\ worker # None /\ worker \in Worker
      /\ \E c \in Configs(worker.source.file, worker.source.content), s \in Dispatched :
           worker.settings = Routing(c, s)
  BY DEF Continues, IInv, WorkerInv
<1>2. worker' = [worker EXCEPT !.turn = 2, !.prompt = p]
  BY DEF Continues
<1>3. /\ p \in {"keep to your task", "go on working"}
      /\ p = "keep to your task" <=> worker.settings.override = TRUE
  <2>1. worker.settings.override \in BOOLEAN
    BY <1>1 DEF Routing, HasPromptOverride
  <2> QED
    BY <2>1
<1>4. /\ worker' \in Worker
      /\ worker'.settings = worker.settings /\ worker'.source = worker.source
      /\ worker'.prompt = p /\ worker'.turn = 2
  <2> HIDE DEF p
  <2> QED
    BY <1>1, <1>2, <1>3 DEF Worker
<1> HIDE DEF p
<1>5. \E c \in Configs(worker'.source.file, worker'.source.content), s \in Dispatched :
        worker'.settings = Routing(c, s)
  BY <1>1, <1>4
<1>6. ~(worker'.turn = 1)
  BY <1>4
<1>7. worker'.prompt = "keep to your task" <=> worker'.settings.override = TRUE
  BY <1>3, <1>4
<1> QED
  BY <1>4, <1>5, <1>6, <1>7, Zenon DEF WorkerInv

LEMMA NextKeeps ==
    ASSUME IInv, [Next]_vars
    PROVE  IInv'
<1>1. CASE Starts \/ Reloads
  <2>1. /\ source' = [file |-> file, content |-> promptFile]
        /\ effective' \in Configs(file, promptFile)
        /\ UNCHANGED <<worker, file, promptFile>>
    BY <1>1 DEF Starts, Reloads, Adopts
  <2> QED
    BY <2>1 DEF IInv, InForceInv, WorkerInv, Sources
<1>2. ASSUME NEW s \in Dispatched, Dispatches(s) PROVE IInv'
  BY <1>2, DispatchKeeps DEF Dispatches, IInv, InForceInv
<1>3. CASE Continues
  BY <1>3, ContinueKeeps DEF Continues, IInv, InForceInv
<1>4. CASE RetryIsQueued \/ ContinuationIsQueued \/ SavesWorkflow \/ SavesPrompt
  <2>1. UNCHANGED <<effective, source, worker>>
    BY <1>4 DEF RetryIsQueued, ContinuationIsQueued, SavesWorkflow, SavesPrompt
  <2>2. file' \in Files /\ promptFile' \in Contents
    BY <1>4 DEF RetryIsQueued, ContinuationIsQueued, SavesWorkflow, SavesPrompt, IInv, InForceInv
  <2> QED
    BY <2>1, <2>2 DEF IInv, InForceInv, WorkerInv
<1>5. CASE UNCHANGED vars
  BY <1>5 DEF vars, IInv, InForceInv, WorkerInv
<1> QED
  BY <1>1, <1>2, <1>3, <1>4, <1>5 DEF Next

-----------------------------------------------------------------------------
(* What a configuration says for a state *)

LEMMA PositiveIsZeroOrMore ==
    ASSUME NEW v
    PROVE  Positive(v) > 0 <=> Positive(v) # 0
BY DEF Positive

LEMMA ConfigFields ==
    ASSUME NEW f, NEW content, NEW limit, NEW over
    PROVE  LET c == ConfigOf(f, content, limit, over) IN
           /\ DOMAIN c.states = DOMAIN over
           /\ \A n \in DOMAIN over : c.states[n] = StateOverride(f.states[over[n]], content)
           /\ DOMAIN c.byState = DOMAIN limit
           /\ \A n \in DOMAIN limit : c.byState[n] = Positive(f.byState[limit[n]])
           /\ c.slots = AsIntDefault(f.slots, 10)
           /\ c.maxBackoff = AsIntDefault(f.maxBackoff, 300000)
           /\ c.model = AsString(f.model) /\ c.effort = AsString(f.effort)
           /\ c.turns = AsIntStrict(f.maxTurns, 20).n /\ c.template = f.body
BY DEF ConfigOf

LEMMA ConfigShape ==
    ASSUME NEW f, NEW content, NEW c \in Configs(f, content)
    PROVE  \E limit \in Kept(Limiting(f)), over \in Kept(Overriding(f)) :
             c = ConfigOf(f, content, limit, over)
BY DEF Configs

\* A key that is kept is one of those that are written for the state.
LEMMA KeptKeys ==
    ASSUME NEW keys, NEW pick \in Kept(keys)
    PROVE  /\ DOMAIN pick = {Normal[k] : k \in keys}
           /\ \A n \in DOMAIN pick : pick[n] \in keys /\ Normal[pick[n]] = n
BY DEF Kept

LEMMA OverrideIsOfOneEntry ==
    ASSUME NEW f, NEW content, NEW c \in Configs(f, content), NEW s
    PROVE  \/ /\ \A k \in DOMAIN f.states : f.states[k].map => Normal[k] # Normal[s]
              /\ OverrideFor(c, s) = NoOverride
           \/ \E k \in DOMAIN f.states :
                /\ f.states[k].map /\ Normal[k] = Normal[s]
                /\ OverrideFor(c, s) = StateOverride(f.states[k], content)
<1>1. PICK limit \in Kept(Limiting(f)), over \in Kept(Overriding(f)) :
        c = ConfigOf(f, content, limit, over)
  BY ConfigShape
<1>2. /\ DOMAIN over = {Normal[k] : k \in Overriding(f)}
      /\ \A n \in DOMAIN over : over[n] \in Overriding(f) /\ Normal[over[n]] = n
  BY KeptKeys
<1>3. /\ DOMAIN c.states = DOMAIN over
      /\ \A n \in DOMAIN over : c.states[n] = StateOverride(f.states[over[n]], content)
  BY <1>1, ConfigFields
<1>4. CASE Normal[s] \in DOMAIN over
  BY <1>3, <1>2, <1>4 DEF OverrideFor, Overriding
<1>5. CASE Normal[s] \notin DOMAIN over
  BY <1>3, <1>2, <1>5 DEF OverrideFor, Overriding
<1> QED
  BY <1>4, <1>5

LEMMA LimitIsOfOneKey ==
    ASSUME NEW f, NEW content, NEW c \in Configs(f, content), NEW s
    PROVE  \/ /\ \A k \in DOMAIN f.byState : Positive(f.byState[k]) > 0 => Normal[k] # Normal[s]
              /\ PerStateLimit(c, s) = AsIntDefault(f.slots, 10)
           \/ \E k \in DOMAIN f.byState :
                /\ Positive(f.byState[k]) > 0 /\ Normal[k] = Normal[s]
                /\ PerStateLimit(c, s) = Positive(f.byState[k])
<1>1. PICK limit \in Kept(Limiting(f)), over \in Kept(Overriding(f)) :
        c = ConfigOf(f, content, limit, over)
  BY ConfigShape
<1>2. /\ DOMAIN limit = {Normal[k] : k \in Limiting(f)}
      /\ \A n \in DOMAIN limit : limit[n] \in Limiting(f) /\ Normal[limit[n]] = n
  BY KeptKeys
<1>3. /\ DOMAIN c.byState = DOMAIN limit
      /\ \A n \in DOMAIN limit : c.byState[n] = Positive(f.byState[limit[n]])
      /\ c.slots = AsIntDefault(f.slots, 10)
  BY <1>1, ConfigFields
<1>4. CASE Normal[s] \in DOMAIN limit
  BY <1>3, <1>2, <1>4 DEF PerStateLimit, Limiting
<1>5. CASE Normal[s] \notin DOMAIN limit
  BY <1>3, <1>2, <1>5 DEF PerStateLimit, Limiting
<1> QED
  BY <1>4, <1>5

LEMMA GlobalSettings ==
    ASSUME NEW f, NEW content, NEW c \in Configs(f, content)
    PROVE  /\ c.model = AsString(f.model) /\ c.effort = AsString(f.effort)
           /\ c.turns = AsIntStrict(f.maxTurns, 20).n /\ c.template = f.body
BY ConfigShape, ConfigFields

-----------------------------------------------------------------------------
(* Routing *)

LEMMA RoutingIsRight ==
    ASSUME WorkerInv
    PROVE  RoutingFollowsTheFile
<1> SUFFICES ASSUME worker # None PROVE RoutingFollowsTheFile
  BY DEF RoutingFollowsTheFile
<1> DEFINE f == worker.source.file
           own == worker.source.content.body
           w == worker.settings
           Text(mine, all) == IF mine.kind = "text" /\ mine.s # Blank THEN mine.s ELSE AsString(all)
           Says(e) ==
             /\ w.model = Text(e.model, f.model) /\ w.effort = Text(e.effort, f.effort)
             /\ w.turns = IF Positive(e.maxTurns) > 0 THEN Positive(e.maxTurns)
                          ELSE AsIntStrict(f.maxTurns, 20).n
             /\ w.template = IF e.prompt /\ own # <<>> THEN own ELSE f.body
             /\ worker.turn > 1 =>
                  (worker.prompt = "keep to your task" <=> e.prompt /\ own # <<>>)
           meant == {k \in DOMAIN f.states : f.states[k].map /\ Normal[k] = Normal[w.state]}
           limits == {k \in DOMAIN f.byState : Positive(f.byState[k]) > 0 /\ Normal[k] = Normal[w.state]}
           nothing == [map |-> TRUE, model |-> Nil, effort |-> Nil, maxTurns |-> Nil, prompt |-> FALSE]
<1>1. PICK c \in Configs(f, worker.source.content), s \in Dispatched : w = Routing(c, s)
  BY DEF WorkerInv
<1> DEFINE o == OverrideFor(c, s)
           Or(mine, all, unset) == IF mine = unset THEN all ELSE mine
<1>2. /\ w.state = s /\ w.limit = PerStateLimit(c, s)
      /\ w.model = Or(o.model, AsString(f.model), Blank)
      /\ w.effort = Or(o.effort, AsString(f.effort), Blank)
      /\ w.turns = Or(o.turns, AsIntStrict(f.maxTurns, 20).n, 0)
      /\ w.template = Or(o.template, f.body, <<>>)
      /\ w.override = (o.template # <<>>)
  BY <1>1, GlobalSettings DEF Routing, HasPromptOverride
<1>3. worker.turn > 1 => (worker.prompt = "keep to your task" <=> o.template # <<>>)
  <2>1. worker.turn \in {1, 2}
    BY DEF WorkerInv, Worker
  <2>2. worker.turn = 2 => (worker.prompt = "keep to your task" <=> w.override = TRUE)
    BY DEF WorkerInv
  <2>3. w.override = TRUE <=> o.template # <<>>
    BY <1>2
  <2>4. worker.turn > 1 => worker.turn = 2
    BY <2>1
  <2> HIDE DEF o, w
  <2> QED
    BY <2>2, <2>3, <2>4, Zenon
<1>4. ASSUME NEW e, o = StateOverride(e, worker.source.content) PROVE Says(e)
  <2>1. /\ o.model = AsString(e.model) /\ o.effort = AsString(e.effort)
        /\ o.turns = Positive(e.maxTurns)
        /\ o.template = IF e.prompt THEN own ELSE <<>>
    BY <1>4 DEF StateOverride
  <2> HIDE DEF o, f, own, w
  <2>2. w.model = Text(e.model, f.model) /\ w.effort = Text(e.effort, f.effort)
    BY <1>2, <2>1 DEF AsString
  <2>3. w.turns = IF Positive(e.maxTurns) > 0 THEN Positive(e.maxTurns)
                  ELSE AsIntStrict(f.maxTurns, 20).n
    BY <1>2, <2>1, PositiveIsZeroOrMore
  <2>4. w.template = IF e.prompt /\ own # <<>> THEN own ELSE f.body
    BY <1>2, <2>1
  <2>5. o.template # <<>> <=> e.prompt /\ own # <<>>
    BY <2>1
  <2> QED
    BY <1>3, <2>2, <2>3, <2>4, <2>5
<1>5. meant = {} => Says(nothing)
  <2> SUFFICES ASSUME meant = {} PROVE Says(nothing)
    OBVIOUS
  <2>1. o = NoOverride
    BY <1>1, <1>2, OverrideIsOfOneEntry
  <2>2. o = StateOverride(nothing, worker.source.content)
    BY <2>1 DEF NoOverride, StateOverride, AsString, Nil, Positive, AsIntStrict
  <2> QED
    BY <1>4, <2>2
<1>6. meant # {} => \E k \in meant : Says(f.states[k])
  <2> SUFFICES ASSUME meant # {} PROVE \E k \in meant : Says(f.states[k])
    OBVIOUS
  <2>1. ~(\A k \in DOMAIN f.states : f.states[k].map => Normal[k] # Normal[s])
    BY <1>2
  <2>2. PICK k \in DOMAIN f.states :
          f.states[k].map /\ Normal[k] = Normal[s] /\ o = StateOverride(f.states[k], worker.source.content)
    BY <1>1, <2>1, OverrideIsOfOneEntry
  <2>3. k \in meant /\ Says(f.states[k])
    BY <1>2, <1>4, <2>2
  <2> HIDE DEF Says
  <2> QED
    BY <2>3
<1>7. IF meant = {} THEN Says(nothing) ELSE \E k \in meant : Says(f.states[k])
  <2> HIDE DEF Says, meant
  <2> QED
    BY <1>5, <1>6
<1>8. IF limits = {} THEN w.limit = AsIntDefault(f.slots, 10)
      ELSE \E k \in limits : w.limit = Positive(f.byState[k])
  BY <1>1, <1>2, LimitIsOfOneKey
<1> QED
  BY <1>7, <1>8 DEF RoutingFollowsTheFile

\* Whatever is saved and reloaded, the settings of a worker and the prompts of
\* its turns are those the file in force at its dispatch gives the state of its
\* issue (New, the ForState functions, buildTurnPrompt).
THEOREM RoutingIsOfTheFile == Spec => []RoutingFollowsTheFile
<1>1. Init => IInv
  BY DEF Init, IInv, InForceInv, WorkerInv
<1> QED
  BY <1>1, NextKeeps, RoutingIsRight, PTL DEF Spec, IInv

-----------------------------------------------------------------------------
(* Prompts *)

\* The names a prompt may show as nothing.
Excused(t) == Locals(t) \cup LoopObjects \cup LiquidKeywords \cup UNION {t[k].ends : k \in DOMAIN t}

\* The states of the engine in a template whose unbound names are excused.
Kinds(t) == {t[k].kind : k \in DOMAIN t} \cup {"?"}
Names(t) == {t[k].binds : k \in DOMAIN t} \cup Bindings \cup LoopObjects
Engine(t) == [open : Seq(Kinds(t)), bound : {b \in SUBSET Names(t) : Bindings \subseteq b},
              loops : Seq(SUBSET Names(t)), unbound : SUBSET Excused(t)]
Start == [open |-> <<>>, bound |-> Bindings, loops |-> <<>>, unbound |-> {}]

LEMMA FrontStays ==
    ASSUME NEW T, NEW s \in Seq(T)
    PROVE  Front(s) \in Seq(T)
<1>1. PICK n \in Nat : n = Len(s) /\ s \in [1..n -> T]
  BY LenProperties
<1>2. CASE n = 0
  BY <1>1, <1>2 DEF Front
<1>3. CASE n > 0
  BY <1>1, <1>3, SubSeqProperties DEF Front
<1> QED
  BY <1>1, <1>2, <1>3

LEMMA NestingStays ==
    ASSUME NEW K, NEW open \in Seq(K), NEW tag, tag.kind \in K, "?" \in K
    PROVE  Nesting(open, tag) \in Seq(K)
<1>1. Front(open) \in Seq(K)
  BY FrontStays
<1>2. Append(open, tag.kind) \in Seq(K) /\ Append(open, "?") \in Seq(K)
  OBVIOUS
<1>3. Nesting(open, tag) \in {open, Front(open), Append(open, tag.kind), Append(open, "?")}
  BY Zenon DEF Nesting
<1> QED
  BY <1>1, <1>2, <1>3

\* What a known template reads is bound from the start, or excused.
LEMMA ReadsAreKnown ==
    ASSUME NEW t, IsTemplate(t), UnknownVariables(t) = {}, NEW k \in DOMAIN t
    PROVE  /\ t[k].ends \subseteq Excused(t)
           /\ t[k].reads \subseteq Bindings \cup Excused(t)
<1>1. t[k].ends \subseteq Excused(t)
  BY DEF Excused
<1>2. ASSUME NEW x \in t[k].reads PROVE x \in Bindings \cup Excused(t)
  <2>1. t[k].kind \notin NonExpr \cup {"capture"}
    BY <1>2 DEF IsTemplate
  <2>2. x \in LiquidKeywords \/ x \in VariableRoots(t[k])
    BY <1>2, <2>1 DEF VariableRoots
  <2>3. x \in VariableRoots(t[k]) => x \in Known(t)
    BY DEF UnknownVariables
  <2> QED
    BY <2>2, <2>3 DEF Known, Excused
<1> QED
  BY <1>1, <1>2

LEMMA EvaluatedStays ==
    ASSUME NEW t, IsTemplate(t), UnknownVariables(t) = {}, NEW k \in DOMAIN t,
           NEW bodies, NEW st \in Engine(t)
    PROVE  Evaluated(st, t[k], bodies) \in Engine(t)
<1> DEFINE tag == t[k]
           open == Nesting(st.open, tag)
           names == st.bound \cup UNION {st.loops[j] : j \in DOMAIN st.loops}
           bound == st.bound \cup IF tag.kind \in {"assign", "capture"} THEN {tag.binds} ELSE {}
           loops == CASE tag.kind = "for" -> Append(st.loops, {tag.binds} \cup LoopObjects)
                      [] tag.kind = "endfor" -> Front(st.loops)
                      [] OTHER -> st.loops
           unbound == st.unbound \cup ((tag.reads \cup tag.ends) \ names)
<1>1. /\ tag.ends \subseteq Excused(t) /\ tag.reads \subseteq Bindings \cup Excused(t)
      /\ tag.kind \in Kinds(t) /\ "?" \in Kinds(t) /\ tag.binds \in Names(t)
  BY ReadsAreKnown DEF Kinds, Names
<1>2. /\ st.open \in Seq(Kinds(t)) /\ st.loops \in Seq(SUBSET Names(t))
      /\ st.bound \in SUBSET Names(t) /\ Bindings \subseteq st.bound
      /\ st.unbound \subseteq Excused(t)
  BY DEF Engine
<1>3. open \in Seq(Kinds(t))
  BY <1>1, <1>2, NestingStays
<1>4. bound \in SUBSET Names(t) /\ Bindings \subseteq bound
  BY <1>1, <1>2
<1>5. loops \in Seq(SUBSET Names(t))
  <2>1. {tag.binds} \cup LoopObjects \in SUBSET Names(t)
    BY <1>1 DEF Names
  <2>2. Append(st.loops, {tag.binds} \cup LoopObjects) \in Seq(SUBSET Names(t))
    BY <1>2, <2>1
  <2>3. Front(st.loops) \in Seq(SUBSET Names(t))
    BY <1>2, FrontStays
  <2>4. loops \in {Append(st.loops, {tag.binds} \cup LoopObjects), Front(st.loops), st.loops}
    BY Zenon
  <2> QED
    BY <1>2, <2>2, <2>3, <2>4
<1>6. unbound \subseteq Excused(t)
  BY <1>1, <1>2
<1>7. Evaluated(st, t[k], bodies) \in
        {[st EXCEPT !.open = open],
         [open |-> open, bound |-> bound, loops |-> loops, unbound |-> unbound]}
  BY Zenon DEF Evaluated
<1> HIDE DEF open, bound, loops, unbound
<1>8. /\ [st EXCEPT !.open = open] \in Engine(t)
      /\ [open |-> open, bound |-> bound, loops |-> loops, unbound |-> unbound] \in Engine(t)
  BY <1>3, <1>4, <1>5, <1>6 DEF Engine
<1> QED
  BY <1>7, <1>8

\* The function that ReadsUnbound takes its value from.
Evaluation(g, t, bodies) ==
    g = [T \in SUBSET DOMAIN t |->
           IF T = {} THEN Start ELSE Evaluated(g[T \ {Max(T)}], t[Max(T)], bodies)]

LEMMA ReadsAreExcused ==
    ASSUME NEW t, IsTemplate(t), UnknownVariables(t) = {}, NEW bodies
    PROVE  ReadsUnbound(t, bodies) \subseteq Excused(t)
<1>1. PICK n \in Nat : n = Len(t) /\ DOMAIN t = 1..n
  <2>1. \E T : t \in Seq(T)
    BY DEF IsTemplate
  <2> QED
    BY <2>1, LenProperties
<1> DEFINE V == Engine(t)
<1>2. Start \in V
  <2>1. Bindings \subseteq Names(t)
    BY DEF Names
  <2> QED
    BY <2>1 DEF Engine, Start
<1>3. \A k \in 1..n : \A v \in V : Evaluated(v, t[k], bodies) \in V
  BY <1>1, EvaluatedStays
<1> HIDE DEF V
<1>4. PICK body \in [1..n -> [V -> V]] :
        \A k \in 1..n : \A v \in V : body[k][v] = Evaluated(v, t[k], bodies)
  <2>1. [k \in 1..n |-> [v \in V |-> Evaluated(v, t[k], bodies)]] \in [1..n -> [V -> V]]
    BY <1>3
  <2> QED
    BY <2>1
<1>5. PICK it : IsFoldLeft(it, n, V, Start, body)
  BY <1>2, FoldLeftExists
<1>6. Evaluation(it, t, bodies)
  <2>1. it = [T \in SUBSET (1..n) |-> it[T]]
    BY <1>5 DEF IsFoldLeft
  <2>2. ASSUME NEW T \in SUBSET (1..n)
        PROVE  it[T] = IF T = {} THEN Start ELSE Evaluated(it[T \ {Max(T)}], t[Max(T)], bodies)
    <3>1. it[T] = IF T = {} THEN Start ELSE body[Max(T)][it[T \ {Max(T)}]]
      BY <1>5 DEF IsFoldLeft
    <3>2. T # {} => Max(T) \in 1..n /\ it[T \ {Max(T)}] \in V
      BY <1>5, MaxIn DEF IsFoldLeft
    <3> QED
      BY <1>4, <3>1, <3>2
  <2> QED
    BY <1>1, <2>1, <2>2 DEF Evaluation
<1>7. ReadsUnbound(t, bodies) = (CHOOSE g : Evaluation(g, t, bodies))[1..n].unbound
  BY <1>1 DEF ReadsUnbound, FoldLeft, MapThenFoldSet, Evaluation, Start
<1>8. PICK g : Evaluation(g, t, bodies) /\ ReadsUnbound(t, bodies) = g[1..n].unbound
  BY <1>6, <1>7
<1>9. g[{}] \in V
  BY <1>2, <1>8 DEF Evaluation
<1>10. ASSUME NEW k \in 1..n, g[1..(k - 1)] \in V PROVE g[1..k] \in V
  <2>1. 1..k \in SUBSET DOMAIN t /\ 1..k # {} /\ (1..k) \ {k} = 1..(k - 1) /\ Max(1..k) = k
    BY <1>1, MaxOfFirst
  <2>2. g[1..k] = Evaluated(g[1..(k - 1)], t[k], bodies)
    BY <1>8, <2>1 DEF Evaluation
  <2> QED
    BY <1>3, <1>10, <2>2
<1>11. g[1..n] \in V
  <2>1. \A k \in 0..n : g[1..k] \in V
    BY <1>9, <1>10, PrefixesStay
  <2> QED
    BY <2>1
<1> QED
  BY <1>8, <1>11 DEF V, Engine

LEMMA TemplateOfWorker ==
    ASSUME SettingsAssumption, WorkerInv, worker # None
    PROVE  IsTemplate(worker.settings.template)
<1>1. PICK c \in Configs(worker.source.file, worker.source.content), s \in Dispatched :
        worker.settings = Routing(c, s)
  BY DEF WorkerInv
<1> DEFINE f == worker.source.file
           o == OverrideFor(c, s)
<1>2. f \in Files /\ worker.source.content \in Contents
  BY DEF WorkerInv, Worker, Sources
<1>3. IsTemplate(f.body) /\ IsTemplate(worker.source.content.body)
  BY <1>2 DEF SettingsAssumption
<1>4. worker.settings.template = IF o.template = <<>> THEN f.body ELSE o.template
  BY <1>1, GlobalSettings DEF Routing
<1>5. o.template \in {<<>>, worker.source.content.body}
  <2>1. CASE o = NoOverride
    BY <2>1 DEF NoOverride
  <2>2. ASSUME NEW e, o = StateOverride(e, worker.source.content)
        PROVE  o.template \in {<<>>, worker.source.content.body}
    BY <2>2 DEF StateOverride
  <2> HIDE DEF o
  <2> QED
    BY OverrideIsOfOneEntry, <2>1, <2>2 DEF o
<1> QED
  BY <1>3, <1>4, <1>5

LEMMA PromptIsRight ==
    ASSUME SettingsAssumption, WorkerInv
    PROVE  PromptIsStrict
<1> SUFFICES ASSUME worker # None, worker.turn = 1 PROVE PromptIsStrict
  BY DEF PromptIsStrict
<1> DEFINE t == worker.settings.template
           reads == UNION {t[k].reads : k \in DOMAIN t}
           ends == UNION {t[k].ends : k \in DOMAIN t}
<1>1. IsTemplate(t)
  BY TemplateOfWorker
<1>2. worker.prompt = "failed" <=> ~Renders(t)
  BY DEF WorkerInv
<1>3. CASE worker.prompt = "failed"
  <2>1. reads \subseteq Known(t) => UnknownVariables(t) = {}
    <3>1. \A k \in DOMAIN t : VariableRoots(t[k]) \subseteq t[k].reads
      BY DEF VariableRoots
    <3> QED
      BY <3>1 DEF UnknownVariables
  <2>2. ~Parses(t) \/ ~(reads \subseteq Known(t))
    BY <1>2, <1>3, <2>1 DEF Renders
  <2> QED
    BY <1>3, <2>2 DEF PromptIsStrict
<1>4. CASE worker.prompt # "failed"
  <2>1. UnknownVariables(t) = {}
    BY <1>2, <1>4 DEF Renders
  <2>2. \A bodies \in BOOLEAN : ReadsUnbound(t, bodies) \subseteq Excused(t)
    BY <1>1, <2>1, ReadsAreExcused
  <2>3. \A bodies \in BOOLEAN :
          ReadsUnbound(t, bodies) \subseteq Locals(t) \cup LoopObjects \cup LiquidKeywords \cup ends
    BY <2>2 DEF Excused
  <2> QED
    BY <1>4, <2>3, Zenon DEF PromptIsStrict
<1> QED
  BY <1>3, <1>4

\* A prompt that was rendered shows nothing only for names the check excuses,
\* and one that was refused reads an unknown name or does not parse, whatever
\* the template (checkUnknownVariables, Render).
THEOREM PromptsAreStrict == Spec => []PromptIsStrict
<1>1. Init => IInv
  BY DEF Init, IInv, InForceInv, WorkerInv
<1>2. IInv => PromptIsStrict
  BY PromptIsRight, SettingsAssumption DEF IInv
<1> QED
  BY <1>1, <1>2, NextKeeps, PTL DEF Spec

-----------------------------------------------------------------------------
(* Retries *)

\* A delay is at most what the number of its attempt alone would give.
RetryInv ==
    /\ retry.attempt \in Nat /\ retry.delay \in Int
    /\ IF retry.attempt = 0 THEN retry.delay <= 0
       ELSE retry.delay <= Doubled(retry.attempt - 1)

LEMMA DoubledDoubles ==
    ASSUME NEW n \in Nat
    PROVE  /\ Doubled(n) \in Nat /\ Doubled(n) >= 10000
           /\ Doubled(n + 1) = 2 * Doubled(n)
<1>1. PICK a, b : a = 2 ^ n /\ b = 2 ^ (n + 1)
  OBVIOUS
<1>2. a \in Nat /\ a > 0 /\ b = 2 * a
  BY <1>1, PowerCounts, PowerDoubles, Zenon
<1>3. Doubled(n) = 10000 * a /\ Doubled(n + 1) = 10000 * b
  <2>1. Doubled(n) = 10000 * 2 ^ n /\ Doubled(n + 1) = 10000 * 2 ^ (n + 1)
    BY DEF Doubled
  <2> QED
    BY <1>1, <2>1
<1> QED
  BY <1>2, <1>3

LEMMA CapIsANumber ==
    ASSUME SettingsAssumption, InForceInv, effective # None
    PROVE  effective.maxBackoff \in Int
<1> DEFINE v == source.file.maxBackoff
<1>1. effective.maxBackoff = AsIntDefault(v, 300000)
  <2>1. PICK limit, over : effective = ConfigOf(source.file, source.content, limit, over)
    BY ConfigShape DEF InForceInv
  <2> QED
    BY <2>1, ConfigFields
<1>2. v \in Value
  BY DEF InForceInv, Sources, SettingsAssumption
<1>3. v.n \in Int /\ \A s \in DOMAIN Numeral : Numeral[s] \in Int
  BY <1>2 DEF Value, SettingsAssumption
<1>4. AsIntStrict(v, 300000).n \in Int
  BY <1>3 DEF AsIntStrict
<1> QED
  BY <1>1, <1>4 DEF AsIntDefault

LEMMA RetryBacksOff ==
    ASSUME SettingsAssumption, InForceInv, RetryInv, RetryIsQueued
    PROVE  /\ RetryInv'
           /\ LET cap == effective.maxBackoff IN
              /\ retry'.delay <= cap
              /\ cap > 0 => retry'.delay > 0
              /\ retry'.delay < cap => retry'.delay >= 2 * retry.delay
<1>1. PICK n \in Nat : n = retry.attempt
  BY DEF RetryInv
<1>2. PICK cap \in Int : cap = effective.maxBackoff
  BY CapIsANumber DEF RetryIsQueued
<1>3. PICK d \in Nat : d = Doubled(n) /\ d >= 10000
  BY DoubledDoubles
<1>4. /\ retry'.attempt = n + 1 /\ (n + 1) - 1 = n
      /\ retry'.delay = IF d > cap THEN cap ELSE d
  BY <1>1, <1>2, <1>3 DEF RetryIsQueued, Backoff
<1>5. retry.delay \in Int /\ 2 * retry.delay <= d
  <2>1. CASE n = 0
    BY <1>1, <1>3, <2>1 DEF RetryInv
  <2>2. CASE n > 0
    <3>1. PICK m \in Nat : n = m + 1
      <4>1. n - 1 \in Nat /\ n = (n - 1) + 1
        BY <2>2
      <4> QED
        BY <4>1
    <3>2. PICK e \in Nat : e = Doubled(m) /\ d = 2 * e
      BY <1>3, <3>1, DoubledDoubles
    <3>3. retry.delay \in Int /\ retry.delay <= e
      BY <1>1, <3>1, <3>2 DEF RetryInv
    <3> QED
      BY <3>2, <3>3
  <2> QED
    BY <2>1, <2>2
<1>6. RetryInv'
  BY <1>2, <1>3, <1>4 DEF RetryInv
<1> QED
  BY <1>2, <1>3, <1>4, <1>5, <1>6

LEMMA RetryKeeps ==
    ASSUME SettingsAssumption, InForceInv, RetryInv, [Next]_vars
    PROVE  RetryInv'
<1>1. CASE RetryIsQueued
  BY <1>1, RetryBacksOff
<1>2. CASE ContinuationIsQueued
  <2>1. retry'.attempt = 1 /\ retry'.delay = 1000 /\ Doubled(1 - 1) >= 10000 /\ Doubled(1 - 1) \in Nat
    BY <1>2, DoubledDoubles DEF ContinuationIsQueued
  <2> QED
    BY <2>1 DEF RetryInv
<1>3. CASE UNCHANGED retry
  BY <1>3 DEF RetryInv
<1> QED
  BY <1>1, <1>2, <1>3
  DEF Next, vars, Starts, Reloads, Continues, Dispatches, SavesWorkflow, SavesPrompt

\* Whatever caps come and go with reloads, the delays of failures in a row
\* double up to the cap in force (scheduleRetry).
THEOREM RetriesDouble == Spec => RetriesBackOff
<1> DEFINE Step == LET cap == effective.maxBackoff IN
                   /\ retry'.delay <= cap
                   /\ cap > 0 => retry'.delay > 0
                   /\ retry'.delay < cap => retry'.delay >= 2 * retry.delay
<1>1. Init => IInv /\ RetryInv
  BY DEF Init, IInv, InForceInv, WorkerInv, RetryInv, NoRetry
<1>2. IInv /\ RetryInv /\ [Next]_vars => IInv' /\ RetryInv'
  BY NextKeeps, RetryKeeps, SettingsAssumption DEF IInv
<1>3. IInv /\ RetryInv => [RetryIsQueued => Step]_vars
  BY RetryBacksOff, SettingsAssumption DEF IInv
<1> QED
  BY <1>1, <1>2, <1>3, PTL DEF Spec, RetriesBackOff

=============================================================================
