------------------------------ MODULE Settings ------------------------------
(***************************************************************************)
(* From the workflow file to the settings of a worker: the coercion and    *)
(* the defaults of internal/config, start and reload, the routing of a     *)
(* dispatch by the state of its issue, the prompts of its turns, and the   *)
(* delay of a retry.                                                       *)
(*                                                                         *)
(* What overlapping reloads do is the matter of Watcher; here a reload is  *)
(* one step.                                                               *)
(***************************************************************************)
EXTENDS Integers, FiniteSets, Prompt

CONSTANTS
    Texts,          \* texts of the file: names, references, numerals
    Normal,         \* lower case and trimmed
    Numeral,        \* texts that strconv.Atoi reads
    Env,            \* environment: references such as $LINEAR_API_KEY
    Files,          \* workflow files that are saved
    Contents,       \* what the prompt file of a state may hold
    Dispatched,     \* tracker states of issues
    MaxSaves,       \* bound: saves in a behaviour
    MaxAttempt      \* bound: failed attempts in a row

Blank == ""

\* YAML values.
Value == [kind: {"nil", "int", "float", "fraction", "text", "other"}, n: Int, s: Texts]
Nil == [kind |-> "nil", n |-> 0, s |-> Blank]
Str(s) == [kind |-> "text", n |-> 0, s |-> s]
Num(n) == [kind |-> "int", n |-> n, s |-> Blank]

Unreadable == [readable |-> FALSE, body |-> <<>>]

ASSUME SettingsAssumption ==
    /\ Blank \in Texts /\ Normal \in [Texts -> Texts]
    /\ \A t \in Texts : Normal[Normal[t]] = Normal[t]
    /\ DOMAIN Numeral \subseteq Texts /\ \A t \in DOMAIN Numeral : Numeral[t] \in Int
    /\ DOMAIN Env \subseteq Texts
    /\ \A f \in Files :
         /\ {f.kind, f.apiKey, f.slug, f.command, f.effort, f.model, f.hookTimeout, f.maxTurns,
             f.maxBackoff, f.interval, f.slots} \subseteq Value
         /\ DOMAIN f.byState \cup DOMAIN f.states \subseteq Texts
         /\ IsTemplate(f.body)
    /\ Unreadable \in Contents /\ \A c \in Contents : IsTemplate(c.body)
    /\ Dispatched \subseteq Texts
    /\ {MaxSaves, MaxAttempt} \subseteq Nat

VARIABLES
    file,           \* WORKFLOW.md
    promptFile,     \* the file a state's "prompt" names
    effective,      \* o.cfg and o.template; None before the start and after a refusal
    source,         \* ghost: the files that were read for it
    worker,         \* settings and prompts of the last dispatch
    retry,          \* the last delay of an issue whose attempts fail
    saves

vars == <<file, promptFile, effective, source, worker, retry, saves>>

None == [set |-> FALSE]
NoRetry == [attempt |-> 0, delay |-> 0, continuation |-> FALSE]

-----------------------------------------------------------------------------
(* Coercion *)

AsString(v) == IF v.kind = "text" THEN v.s ELSE Blank
AsIntStrict(v, default) ==
    CASE v.kind \in {"int", "float"} -> [ok |-> TRUE, n |-> v.n]
      [] v.kind = "nil" \/ (v.kind = "text" /\ Normal[v.s] = Blank) -> [ok |-> TRUE, n |-> default]
      [] v.kind = "text" /\ v.s \in DOMAIN Numeral -> [ok |-> TRUE, n |-> Numeral[v.s]]
      [] OTHER -> [ok |-> FALSE, n |-> 0]
AsIntDefault(v, default) ==
    IF AsIntStrict(v, default).ok THEN AsIntStrict(v, default).n ELSE default
FirstNonEmpty(s, default) == IF Normal[s] = Blank THEN default ELSE s
\* A reference that is not set resolves to nothing.
ResolveEnv(s) == IF s \in DOMAIN Env THEN Env[s] ELSE s
ValidEffort(s) == s = Blank \/ Normal[s] \in {"low", "medium", "high", "xhigh", "max"}

Positive(v) == LET r == AsIntStrict(v, 0) IN IF r.ok /\ r.n > 0 THEN r.n ELSE 0

\* Keys that are written in several ways meet in one, and the order of a Go map
\* decides which is kept.
Kept(keys) == {pick \in [{Normal[k] : k \in keys} -> keys] :
                 \A n \in DOMAIN pick : Normal[pick[n]] = n}

-----------------------------------------------------------------------------
(* config.New *)

StateOverride(entry, content) ==
    [model |-> AsString(entry.model), effort |-> AsString(entry.effort),
     turns |-> Positive(entry.maxTurns),
     template |-> IF entry.prompt THEN content.body ELSE <<>>]

Fails(f, content) ==
    \/ LET t == AsIntStrict(f.hookTimeout, 60000) IN ~t.ok \/ t.n < 0
    \/ LET t == AsIntStrict(f.maxTurns, 20) IN ~t.ok \/ t.n <= 0
    \/ ~ValidEffort(AsString(f.effort))
    \/ \E k \in DOMAIN f.states : f.states[k].map /\
         (~ValidEffort(AsString(f.states[k].effort)) \/ (f.states[k].prompt /\ ~content.readable))

\* One configuration: limit and over name the key that is kept for each state.
ConfigOf(f, content, limit, over) ==
    [set |-> TRUE,
     kind |-> AsString(f.kind), apiKey |-> ResolveEnv(AsString(f.apiKey)),
     slug |-> AsString(f.slug),
     interval |-> AsIntDefault(f.interval, 30000),
     slots |-> AsIntDefault(f.slots, 10),
     turns |-> AsIntStrict(f.maxTurns, 20).n,
     maxBackoff |-> AsIntDefault(f.maxBackoff, 300000),
     byState |-> [n \in DOMAIN limit |-> Positive(f.byState[limit[n]])],
     command |-> FirstNonEmpty(AsString(f.command), "claude -p"),
     model |-> AsString(f.model), effort |-> AsString(f.effort),
     states |-> [n \in DOMAIN over |-> StateOverride(f.states[over[n]], content)],
     template |-> f.body]

Overriding(f) == {k \in DOMAIN f.states : f.states[k].map}
Limiting(f) == {k \in DOMAIN f.byState : Positive(f.byState[k]) > 0}

\* New's results for a file; there are several only for keys that meet.
Configs(f, content) ==
    IF Fails(f, content) THEN {}
    ELSE {ConfigOf(f, content, limit, over) :
            limit \in Kept(Limiting(f)), over \in Kept(Overriding(f))}

ValidateDispatch(c) ==
    c.kind = "linear" /\ c.apiKey # Blank /\ c.slug # Blank /\ Normal[c.command] # Blank

PerStateLimit(c, s) == IF Normal[s] \in DOMAIN c.byState THEN c.byState[Normal[s]] ELSE c.slots
NoOverride == [model |-> Blank, effort |-> Blank, turns |-> 0, template |-> <<>>]
OverrideFor(c, s) == IF Normal[s] \in DOMAIN c.states THEN c.states[Normal[s]] ELSE NoOverride
HasPromptOverride(c, s) == OverrideFor(c, s).template # <<>>
BugRouting(c, s) ==
    LET o == OverrideFor(c, s)
        Or(own, global, unset) == IF own = unset THEN global ELSE own
    IN  [state |-> s, model |-> Or(o.model, c.model, Blank), effort |-> Or(o.effort, c.effort, Blank),
         turns |-> Or(o.turns, c.turns, 0), limit |-> PerStateLimit(c, s),
         template |-> IF s \in DOMAIN c.states THEN Or(o.template, c.template, <<>>) ELSE c.template,
         override |-> HasPromptOverride(c, s)]
Routing(c, s) ==
    LET o == OverrideFor(c, s)
        Or(own, global, unset) == IF own = unset THEN global ELSE own
    IN  [state |-> s, model |-> Or(o.model, c.model, Blank), effort |-> Or(o.effort, c.effort, Blank),
         turns |-> Or(o.turns, c.turns, 0), limit |-> PerStateLimit(c, s),
         template |-> Or(o.template, c.template, <<>>),
         override |-> HasPromptOverride(c, s)]

-----------------------------------------------------------------------------
(* The daemon *)

\* workflow.Parse: without front matter all settings are absent.
Loads == file.yaml # "broken" /\ file.yaml # "no map"
Adopts(c) == effective' = c /\ source' = [file |-> file, content |-> promptFile]

\* Any error at the start ends the daemon.
Starts ==
    /\ effective = None /\ worker = None
    /\ Loads
    /\ \E c \in Configs(file, promptFile) : ValidateDispatch(c) /\ Adopts(c)
    /\ UNCHANGED <<file, promptFile, worker, retry, saves>>

Reloads ==
    /\ effective # None
    /\ Loads
    /\ \E c \in Configs(file, promptFile) : ValidateDispatch(c) /\ Adopts(c)
    /\ UNCHANGED <<file, promptFile, worker, retry, saves>>

\* The settings of a worker stand from its dispatch on, its first prompt too.
Dispatches(s) ==
    /\ effective # None
    /\ worker' = [set |-> TRUE, settings |-> Routing(effective, s), source |-> source, turn |-> 1,
                  prompt |-> IF Renders(Routing(effective, s).template) THEN "task" ELSE "failed"]
    /\ UNCHANGED <<file, promptFile, effective, source, retry, saves>>

\* buildTurnPrompt: guidance on later turns, in the words of the prompt mode.
Continues ==
    /\ worker # None /\ worker.prompt # "failed"
    /\ worker.turn = 1 /\ worker.settings.turns > 1
    /\ worker' = [worker EXCEPT !.turn = 2,
         !.prompt = IF worker.settings.override THEN "keep to your task" ELSE "go on working"]
    /\ UNCHANGED <<file, promptFile, effective, source, retry, saves>>

Doubled(n) == 10000 * 2 ^ n
BugBackoff(attempt, cap) == Doubled(attempt - 1)
Backoff(attempt, cap) == IF Doubled(attempt - 1) > cap THEN cap ELSE Doubled(attempt - 1)

\* scheduleRetry after a failure, with the cap in force.
RetryIsQueued ==
    /\ effective # None /\ retry.attempt < MaxAttempt
    /\ retry' = [attempt |-> retry.attempt + 1, continuation |-> FALSE,
                 delay |-> Backoff(retry.attempt + 1, effective.maxBackoff)]
    /\ UNCHANGED <<file, promptFile, effective, source, worker, saves>>

\* After a normal exit the issue is looked at again at once.
ContinuationIsQueued ==
    /\ effective # None
    /\ retry' = [attempt |-> 1, continuation |-> TRUE, delay |-> 1000]
    /\ UNCHANGED <<file, promptFile, effective, source, worker, saves>>

SavesWorkflow ==
    /\ saves < MaxSaves /\ saves' = saves + 1
    /\ file' \in Files
    /\ UNCHANGED <<promptFile, effective, source, worker, retry>>
SavesPrompt ==
    /\ saves < MaxSaves /\ saves' = saves + 1
    /\ promptFile' \in Contents
    /\ UNCHANGED <<file, effective, source, worker, retry>>

Init ==
    /\ file \in Files /\ promptFile \in Contents
    /\ effective = None /\ source = None /\ worker = None /\ retry = NoRetry
    /\ saves = 0

Next ==
    \/ Starts \/ Reloads \/ Continues \/ RetryIsQueued \/ ContinuationIsQueued
    \/ \E s \in Dispatched : Dispatches(s)
    \/ SavesWorkflow \/ SavesPrompt

Spec == Init /\ [][Next]_vars

-----------------------------------------------------------------------------
(* Properties *)

\* A worker has, for each setting, what the file in force at its dispatch says
\* for the state of its issue, under any spelling of the state, and else what
\* the file says for all; settings of two entries for one state are not mixed,
\* and the guidance of its later turns goes with the prompt of its first
\* (config.New, the ForState functions and buildTurnPrompt).
RoutingFollowsTheFile ==
    worker # None =>
        LET f == worker.source.file
            w == worker.settings
            own == worker.source.content.body
            Text(mine, all) == IF mine.kind = "text" /\ mine.s # Blank THEN mine.s ELSE AsString(all)
            Says(e) ==
                /\ w.model = Text(e.model, f.model) /\ w.effort = Text(e.effort, f.effort)
                /\ w.turns = IF Positive(e.maxTurns) > 0 THEN Positive(e.maxTurns)
                             ELSE AsIntStrict(f.maxTurns, 20).n
                /\ w.template = IF e.prompt /\ own # <<>> THEN own ELSE f.body
                /\ worker.turn > 1 =>
                     (worker.prompt = "keep to your task" <=> e.prompt /\ own # <<>>)
            meant == {k \in DOMAIN f.states : f.states[k].map /\ Normal[k] = Normal[w.state]}
            limits == {k \in DOMAIN f.byState : Positive(f.byState[k]) > 0 /\ Normal[k] = Normal[w.state]}
            nothing == [map |-> TRUE, model |-> Nil, effort |-> Nil, maxTurns |-> Nil, prompt |-> FALSE]
        IN  /\ IF meant = {} THEN Says(nothing) ELSE \E k \in meant : Says(f.states[k])
            /\ IF limits = {} THEN w.limit = AsIntDefault(f.slots, 10)
               ELSE \E k \in limits : w.limit = Positive(f.byState[k])

\* A prompt that renders has shown nothing for a name without a value, except
\* for a local or a loop object outside its scope, a name that is a word of
\* Liquid, and the end of a range; and one that is refused reads a name that nothing in it binds,
\* be it in a comment, or does not parse (checkUnknownVariables, Render).
PromptIsStrict ==
    worker # None /\ worker.turn = 1 =>
        LET t == worker.settings.template
            reads == UNION {t[k].reads : k \in DOMAIN t}
            ends == UNION {t[k].ends : k \in DOMAIN t}
        IN  IF worker.prompt = "failed"
            THEN ~Parses(t) \/ ~(reads \subseteq Known(t))
            ELSE \A bodies \in BOOLEAN :
                   ReadsUnbound(t, bodies) \subseteq Locals(t) \cup LoopObjects \cup LiquidKeywords \cup ends

\* Under one cap the delays of failures in a row at least double until they
\* reach it, they never go beyond it, and none is zero unless the cap, which
\* nothing validates, is zero or less (scheduleRetry).
RetriesBackOff ==
    [][RetryIsQueued =>
         LET cap == effective.maxBackoff IN
         /\ retry'.delay <= cap
         /\ cap > 0 => retry'.delay > 0
         /\ retry'.delay < cap => retry'.delay >= 2 * retry.delay]_vars
=============================================================================
