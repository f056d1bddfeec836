------------------------------- MODULE Watcher -------------------------------
(***************************************************************************)
(* How a saved WORKFLOW.md comes into force: internal/watcher notices the   *)
(* save, waits for the end of a burst, and reads, validates and posts the  *)
(* file on a goroutine of its own; the loop of Orchestrator applies what   *)
(* it receives.                                                            *)
(*                                                                         *)
(* A version of the file is its number: version 0 is what main has loaded, *)
(* before the watch begins.                                                *)
(***************************************************************************)
EXTENDS Integers, Sequences

CONSTANTS
    Loaders,    \* identities of reload goroutines (bound: so many overlap)
    Cap,        \* capacity of the events channel (256 in the code)
    MaxSaves    \* bound: saves in a behaviour

ASSUME WatcherAssumption == Cap \in Nat \ {0} /\ MaxSaves \in Nat

VARIABLES
    phase,      \* of Run: "starting", "watching" or "stopped"
    saved,      \* version of the file on disk
    valid,      \* versions that load, parse and validate
    notices,    \* events of fsnotify that Run has yet to receive
    armed,      \* the debounce timer is armed
    loader,     \* reload goroutines: what each has read, if it has
    queue,      \* the events channel: versions, among the events of others
    inForce,    \* version of o.cfg and o.template
    lost        \* ghost: why the version on disk may never be in force

vars == <<phase, saved, valid, notices, armed, loader, queue, inForce, lost>>

Versions == 0..MaxSaves
Other == [kind |-> "other"]
Reload(v) == [kind |-> "reload", version |-> v]
Event == {Other} \cup [kind: {"reload"}, version: Versions]
Unread == [read |-> FALSE, version |-> 0]
Loader == [read: BOOLEAN, version: Versions]

Ends(l) == loader' = [k \in DOMAIN loader \ {l} |-> loader[k]]

-----------------------------------------------------------------------------
(* The file *)

\* Before Run has added its watches, and when it has none, nobody is told.
Save(ok) ==
    /\ saved < MaxSaves
    /\ saved' = saved + 1
    /\ valid' = IF ok THEN valid \cup {saved'} ELSE valid
    /\ IF phase = "watching"
       THEN notices' = notices + 1 /\ lost' = {}
       ELSE notices' = notices /\ lost' = {"missed"}
    /\ UNCHANGED <<phase, armed, loader, queue, inForce>>

-----------------------------------------------------------------------------
(* Run *)

WatchStarts ==
    /\ phase = "starting"
    /\ phase' = "watching"
    /\ UNCHANGED <<saved, valid, notices, armed, loader, queue, inForce, lost>>

\* No watcher can be created: the daemon goes on without.
WatchFails ==
    /\ phase = "starting"
    /\ phase' = "stopped"
    /\ UNCHANGED <<saved, valid, notices, armed, loader, queue, inForce, lost>>

BugTrigger ==
    /\ phase = "watching"
    /\ notices' = notices - 1
    /\ armed' = TRUE
    /\ UNCHANGED <<phase, saved, valid, loader, queue, inForce, lost>>

\* The timer is stopped, if it has not fired, and armed anew.
Trigger ==
    /\ phase = "watching"
    /\ notices > 0
    /\ notices' = notices - 1
    /\ armed' = TRUE
    /\ UNCHANGED <<phase, saved, valid, loader, queue, inForce, lost>>

\* The queue of the operating system overflows: an error that Run only logs.
NoticesOverflow ==
    /\ phase = "watching"
    /\ notices > 0
    /\ notices' = 0
    /\ lost' = lost \cup {"missed"}
    /\ UNCHANGED <<phase, saved, valid, armed, loader, queue, inForce>>

\* The root context ends.
Stop ==
    /\ phase = "watching"
    /\ phase' = "stopped"
    /\ armed' = FALSE
    /\ UNCHANGED <<saved, valid, notices, loader, queue, inForce, lost>>

-----------------------------------------------------------------------------
(* The timer and reload: reading and posting are apart, other reloads and  *)
(* saves may come between.                                                 *)

BugDebounceFires ==
    /\ armed
    /\ armed' = FALSE
    /\ \E l \in Loaders :
         loader' = IF DOMAIN loader # {} THEN loader ELSE [k \in {l} |-> Unread]
    /\ UNCHANGED <<phase, saved, valid, notices, queue, inForce, lost>>

DebounceFires ==
    /\ armed
    /\ armed' = FALSE
    /\ \E l \in Loaders \ DOMAIN loader :
         loader' = [k \in DOMAIN loader \cup {l} |-> IF k = l THEN Unread ELSE loader[k]]
    /\ UNCHANGED <<phase, saved, valid, notices, queue, inForce, lost>>

BugLoaderReads(l) ==
    /\ l \in DOMAIN loader
    /\ ~loader[l].read
    /\ loader' = [loader EXCEPT ![l] = [read |-> TRUE, version |-> saved]]
    /\ UNCHANGED <<phase, saved, valid, notices, armed, queue, inForce, lost>>

LoaderReads(l) ==
    /\ l \in DOMAIN loader
    /\ ~loader[l].read
    /\ IF saved \in valid
       THEN loader' = [loader EXCEPT ![l] = [read |-> TRUE, version |-> saved]]
       ELSE Ends(l)
    /\ UNCHANGED <<phase, saved, valid, notices, armed, queue, inForce, lost>>

\* A send with a default case: a full channel drops the reload for good.
LoaderPosts(l) ==
    /\ l \in DOMAIN loader
    /\ loader[l].read
    /\ LET v == loader[l].version
       IN IF Len(queue) < Cap
          THEN queue' = Append(queue, Reload(v)) /\ lost' = lost
          ELSE queue' = queue /\ lost' = IF v = saved THEN lost \cup {"dropped"} ELSE lost
    /\ Ends(l)
    /\ UNCHANGED <<phase, saved, valid, notices, armed, inForce>>

-----------------------------------------------------------------------------
(* The channel and the loop *)

\* Ticks, updates, exits, timers, requests.
OtherIsPosted ==
    /\ Len(queue) < Cap
    /\ queue' = Append(queue, Other)
    /\ UNCHANGED <<phase, saved, valid, notices, armed, loader, inForce, lost>>

\* A tick validates the configuration in force; no handler reads the file.
LoopHandlesOther ==
    /\ queue # <<>>
    /\ Head(queue) = Other
    /\ queue' = Tail(queue)
    /\ UNCHANGED <<phase, saved, valid, notices, armed, loader, inForce, lost>>

OnReload ==
    /\ queue # <<>>
    /\ Head(queue).kind = "reload"
    /\ queue' = Tail(queue)
    /\ inForce' = Head(queue).version
    /\ lost' = IF inForce = saved /\ inForce' # saved THEN lost \cup {"overtaken"} ELSE lost
    /\ UNCHANGED <<phase, saved, valid, notices, armed, loader>>

\* The tracker client cannot be rebuilt.
OnReloadFails ==
    /\ queue # <<>>
    /\ Head(queue).kind = "reload"
    /\ queue' = Tail(queue)
    /\ lost' = IF Head(queue).version = saved THEN lost \cup {"refused"} ELSE lost
    /\ UNCHANGED <<phase, saved, valid, notices, armed, loader, inForce>>

-----------------------------------------------------------------------------
Init ==
    /\ phase = "starting"
    /\ saved = 0 /\ valid = {0} /\ inForce = 0
    /\ notices = 0
    /\ armed = FALSE
    /\ loader = [l \in {} |-> Unread]
    /\ queue = <<>>
    /\ lost = {}

Next ==
    \/ \E ok \in BOOLEAN : Save(ok)
    \/ WatchStarts \/ WatchFails \/ Trigger \/ NoticesOverflow \/ Stop
    \/ DebounceFires
    \/ \E l \in Loaders : LoaderReads(l) \/ LoaderPosts(l)
    \/ OtherIsPosted \/ LoopHandlesOther \/ OnReload \/ OnReloadFails

Spec == Init /\ [][Next]_vars

\* Every goroutine and the timer get their turn; other events keep coming.
FairSpec ==
    /\ Spec
    /\ WF_vars(WatchStarts \/ WatchFails)
    /\ WF_vars(Trigger)
    /\ WF_vars(DebounceFires)
    /\ \A l \in Loaders : WF_vars(LoaderReads(l) \/ LoaderPosts(l))
    /\ WF_vars(LoopHandlesOther \/ OnReload \/ OnReloadFails)
    /\ WF_vars(OtherIsPosted)

-----------------------------------------------------------------------------
TypeOK ==
    /\ phase \in {"starting", "watching", "stopped"}
    /\ saved \in Versions /\ valid \subseteq Versions /\ inForce \in Versions
    /\ notices \in Nat
    /\ armed \in BOOLEAN
    /\ DOMAIN loader \subseteq Loaders /\ loader \in [DOMAIN loader -> Loader]
    /\ queue \in Seq(Event)
    /\ lost \subseteq {"missed", "dropped", "refused", "overtaken"}

\* The last good configuration stays in force whatever is saved, also when
\* the file changes between a save, its reading and its application.
InvalidIsNeverInForce ==
    /\ inForce \in valid
    /\ \A l \in DOMAIN loader : loader[l].read => loader[l].version \in valid
    /\ \A k \in DOMAIN queue : queue[k].kind = "reload" => queue[k].version \in valid

OnTheWay ==
    \/ notices > 0
    \/ armed
    \/ \E l \in DOMAIN loader : loader[l].read => loader[l].version = saved
    \/ \E k \in DOMAIN queue : queue[k] = Reload(saved)

\* A valid file is in force or on its way.  There are four exceptions and no
\* other: its events were missed, the channel was full when it was posted,
\* the loop refused it, or an older reload was applied after it.
OnlyKnownLosses ==
    \/ saved \notin valid
    \/ inForce = saved
    \/ OnTheWay
    \/ lost # {}
    \/ phase = "stopped"

\* A valid file that is left alone comes into force, but for these cases.
SavedFileTakesEffect ==
    \A v \in Versions :
        saved = v /\ v \in valid ~> inForce = v \/ saved # v \/ lost # {} \/ phase = "stopped"

-----------------------------------------------------------------------------
(* Documented behaviour that the code does not have *)

\* SPEC 6.2: on change, the workflow is read and applied again.  So when all
\* is quiet and every event was received and every reload accepted, the file
\* on disk is the one in force.
ChangesAreReapplied ==
    (phase = "watching" /\ saved \in valid /\ ~OnTheWay /\ lost \subseteq {"overtaken"})
        => inForce = saved

=============================================================================
