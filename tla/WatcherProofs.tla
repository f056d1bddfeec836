---------------------------- MODULE WatcherProofs ----------------------------
(* Theorems about Watcher, for any number of saves, overlapping reloads and *)
(* any capacity of the channel.                                             *)
EXTENDS Watcher, TLAPS, SequenceTheorems

\* What receiving from the channel and posting to it leave in it.
LEMMA Received ==
    ASSUME NEW S, NEW q \in Seq(S), q # <<>>
    PROVE  /\ Head(q) \in S /\ Head(q) = q[1] /\ 1 \in DOMAIN q
           /\ Tail(q) \in Seq(S)
           /\ \A k \in DOMAIN Tail(q) : k + 1 \in DOMAIN q /\ Tail(q)[k] = q[k + 1]
           /\ \A k \in DOMAIN q \ {1} : k - 1 \in DOMAIN Tail(q) /\ Tail(q)[k - 1] = q[k]
<1>1. /\ Head(q) \in S /\ Head(q) = q[1] /\ Tail(q) \in Seq(S)
      /\ Len(q) \in Nat /\ Len(q) # 0 /\ Len(Tail(q)) = Len(q) - 1
      /\ \A k \in 1..Len(Tail(q)) : Tail(q)[k] = q[k + 1]
  BY HeadTailProperties, EmptySeq, LenProperties
<1>2. DOMAIN q = 1..Len(q) /\ DOMAIN Tail(q) = 1..Len(Tail(q))
  BY <1>1, LenProperties
<1>3. \A k \in DOMAIN q \ {1} : k - 1 \in 1..Len(Tail(q)) /\ (k - 1) + 1 = k
  BY <1>1, <1>2
<1> QED
  BY <1>1, <1>2, <1>3

LEMMA Posted ==
    ASSUME NEW S, NEW q \in Seq(S), NEW e \in S
    PROVE  /\ Append(q, e) \in Seq(S)
           /\ \A k \in DOMAIN q : k \in DOMAIN Append(q, e) /\ Append(q, e)[k] = q[k]
           /\ \A k \in DOMAIN Append(q, e) : k \in DOMAIN q \/ Append(q, e)[k] = e
           /\ \E k \in DOMAIN Append(q, e) : Append(q, e)[k] = e
<1>1. /\ Append(q, e) \in Seq(S) /\ Len(Append(q, e)) = Len(q) + 1
      /\ \A k \in 1..Len(q) : Append(q, e)[k] = q[k]
      /\ Append(q, e)[Len(q) + 1] = e
  BY AppendProperties
<1>2. /\ Len(q) \in Nat /\ DOMAIN q = 1..Len(q)
      /\ DOMAIN Append(q, e) = 1..(Len(q) + 1)
  BY <1>1, LenProperties
<1> QED
  BY <1>1, <1>2

-----------------------------------------------------------------------------
(* Types *)

LEMMA LoaderStepsType ==
    ASSUME TypeOK, NEW l \in Loaders, LoaderReads(l) \/ LoaderPosts(l)
    PROVE  TypeOK'
<1> USE DEF TypeOK
<1>1. CASE LoaderReads(l)
  <2>1. [read |-> TRUE, version |-> saved] \in Loader
    BY DEF Loader
  <2>2. DOMAIN loader' \subseteq Loaders /\ loader' \in [DOMAIN loader' -> Loader]
    BY <1>1, <2>1 DEF LoaderReads, Ends
  <2> QED
    BY <1>1, <2>2 DEF LoaderReads
<1>2. CASE LoaderPosts(l)
  <2>1. Reload(loader[l].version) \in Event
    BY <1>2 DEF LoaderPosts, Loader, Reload, Event
  <2>2. queue' \in Seq(Event)
    BY <1>2, <2>1, Posted DEF LoaderPosts
  <2>3. DOMAIN loader' \subseteq Loaders /\ loader' \in [DOMAIN loader' -> Loader]
    BY <1>2 DEF LoaderPosts, Ends
  <2>4. lost' \subseteq {"missed", "dropped", "refused", "overtaken"}
    BY <1>2 DEF LoaderPosts
  <2> QED
    BY <1>2, <2>2, <2>3, <2>4 DEF LoaderPosts
<1> QED
  BY <1>1, <1>2

LEMMA WatcherNextType ==
    ASSUME TypeOK, [Next]_vars
    PROVE  TypeOK'
<1> USE DEF TypeOK
<1>1. ASSUME NEW ok \in BOOLEAN, Save(ok) PROVE TypeOK'
  <2>1. saved' \in Versions
    BY <1>1, WatcherAssumption DEF Save, Versions
  <2>2. valid' \subseteq Versions
    BY <1>1, <2>1 DEF Save
  <2>3. lost' \subseteq {"missed", "dropped", "refused", "overtaken"} /\ notices' \in Nat
    BY <1>1 DEF Save
  <2> QED
    BY <1>1, <2>1, <2>2, <2>3 DEF Save
<1>2. CASE WatchStarts \/ WatchFails \/ Trigger \/ NoticesOverflow \/ Stop
  <2>1. CASE WatchStarts \/ WatchFails \/ Stop
    BY <2>1 DEF WatchStarts, WatchFails, Stop
  <2>2. CASE Trigger
    BY <2>2 DEF Trigger
  <2>3. CASE NoticesOverflow
    BY <2>3 DEF NoticesOverflow
  <2> QED
    BY <1>2, <2>1, <2>2, <2>3
<1>3. CASE DebounceFires
  <2>1. Unread \in Loader
    BY WatcherAssumption DEF Unread, Loader, Versions
  <2>2. DOMAIN loader' \subseteq Loaders /\ loader' \in [DOMAIN loader' -> Loader]
    BY <1>3, <2>1 DEF DebounceFires
  <2> QED
    BY <1>3, <2>2 DEF DebounceFires
<1>4. CASE OtherIsPosted
  <2>1. queue' \in Seq(Event)
    BY <1>4, Posted DEF OtherIsPosted, Event
  <2> QED
    BY <1>4, <2>1 DEF OtherIsPosted
<1>5. CASE LoopHandlesOther
  BY <1>5, Received DEF LoopHandlesOther
<1>6. CASE OnReload \/ OnReloadFails
  <2>1. queue' \in Seq(Event) /\ Head(queue) \in Event /\ Head(queue).kind = "reload"
    BY <1>6, Received DEF OnReload, OnReloadFails
  <2>2. Head(queue).version \in Versions
    BY <2>1 DEF Event, Other
  <2> QED
    BY <1>6, <2>1, <2>2 DEF OnReload, OnReloadFails
<1>7. CASE UNCHANGED vars
  BY <1>7 DEF vars
<1> QED
  BY <1>1, <1>2, <1>3, <1>4, <1>5, <1>6, <1>7, LoaderStepsType DEF Next

\* Versions, goroutines and queued events keep their types.
THEOREM WatcherTypeCorrect == Spec => []TypeOK
<1>1. ASSUME Init PROVE TypeOK
  <2>1. 0 \in Versions
    BY WatcherAssumption DEF Versions
  <2>2. DOMAIN loader = {} /\ loader \in [DOMAIN loader -> Loader]
    BY <1>1 DEF Init
  <2>3. queue \in Seq(Event)
    BY <1>1 DEF Init
  <2> QED
    BY <1>1, <2>1, <2>2, <2>3 DEF Init, TypeOK
<1> QED
  BY <1>1, WatcherNextType, PTL DEF Spec

-----------------------------------------------------------------------------
(* An invalid file never comes into force. *)

LEMMA NextKeepsInvalidOut ==
    ASSUME TypeOK, InvalidIsNeverInForce, [Next]_vars
    PROVE  InvalidIsNeverInForce'
<1> USE DEF InvalidIsNeverInForce
<1>1. queue \in Seq(Event)
  BY DEF TypeOK
<1>2. ASSUME NEW ok \in BOOLEAN, Save(ok) PROVE InvalidIsNeverInForce'
  BY <1>2 DEF Save
<1>3. CASE WatchStarts \/ WatchFails \/ Trigger \/ NoticesOverflow \/ Stop \/ UNCHANGED vars
  BY <1>3 DEF WatchStarts, WatchFails, Trigger, NoticesOverflow, Stop, vars
<1>4. CASE DebounceFires
  BY <1>4 DEF DebounceFires, Unread
<1>5. ASSUME NEW l \in Loaders, LoaderReads(l) PROVE InvalidIsNeverInForce'
  BY <1>5 DEF LoaderReads, Ends
<1>6. ASSUME NEW l \in Loaders, LoaderPosts(l) PROVE InvalidIsNeverInForce'
  <2>1. loader[l].version \in valid /\ Reload(loader[l].version) \in Event
    BY <1>6 DEF LoaderPosts, TypeOK, Loader, Reload, Event
  <2>2. \A k \in DOMAIN queue' : queue'[k].kind = "reload" => queue'[k].version \in valid
    BY <1>1, <1>6, <2>1, Posted DEF LoaderPosts, Reload
  <2> QED
    BY <1>6, <2>2 DEF LoaderPosts, Ends
<1>7. CASE OtherIsPosted
  <2>1. Other \in Event /\ Other.kind # "reload"
    BY DEF Event, Other
  <2>2. \A k \in DOMAIN queue' : queue'[k].kind = "reload" => queue'[k].version \in valid
    BY <1>1, <1>7, <2>1, Posted DEF OtherIsPosted
  <2> QED
    BY <1>7, <2>2 DEF OtherIsPosted
<1>8. CASE LoopHandlesOther \/ OnReload \/ OnReloadFails
  <2>1. \A k \in DOMAIN queue' : queue'[k].kind = "reload" => queue'[k].version \in valid
    BY <1>1, <1>8, Received DEF LoopHandlesOther, OnReload, OnReloadFails
  <2>2. inForce' \in valid
    BY <1>1, <1>8, Received DEF LoopHandlesOther, OnReload, OnReloadFails
  <2> QED
    BY <1>8, <2>1, <2>2 DEF LoopHandlesOther, OnReload, OnReloadFails
<1> QED
  BY <1>2, <1>3, <1>4, <1>5, <1>6, <1>7, <1>8 DEF Next

\* Whatever is saved, only a version that was valid when it was read is ever
\* in force.
THEOREM LastGoodIsKept == Spec => []InvalidIsNeverInForce
<1>1. Init => InvalidIsNeverInForce
  BY DEF Init, InvalidIsNeverInForce
<1> QED
  BY <1>1, NextKeepsInvalidOut, WatcherTypeCorrect, PTL DEF Spec

-----------------------------------------------------------------------------
(* A valid file is in force, on its way, or lost in one of four ways. *)

LEMMA NextLosesNothingElse ==
    ASSUME TypeOK, OnlyKnownLosses, [Next]_vars
    PROVE  OnlyKnownLosses'
<1>1. queue \in Seq(Event) /\ notices \in Nat
  BY DEF TypeOK
<1>2. ASSUME NEW ok \in BOOLEAN, Save(ok) PROVE OnlyKnownLosses'
  BY <1>1, <1>2 DEF Save, OnlyKnownLosses, OnTheWay
<1>3. CASE WatchStarts \/ WatchFails \/ Trigger \/ NoticesOverflow \/ Stop \/ UNCHANGED vars
  BY <1>3 DEF WatchStarts, WatchFails, Trigger, NoticesOverflow, Stop, vars,
     OnlyKnownLosses, OnTheWay
<1>4. CASE DebounceFires
  <2>1. PICK l \in Loaders \ DOMAIN loader :
          loader' = [k \in DOMAIN loader \cup {l} |-> IF k = l THEN Unread ELSE loader[k]]
    BY <1>4 DEF DebounceFires
  <2>2. l \in DOMAIN loader' /\ ~loader'[l].read
    BY <2>1 DEF Unread
  <2> QED
    BY <2>2 DEF OnlyKnownLosses, OnTheWay
<1>5. ASSUME NEW l \in Loaders, LoaderReads(l) PROVE OnlyKnownLosses'
  <2>1. CASE saved \notin valid
    BY <1>5, <2>1 DEF LoaderReads, OnlyKnownLosses
  <2>2. CASE saved \in valid
    <3>1. l \in DOMAIN loader' /\ loader'[l].version = saved'
      BY <1>5, <2>2 DEF LoaderReads
    <3> QED
      BY <3>1 DEF OnlyKnownLosses, OnTheWay
  <2> QED
    BY <2>1, <2>2
<1>6. ASSUME NEW l \in Loaders, LoaderPosts(l) PROVE OnlyKnownLosses'
  <2> DEFINE v == loader[l].version
  <2>1. Reload(v) \in Event
    BY <1>6 DEF LoaderPosts, TypeOK, Loader, Reload, Event
  <2>2. \A k \in DOMAIN queue : k \in DOMAIN queue' /\ queue'[k] = queue[k]
    BY <1>1, <1>6, <2>1, Posted DEF LoaderPosts
  <2>3. CASE v # saved
    BY <1>6, <2>2, <2>3 DEF LoaderPosts, Ends, OnlyKnownLosses, OnTheWay
  <2>4. CASE v = saved
    <3>1. \/ \E k \in DOMAIN queue' : queue'[k] = Reload(saved')
          \/ lost' # {}
      BY <1>1, <1>6, <2>1, <2>4, Posted DEF LoaderPosts
    <3> QED
      BY <3>1 DEF OnlyKnownLosses, OnTheWay
  <2> QED
    BY <2>3, <2>4
<1>7. CASE OtherIsPosted
  <2>1. \A k \in DOMAIN queue : k \in DOMAIN queue' /\ queue'[k] = queue[k]
    BY <1>1, <1>7, Posted DEF OtherIsPosted, Event
  <2> QED
    BY <1>7, <2>1 DEF OtherIsPosted, OnlyKnownLosses, OnTheWay
<1>8. ASSUME queue # <<>>, queue' = Tail(queue), Head(queue) # Reload(saved),
             UNCHANGED <<phase, saved, valid, notices, armed, loader>>,
             inForce = saved => inForce' = saved \/ lost' # {}, lost \subseteq lost'
      PROVE  OnlyKnownLosses'
  <2>1. \A k \in DOMAIN queue : queue[k] = Reload(saved) =>
           k - 1 \in DOMAIN queue' /\ queue'[k - 1] = Reload(saved)
    BY <1>1, <1>8, Received
  <2> QED
    BY <1>8, <2>1 DEF OnlyKnownLosses, OnTheWay
<1>9. CASE LoopHandlesOther
  BY <1>8, <1>9 DEF LoopHandlesOther, Other, Reload
<1>10. CASE OnReload
  <2>1. Head(queue) \in Event /\ Head(queue).kind = "reload"
    BY <1>1, <1>10, Received DEF OnReload
  <2>2. CASE Head(queue) = Reload(saved)
    BY <1>10, <2>2 DEF OnReload, OnlyKnownLosses, Reload
  <2>3. CASE Head(queue) # Reload(saved)
    BY <1>8, <1>10, <2>3 DEF OnReload
  <2> QED
    BY <2>2, <2>3
<1>11. CASE OnReloadFails
  <2>1. CASE Head(queue) = Reload(saved)
    BY <1>11, <2>1 DEF OnReloadFails, OnlyKnownLosses, Reload
  <2>2. CASE Head(queue) # Reload(saved)
    BY <1>8, <1>11, <2>2 DEF OnReloadFails
  <2> QED
    BY <2>1, <2>2
<1> QED
  BY <1>2, <1>3, <1>4, <1>5, <1>6, <1>7, <1>9, <1>10, <1>11 DEF Next

\* A valid file that is neither in force nor on its way was missed, dropped,
\* refused or overtaken.
THEOREM NothingElseIsLost == Spec => []OnlyKnownLosses
<1>1. Init => OnlyKnownLosses
  BY DEF Init, OnlyKnownLosses
<1> QED
  BY <1>1, NextLosesNothingElse, WatcherTypeCorrect, PTL DEF Spec

=============================================================================
