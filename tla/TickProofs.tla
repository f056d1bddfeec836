----------------------------- MODULE TickProofs ------------------------------
(* Theorems about Tick, for all values of its constants: what a fetch of    *)
(* pages gives, whom a tick dispatches, and what decisions rest on.         *)
EXTENDS Tick, Induction, FunctionTheorems, SequenceTheorems

-----------------------------------------------------------------------------
(* Orders *)

StrictOrder(S, before) ==
    /\ \A x \in S : <<x, x>> \notin before
    /\ \A x, y, z \in S : <<x, y>> \in before /\ <<y, z>> \in before => <<x, z>> \in before
    /\ \A x, y \in S : x # y => <<x, y>> \in before \/ <<y, x>> \in before

\* The sequence q lists S, every element once and none after one it is before.
Lists(q, S, before) ==
    /\ q \in [1..Cardinality(S) -> S]
    /\ \A x \in S : \E k \in 1..Cardinality(S) : q[k] = x
    /\ \A j, k \in 1..Cardinality(S) : j < k => <<q[j], q[k]>> \in before

LEMMA InOrderLists ==
    ASSUME NEW S, IsFiniteSet(S), NEW before, StrictOrder(S, before)
    PROVE  Cardinality(S) \in Nat /\ Lists(InOrder(S, before), S, before)
<1> DEFINE n == Cardinality(S)
           below(x) == {y \in S : <<y, x>> \in before}
           nth(k) == CHOOSE x \in S : Cardinality(below(x)) = k - 1
<1>1. n \in Nat
  BY FS_CardinalityType
<1>2. ASSUME NEW x \in S
      PROVE  /\ IsFiniteSet(below(x)) /\ Cardinality(below(x)) \in Nat
             /\ Cardinality(below(x)) < n
  <2>1. below(x) \in SUBSET S /\ x \notin below(x)
    BY DEF StrictOrder
  <2>2. /\ IsFiniteSet(below(x)) /\ Cardinality(below(x)) <= n
        /\ n = Cardinality(below(x)) => S = below(x)
    BY <2>1, FS_Subset
  <2>3. Cardinality(below(x)) \in Nat
    BY <2>2, FS_CardinalityType
  <2> QED
    BY <1>1, <2>1, <2>2, <2>3
<1>3. ASSUME NEW x \in S, NEW y \in S, <<x, y>> \in before
      PROVE  Cardinality(below(x)) < Cardinality(below(y))
  <2>1. below(x) \subseteq below(y) /\ x \in below(y) /\ x \notin below(x)
    BY <1>3 DEF StrictOrder
  <2>2. /\ Cardinality(below(x)) <= Cardinality(below(y))
        /\ Cardinality(below(x)) # Cardinality(below(y))
    BY <1>2, <2>1, FS_Subset
  <2> QED
    BY <1>2, <2>2
<1> HIDE DEF below, n
<1>4. PICK place \in [S -> 1..n] : \A x \in S : place[x] = Cardinality(below(x)) + 1
  <2>1. [x \in S |-> Cardinality(below(x)) + 1] \in [S -> 1..n]
    BY <1>1, <1>2
  <2> QED
    BY <2>1
<1>5. ASSUME NEW x \in S, NEW y \in S, <<x, y>> \in before PROVE place[x] < place[y]
  BY <1>2, <1>3, <1>4, <1>5
<1>6. ASSUME NEW x \in S, NEW y \in S, place[x] = place[y] PROVE x = y
  <2>1. ~(place[x] < place[y]) /\ ~(place[y] < place[x])
    BY <1>1, <1>6
  <2> QED
    BY <1>5, <2>1 DEF StrictOrder
<1>7. \A k \in 1..n : \E x \in S : place[x] = k
  <2>1. IsFiniteSet(1..n) /\ Cardinality(1..n) = Cardinality(S)
    BY <1>1, FS_Interval DEF n
  <2>2. place \in Injection(S, 1..n)
    BY <1>6 DEF Injection, IsInjective
  <2>3. place \in Surjection(S, 1..n)
    BY <2>1, <2>2, FS_Injection
  <2> QED
    BY <2>3 DEF Surjection
<1>8. ASSUME NEW k \in 1..n PROVE nth(k) \in S /\ place[nth(k)] = k
  <2>1. PICK x \in S : place[x] = k
    BY <1>7
  <2>2. Cardinality(below(x)) = k - 1
    BY <1>2, <1>4, <2>1
  <2>3. nth(k) \in S /\ Cardinality(below(nth(k))) = k - 1
    BY <2>2
  <2> HIDE DEF nth, below
  <2> QED
    BY <1>1, <1>4, <2>3
<1>9. InOrder(S, before) = [k \in 1..n |-> nth(k)]
  BY DEF InOrder, below, n
<1> HIDE DEF nth
<1>10. PICK q : q = InOrder(S, before) /\ q = [k \in 1..n |-> nth(k)]
  BY <1>9
<1>11. q \in [1..n -> S] /\ \A k \in 1..n : place[q[k]] = k
  BY <1>8, <1>10
<1>12. ASSUME NEW x \in S PROVE \E k \in 1..n : q[k] = x
  BY <1>6, <1>11
<1>13. ASSUME NEW j \in 1..n, NEW k \in 1..n, j < k PROVE <<q[j], q[k]>> \in before
  <2>1. q[j] # q[k] /\ ~(place[q[k]] < place[q[j]])
    BY <1>1, <1>11, <1>13
  <2> QED
    BY <1>5, <1>11, <2>1 DEF StrictOrder
<1> QED
  BY <1>1, <1>10, <1>11, <1>12, <1>13 DEF Lists, n

-----------------------------------------------------------------------------
(* The invariant *)

Candidate ==
    [id: Issues, titled: BOOLEAN, state: Texts \ {Blank}, assignee: Texts,
     priority: Counts, created: Counts, labels: SUBSET Texts, blockedBy: SUBSET Texts]

TypeOK ==
    /\ node \in [Issues -> Node] /\ running \in [Issues -> Texts]
    /\ claimed \subseteq Issues /\ retrying \subseteq Issues
    /\ call = NoCall \/
       call \in [place: {"paging", "fetched"}, for: 0..N, after: 0..N, all: Seq(Candidate)]
    /\ truth \in [matched: SUBSET Issues, ready: SUBSET Issues, unready: SUBSET Issues]
    /\ calls \in Nat /\ edits \in Nat

\* The ghost keeps what is the case now, and what has been since the fetch began.
TruthIsKept ==
    /\ \A i \in truth.matched : Matches(i)
    /\ \A i \in Issues : IF Ready(i) THEN i \in truth.ready ELSE i \in truth.unready
    /\ Issues \ truth.matched \subseteq truth.unready

\* The candidates got so far: up to the cursor, none twice, and of those that
\* have matched all the time none is left out.
PagesAreExact ==
    /\ \A j, k \in DOMAIN call.all : j < k => call.all[j].id < call.all[k].id
    /\ \A k \in DOMAIN call.all : call.all[k].id <= call.after
    /\ \A i \in truth.matched :
         i <= call.after \/ call.place = "fetched" => \E k \in DOMAIN call.all : call.all[k].id = i

\* A candidate that looks eligible, or does not, has been what it looks.
CandidatesWereTrue ==
    \A k \in DOMAIN call.all :
       IF IsEligible(call.all[k]) THEN call.all[k].id \in truth.ready
       ELSE call.all[k].id \in truth.unready

IInv ==
    /\ TypeOK
    /\ call # NoCall => TruthIsKept /\ PagesAreExact /\ CandidatesWereTrue

\* On an issue the filter matches, the checks of isEligible agree with the
\* tracker's own account.
LEMMA ReadyIsEligible ==
    ASSUME TypeOK, NEW i \in Issues, Matches(i)
    PROVE  LET c == NormalizeIssue(i) IN
           c \in Candidate /\ c.id = i /\ (IsEligible(c) <=> Ready(i))
<1> DEFINE n == node[i]
           blocks == {r \in n.relations : Normal[r.type] = "blocks"}
           labels == {Normal[l] : l \in n.labels} \ {Blank}
           blockedBy == {Blocker(r) : r \in blocks}
<1>1. n \in Node
  BY DEF TypeOK
<1>2. \A r \in n.relations : r.type \in Texts /\ r.issue \in Issues \cup {Null}
  BY <1>1 DEF Node
<1>3. \A r \in n.relations : r.issue # Null => node[r.issue].state \in Texts \ {Blank}
  <2>1. \A j \in Issues : node[j].state \in Texts \ {Blank}
    BY DEF TypeOK, Node
  <2> QED
    BY <1>2, <2>1
<1>4. \A r \in n.relations : Blocker(r) \in Texts
  BY <1>3, TickAssumption DEF Blocker
<1>5. NormalizePriority(n.priority) \in Counts
  <2>1. n.priority \in Counts /\ MaxInt \in Nat
    BY <1>1, TickAssumption DEF Node
  <2> QED
    BY <2>1 DEF Counts, NormalizePriority, Null
<1>6. labels \in SUBSET Texts /\ blockedBy \in SUBSET Texts /\ n.labels \in SUBSET Texts
  BY <1>1, <1>4, TickAssumption DEF Node
<1>7. NormalizeIssue(i) =
        [id |-> i, titled |-> n.titled, state |-> n.state, assignee |-> n.assignee,
         priority |-> NormalizePriority(n.priority), created |-> n.created,
         labels |-> labels, blockedBy |-> blockedBy]
  BY DEF NormalizeIssue
<1>8. (\A l \in Config.labels : Normal[l] # Blank /\ Normal[l] \in {Normal[h] : h \in labels})
      <=> (\A l \in Config.labels : Normal[l] # Blank /\ Is(n.labels, l))
  BY <1>6, TickAssumption DEF Is
<1>9. (\A s \in blockedBy : IsTerminalBlocker(s))
      <=> \A r \in n.relations : Normal[r.type] = "blocks" =>
            r.issue # Null /\ Is(Config.terminal, node[r.issue].state)
  BY <1>3 DEF IsTerminalBlocker, Blocker
<1>10. (Normal[Config.assignee] # Blank =>
          n.assignee # Blank /\ Normal[n.assignee] = Normal[Config.assignee])
       <=> Normal[Config.assignee] \in {Blank, Normal[n.assignee]}
  BY TickAssumption
<1>11. n.state # Blank /\ Is(Config.active, n.state)
  BY <1>1 DEF Matches, Node, Is
<1> HIDE DEF labels, blockedBy, blocks
<1>12. NormalizeIssue(i) \in Candidate /\ NormalizeIssue(i).id = i
  BY <1>1, <1>5, <1>6, <1>7 DEF Candidate, Node
<1>13. IsEligible(NormalizeIssue(i)) <=> Ready(i)
  BY <1>7, <1>8, <1>9, <1>10, <1>11 DEF IsEligible, Ready, MatchesAssignee, HasRequiredLabels
<1> QED
  BY <1>12, <1>13

\* A page: the next issues that match, none left out up to its last.
LEMMA PageGoesOn ==
    ASSUME TypeOK, NEW a \in 0..N
    PROVE  LET page == Page(MatchesAfter(a)) IN
           /\ page \in Seq(Issues)
           /\ \A k \in DOMAIN page : a < page[k] /\ Matches(page[k])
           /\ \A j, k \in DOMAIN page : j < k => page[j] < page[k]
           /\ \A i \in Issues :
                /\ a < i /\ Matches(i)
                /\ \/ page # <<>> /\ i <= page[Len(page)]
                   \/ Len(MatchesAfter(a)) <= Config.pageSize
                => \E k \in DOMAIN page : page[k] = i
<1> DEFINE S == {i \in Issues : i > a /\ Matches(i)}
           before == {p \in Issues \X Issues : p[1] < p[2]}
<1>1. N \in Nat /\ Config.pageSize \in Nat \ {0}
  BY TickAssumption
<1>2. IsFiniteSet(S)
  <2>1. IsFiniteSet(1..N) /\ S \in SUBSET (1..N)
    BY <1>1, FS_Interval DEF Issues
  <2> QED
    BY <2>1, FS_Subset
<1>3. StrictOrder(S, before)
  BY <1>1 DEF StrictOrder, Issues
<1>4. \A i, j \in S : <<i, j>> \in before => i < j
  OBVIOUS
<1>5. \A i \in S : i \in Issues /\ a < i /\ Matches(i)
  OBVIOUS
<1>6. \A i \in Issues : a < i /\ Matches(i) => i \in S
  OBVIOUS
<1>7. MatchesAfter(a) = InOrder(S, before)
  BY DEF MatchesAfter
<1> HIDE DEF S, before
<1>8. PICK rest : rest = MatchesAfter(a) /\ Lists(rest, S, before)
  BY <1>2, <1>3, <1>7, InOrderLists
<1>9. PICK n \in Nat : n = Cardinality(S)
  BY <1>2, FS_CardinalityType
<1>10. /\ rest \in [1..n -> S]
       /\ \A i \in S : \E k \in 1..n : rest[k] = i
       /\ \A j, k \in 1..n : j < k => rest[j] < rest[k]
  BY <1>4, <1>8, <1>9 DEF Lists
<1>11. rest \in Seq(Issues) /\ Len(rest) = n
  <2>1. rest \in [1..n -> Issues]
    BY <1>5, <1>10
  <2> QED
    BY <2>1, SeqDef, LenProperties
<1> DEFINE m == IF n < Config.pageSize THEN n ELSE Config.pageSize
<1>12. m \in 0..n /\ (n <= Config.pageSize => m = n) /\ (m = 0 => n = 0)
  BY <1>1
<1>13. Page(rest) = SubSeq(rest, 1, m)
  BY <1>11 DEF Page
<1> HIDE DEF m
<1>14. PICK page : page = Page(rest) /\ page \in Seq(Issues) /\ Len(page) = m
                   /\ DOMAIN page = 1..m /\ \A k \in 1..m : page[k] = rest[k]
  BY <1>11, <1>12, <1>13, SubSeqProperties, LenProperties
<1>15. \A k \in DOMAIN page : a < page[k] /\ Matches(page[k])
  BY <1>5, <1>10, <1>12, <1>14
<1>16. \A j, k \in DOMAIN page : j < k => page[j] < page[k]
  BY <1>10, <1>12, <1>14
<1>17. ASSUME NEW i \in Issues, a < i, Matches(i),
              \/ page # <<>> /\ i <= page[Len(page)]
              \/ Len(rest) <= Config.pageSize
       PROVE  \E k \in DOMAIN page : page[k] = i
  <2>1. PICK k \in 1..n : rest[k] = i
    BY <1>6, <1>10, <1>17
  <2>2. CASE Len(rest) <= Config.pageSize
    BY <1>11, <1>12, <1>14, <2>1, <2>2
  <2>3. CASE page # <<>> /\ i <= page[Len(page)]
    <3>1. m \in 1..n /\ i <= rest[m]
      BY <1>12, <1>14, <2>3, EmptySeq
    <3>2. ~(m < k)
      BY <1>1, <1>5, <1>10, <2>1, <3>1 DEF Issues
    <3> QED
      BY <1>12, <1>14, <2>1, <3>1, <3>2
  <2> QED
    BY <1>17, <2>2, <2>3
<1> QED
  BY <1>8, <1>14, <1>15, <1>16, <1>17

LEMMA IInvInitially == Init => IInv
<1> SUFFICES ASSUME Init PROVE IInv
  OBVIOUS
<1>1. node \in [Issues -> Node]
  BY TickAssumption DEF Init, Issues
<1>2. running \in [Issues -> Texts]
  BY TickAssumption DEF Init
<1> QED
  BY <1>1, <1>2 DEF Init, IInv, TypeOK, NoTruth

LEMMA CandidatesStay ==
    ASSUME TypeOK, call # NoCall, UNCHANGED <<call, truth>>
    PROVE  (PagesAreExact <=> PagesAreExact') /\ (CandidatesWereTrue <=> CandidatesWereTrue')
BY DEF PagesAreExact, CandidatesWereTrue, IsEligible, Is, MatchesAssignee, HasRequiredLabels,
       IsTerminalBlocker

LEMMA TruthStays ==
    ASSUME UNCHANGED <<node, truth>>
    PROVE  TruthIsKept <=> TruthIsKept'
BY DEF TruthIsKept, Matches, Ready, Is

LEMMA BeginsKeepsIInv ==
    ASSUME IInv, NEW for \in 0..N, Begins(for), retrying' \subseteq Issues
    PROVE  IInv'
<1>1. TypeOK'
  <2>1. call' \in [place: {"paging", "fetched"}, for: 0..N, after: 0..N, all: Seq(Candidate)]
    BY TickAssumption DEF Begins
  <2> QED
    BY <2>1 DEF Begins, IInv, TypeOK, Truth
<1>2. TruthIsKept'
  BY DEF Begins, TruthIsKept, Truth, Matches, Ready, Is
<1>3. PagesAreExact' /\ CandidatesWereTrue'
  <2>1. call'.all = <<>> /\ call'.after = 0 /\ call'.place = "paging" /\ truth' = Truth
    BY DEF Begins
  <2>2. \A i \in truth'.matched : ~(i <= 0)
    BY <2>1, TickAssumption DEF Truth, Issues
  <2> QED
    BY <2>1, <2>2 DEF PagesAreExact, CandidatesWereTrue
<1> QED
  BY <1>1, <1>2, <1>3 DEF IInv

LEMMA EndsKeepsIInv ==
    ASSUME IInv, Ends, running' \in [Issues -> Texts], claimed' \subseteq Issues,
           retrying' \subseteq Issues
    PROVE  IInv'
BY DEF IInv, TypeOK, Ends, NoTruth

LEMMA GetsPageKeepsIInv ==
    ASSUME IInv, GetsPage
    PROVE  IInv'
<1> DEFINE a == call.after
           read == call.all
           next == [k \in DOMAIN Page(MatchesAfter(a)) |-> NormalizeIssue(Page(MatchesAfter(a))[k])]
<1>1. /\ TypeOK /\ TruthIsKept /\ PagesAreExact /\ CandidatesWereTrue
      /\ call \in [place: {"paging", "fetched"}, for: 0..N, after: 0..N, all: Seq(Candidate)]
      /\ call.place = "paging"
  BY DEF IInv, TypeOK, GetsPage, Paging, NoCall
<1>2. N \in Nat /\ a \in 0..N /\ read \in Seq(Candidate)
  BY <1>1, TickAssumption
<1>3. PICK page : page = Page(MatchesAfter(a)) /\ page \in Seq(Issues)
  BY <1>1, <1>2, PageGoesOn
<1>4. /\ \A k \in DOMAIN page : a < page[k] /\ Matches(page[k])
      /\ \A j, k \in DOMAIN page : j < k => page[j] < page[k]
      /\ \A i \in Issues :
           /\ a < i /\ Matches(i)
           /\ \/ page # <<>> /\ i <= page[Len(page)]
              \/ Len(MatchesAfter(a)) <= Config.pageSize
           => \E k \in DOMAIN page : page[k] = i
  BY <1>1, <1>2, <1>3, PageGoesOn
<1>5. /\ next \in Seq(Candidate) /\ Len(next) = Len(page) /\ DOMAIN next = DOMAIN page
      /\ \A k \in DOMAIN page : next[k].id = page[k] /\ (IsEligible(next[k]) <=> Ready(page[k]))
  <2>1. next = [k \in 1..Len(page) |-> NormalizeIssue(page[k])] /\ Len(page) \in Nat
    BY <1>3, LenProperties
  <2>2. \A k \in 1..Len(page) : page[k] \in Issues /\ Matches(page[k])
    BY <1>3, <1>4, LenProperties
  <2>3. \A k \in 1..Len(page) :
          LET c == NormalizeIssue(page[k]) IN
          c \in Candidate /\ c.id = page[k] /\ (IsEligible(c) <=> Ready(page[k]))
    BY <1>1, <2>2, ReadyIsEligible
  <2>4. next \in Seq(Candidate) /\ Len(next) = Len(page)
    BY <2>1, <2>3, IsASeq
  <2> HIDE DEF next
  <2> QED
    BY <1>3, <2>1, <2>3, <2>4, LenProperties
<1>6. /\ call'.all = read \o next
      /\ call'.after = IF page = <<>> THEN a ELSE page[Len(page)]
      /\ call'.place = IF Len(MatchesAfter(a)) <= Config.pageSize THEN "fetched" ELSE "paging"
      /\ call'.for = call.for /\ call' # NoCall
      /\ DOMAIN call' = {"place", "for", "after", "all"}
      /\ UNCHANGED <<node, loop, truth, calls, edits>>
  BY <1>1, <1>3 DEF GetsPage, NoCall
<1>7. TypeOK'
  <2>1. read \o next \in Seq(Candidate)
    BY <1>2, <1>5, ConcatProperties
  <2>2. (IF page = <<>> THEN a ELSE page[Len(page)]) \in 0..N
    BY <1>2, <1>3, EmptySeq, LenProperties DEF Issues
  <2>3. call' \in [place: {"paging", "fetched"}, for: 0..N, after: 0..N, all: Seq(Candidate)]
    <3>1. call' = [place |-> call'.place, for |-> call'.for, after |-> call'.after,
                   all |-> call'.all]
      BY <1>1 DEF GetsPage
    <3>2. call'.place \in {"paging", "fetched"}
      BY <1>6
    <3>3. call'.after \in 0..N /\ call'.all \in Seq(Candidate) /\ call'.for \in 0..N
      BY <1>1, <1>6, <2>1, <2>2
    <3> HIDE DEF next
    <3> QED
      BY <3>1, <3>2, <3>3
  <2> QED
    BY <1>1, <1>6, <2>3 DEF TypeOK, loop
<1> HIDE DEF next
<1>8. Len(read) \in Nat /\ DOMAIN read = 1..Len(read)
  BY <1>2, LenProperties
<1>9. Len(page) \in Nat /\ DOMAIN page = 1..Len(page)
  BY <1>3, LenProperties
<1> DEFINE r == Len(read)
           p == Len(page)
           all == read \o next
<1>10. /\ Len(all) = r + p /\ DOMAIN all = 1..(r + p)
       /\ \A k \in 1..r : all[k] = read[k]
       /\ \A k \in 1..p : all[r + k] = next[k]
  <2>0. read \in Seq(Candidate) /\ next \in Seq(Candidate) /\ Len(next) = p
    BY <1>2, <1>5
  <2> HIDE DEF read, p
  <2>1. /\ all \in Seq(Candidate) /\ Len(all) = r + p
        /\ \A k \in 1..(r + p) : all[k] = IF k <= r THEN read[k] ELSE next[k - r]
    BY <2>0, ConcatProperties
  <2>2. DOMAIN all = 1..(r + p)
    BY <2>1, LenProperties
  <2>3. \A k \in 1..r : k \in 1..(r + p) /\ k <= r
    BY <1>8, <1>9 DEF p, read
  <2>4. \A k \in 1..p : r + k \in 1..(r + p) /\ ~(r + k <= r) /\ (r + k) - r = k
    BY <1>8, <1>9 DEF p, read
  <2> HIDE DEF all, r
  <2> QED
    BY <2>1, <2>2, <2>3, <2>4
<1>11. \A k \in 1..(r + p) : k \in 1..r \/ (k - r \in 1..p /\ k = r + (k - r))
  BY <1>8, <1>9
<1> HIDE DEF r, p, all
<1>12. /\ \A k \in 1..r : all[k].id \in Issues /\ all[k].id <= a
       /\ \A j, k \in 1..r : j < k => all[j].id < all[k].id
  <2>1. \A k \in 1..r : read[k] \in Candidate
    BY <1>2, <1>8, ElementOfSeq DEF r
  <2> QED
    BY <1>1, <1>8, <1>10, <2>1 DEF PagesAreExact, r, Candidate
<1>13. /\ \A k \in 1..p : page[k] \in Issues /\ a < page[k] /\ all[r + k].id = page[k]
       /\ \A j, k \in 1..p : j < k => page[j] < page[k]
  <2>1. \A k \in 1..p : page[k] \in Issues
    BY <1>3, <1>9 DEF p
  <2> QED
    BY <1>4, <1>5, <1>9, <1>10, <2>1 DEF p
<1>14. /\ page = <<>> => p = 0
       /\ page # <<>> => p \in 1..p /\ \A k \in 1..p : page[k] <= page[p]
  <2>1. \A k \in 1..p : page[k] \in Int
    BY <1>2, <1>13 DEF Issues
  <2> QED
    BY <1>3, <1>9, <1>13, <2>1, EmptySeq DEF p
<1>15. PagesAreExact'
  <2>1. ASSUME NEW j \in 1..(r + p), NEW k \in 1..(r + p), j < k
        PROVE  all[j].id < all[k].id
    <3>1. CASE j \in 1..r /\ k \in 1..r
      BY <1>12, <2>1, <3>1
    <3>2. CASE j \in 1..r /\ k - r \in 1..p /\ k = r + (k - r)
      BY <1>2, <1>12, <1>13, <3>2 DEF Issues
    <3>3. CASE j - r \in 1..p /\ k - r \in 1..p /\ j = r + (j - r) /\ k = r + (k - r)
      <4>1. j - r < k - r
        BY <1>8, <2>1 DEF r
      <4> QED
        BY <1>13, <3>3, <4>1
    <3> QED
      BY <1>8, <1>9, <1>11, <2>1, <3>1, <3>2, <3>3 DEF r, p
  <2>2. ASSUME NEW k \in 1..(r + p)
        PROVE  all[k].id <= call'.after
    <3>1. CASE k \in 1..r
      BY <1>2, <1>6, <1>12, <1>13, <1>14, <3>1 DEF Issues, p
    <3>2. CASE k - r \in 1..p /\ k = r + (k - r)
      BY <1>6, <1>13, <1>14, <3>2 DEF p
    <3> QED
      BY <1>11, <3>1, <3>2
  <2>3. ASSUME NEW i \in truth.matched, i <= call'.after \/ call'.place = "fetched"
        PROVE  \E k \in 1..(r + p) : all[k].id = i
    <3>1. i \in Issues /\ Matches(i)
      BY <1>1 DEF TypeOK, TruthIsKept
    <3>2. CASE i <= a
      <4>1. PICK k \in 1..r : read[k].id = i
        BY <1>1, <1>8, <3>2 DEF PagesAreExact, r
      <4>2. k \in 1..(r + p)
        BY <1>8, <1>9 DEF r, p
      <4> QED
        BY <1>10, <4>1, <4>2
    <3>3. CASE ~(i <= a)
      <4>1. a < i
        BY <1>2, <3>1, <3>3 DEF Issues
      <4>2. (page # <<>> /\ i <= page[Len(page)]) \/ Len(MatchesAfter(a)) <= Config.pageSize
        BY <1>6, <2>3, <3>3
      <4>3. PICK k \in 1..p : page[k] = i
        BY <1>4, <1>9, <3>1, <4>1, <4>2 DEF p
      <4>4. r + k \in 1..(r + p)
        BY <1>8, <1>9 DEF r, p
      <4> QED
        BY <1>13, <4>3, <4>4
    <3> QED
      BY <3>2, <3>3
  <2> QED
    BY <1>6, <1>10, <2>1, <2>2, <2>3 DEF PagesAreExact, all
<1>16. CandidatesWereTrue'
  <2>1. ASSUME NEW k \in 1..r
        PROVE  IF IsEligible(all[k]) THEN all[k].id \in truth.ready
               ELSE all[k].id \in truth.unready
    BY <1>1, <1>8, <1>10 DEF CandidatesWereTrue, r
  <2>2. ASSUME NEW k \in 1..p
        PROVE  IF IsEligible(all[r + k]) THEN all[r + k].id \in truth.ready
               ELSE all[r + k].id \in truth.unready
    BY <1>1, <1>5, <1>9, <1>10, <1>13 DEF TruthIsKept, p
  <2>3. ASSUME NEW k \in 1..(r + p)
        PROVE  IF IsEligible(all[k]) THEN all[k].id \in truth.ready
               ELSE all[k].id \in truth.unready
    BY <1>11, <2>1, <2>2
  <2>4. DOMAIN call'.all = 1..(r + p) /\ call'.all = all
    BY <1>6, <1>10 DEF all
  <2> QED
    BY <1>6, <2>3, <2>4 DEF CandidatesWereTrue, IsEligible, Is, MatchesAssignee,
       HasRequiredLabels, IsTerminalBlocker
<1> QED
  BY <1>1, <1>6, <1>7, <1>15, <1>16, TruthStays DEF IInv

-----------------------------------------------------------------------------
(* The order of a tick *)

\* sortForDispatch's comparison.
Less(a, b) ==
    LET pa == OrLast(a.priority)  pb == OrLast(b.priority)
        ca == OrLast(a.created)   cb == OrLast(b.created)
    IN  \/ pa < pb
        \/ pa = pb /\ ca < cb
        \/ pa = pb /\ ca = cb /\ a.id < b.id

LEMMA LessIsAnOrder ==
    /\ \A a \in Candidate : ~Less(a, a)
    /\ \A a, b, c \in Candidate : Less(a, b) /\ Less(b, c) => Less(a, c)
    /\ \A a, b \in Candidate : Less(a, b) => ~Less(b, a)
    /\ \A a, b \in Candidate : ~Less(a, b) /\ ~Less(b, a) =>
         \A c \in Candidate : (Less(c, a) <=> Less(c, b)) /\ (Less(a, c) <=> Less(b, c))
<1>1. \A a \in Candidate : OrLast(a.priority) \in Nat /\ OrLast(a.created) \in Nat /\ a.id \in Nat
  BY TickAssumption DEF Candidate, OrLast, Counts, Issues, Null
<1> HIDE DEF Candidate, OrLast
<1> QED
  BY <1>1 DEF Less

\* Whatever is more urgent in the words of the documents goes first.
LEMMA MoreUrgentIsLess ==
    \A a, b \in Candidate : MoreUrgent(a, b) => Less(a, b)
<1>1. \A n \in Counts : n = Null \/ (n \in Nat /\ n < MaxInt)
  BY TickAssumption DEF Counts
<1>2. \A a \in Candidate : a.priority \in Counts /\ a.created \in Counts
  BY DEF Candidate
<1> QED
  BY <1>1, <1>2, TickAssumption DEF MoreUrgent, Less, OrLast, Null

\* The sequence q is a rearrangement of s, by the places in at, in which nobody
\* comes after one that should come later.
Sorts(at, s, q) ==
    /\ q \in Seq(Candidate) /\ Len(q) = Len(s)
    /\ at \in [1..Len(s) -> 1..Len(s)]
    /\ \A k \in 1..Len(s) : q[k] = s[at[k]]
    /\ \A j, k \in 1..Len(s) : j # k => at[j] # at[k]
    /\ \A j \in 1..Len(s) : \E k \in 1..Len(s) : at[k] = j
    /\ \A j, k \in 1..Len(s) : j < k => ~Less(q[k], q[j])

LEMMA SortForDispatchSorts ==
    ASSUME NEW s \in Seq(Candidate)
    PROVE  \E at : Sorts(at, s, SortForDispatch(s))
<1>0. PICK q : q = SortForDispatch(s)
  OBVIOUS
<1> DEFINE places == 1..Len(s)
           before == {p \in places \X places :
                        \/ Less(s[p[1]], s[p[2]])
                        \/ ~Less(s[p[2]], s[p[1]]) /\ p[1] < p[2]}
<1>1. Len(s) \in Nat /\ \A k \in places : s[k] \in Candidate
  BY LenProperties, ElementOfSeq
<1>2. IsFiniteSet(places) /\ Cardinality(places) = Len(s)
  BY <1>1, FS_Interval
<1>3. \A j, k \in places : <<j, k>> \in before <=>
        Less(s[j], s[k]) \/ (~Less(s[k], s[j]) /\ j < k)
  <2>1. ASSUME NEW j \in places, NEW k \in places
        PROVE  <<j, k>> \in places \X places /\ <<j, k>>[1] = j /\ <<j, k>>[2] = k
    OBVIOUS
  <2>2. \A p \in places \X places :
          p \in before <=>
            Less(s[p[1]], s[p[2]]) \/ (~Less(s[p[2]], s[p[1]]) /\ p[1] < p[2])
    OBVIOUS
  <2> HIDE DEF places, before
  <2> QED
    BY <2>1, <2>2
<1>4. q = [n \in places |-> s[InOrder(places, before)[n]]]
  BY <1>0 DEF SortForDispatch, StableSort, Less
<1> HIDE DEF before
<1>5. StrictOrder(places, before)
  <2>1. ASSUME NEW i \in places, NEW j \in places, NEW k \in places,
               <<i, j>> \in before, <<j, k>> \in before
        PROVE  <<i, k>> \in before
    <3>1. PICK a \in Candidate, b \in Candidate, c \in Candidate :
            a = s[i] /\ b = s[j] /\ c = s[k]
      BY <1>1
    <3>2. /\ Less(a, b) \/ (~Less(b, a) /\ i < j)
          /\ Less(b, c) \/ (~Less(c, b) /\ j < k)
      BY <1>3, <2>1, <3>1
    <3>3. \/ Less(a, c)
          \/ ~Less(a, b) /\ ~Less(b, a) /\ ~Less(b, c) /\ ~Less(c, b) /\ ~Less(c, a)
      BY <3>2, LessIsAnOrder
    <3>4. Less(a, c) \/ (~Less(c, a) /\ i < k)
      BY <1>1, <3>2, <3>3
    <3> QED
      BY <1>3, <3>1, <3>4
  <2>2. \A j \in places : ~(<<j, j>> \in before)
    BY <1>1, <1>3, LessIsAnOrder
  <2>3. \A j, k \in places : j # k => <<j, k>> \in before \/ <<k, j>> \in before
    <3>1. \A j, k \in places : j # k => j < k \/ k < j
      BY <1>1
    <3> HIDE DEF places
    <3>2. ASSUME NEW j \in places, NEW k \in places, j < k
          PROVE  <<j, k>> \in before \/ <<k, j>> \in before
      <4>1. CASE Less(s[k], s[j])
        BY <1>3, <4>1
      <4>2. CASE ~Less(s[k], s[j])
        BY <1>3, <3>2, <4>2
      <4> QED
        BY <4>1, <4>2
    <3> QED
      BY <3>1, <3>2
  <2> QED
    BY <2>1, <2>2, <2>3 DEF StrictOrder
<1>6. PICK at : at = InOrder(places, before) /\ Lists(at, places, before)
  BY <1>2, <1>5, InOrderLists
<1>7. /\ at \in [places -> places]
      /\ \A j \in places : \E k \in places : at[k] = j
      /\ \A j, k \in places : j < k => <<at[j], at[k]>> \in before
  BY <1>2, <1>6 DEF Lists
<1>8. \A k \in places : q[k] = s[at[k]]
  BY <1>4, <1>6
<1>9. q \in Seq(Candidate) /\ Len(q) = Len(s)
  <2>1. q = [n \in 1..Len(s) |-> s[at[n]]] /\ \A n \in 1..Len(s) : s[at[n]] \in Candidate
    BY <1>1, <1>4, <1>6, <1>7
  <2> QED
    BY <1>1, <2>1, IsASeq
<1>10. ASSUME NEW j \in places, NEW k \in places, j < k
       PROVE  at[j] # at[k] /\ ~Less(q[k], q[j])
  <2>1. <<at[j], at[k]>> \in before /\ at[j] \in places /\ at[k] \in places
    BY <1>7, <1>10
  <2>2. at[j] # at[k]
    BY <1>5, <2>1 DEF StrictOrder
  <2>3. ~Less(s[at[k]], s[at[j]])
    BY <1>1, <1>3, <2>1, LessIsAnOrder
  <2> QED
    BY <1>8, <2>2, <2>3
<1>11. \A j, k \in places : j # k => at[j] # at[k]
  BY <1>1, <1>10
<1> QED
  BY <1>0, <1>7, <1>8, <1>9, <1>10, <1>11 DEF Sorts

\* The states of running along onTick's walk.
Walks(q, after) ==
    /\ after \in [0..Len(q) -> [Issues -> Texts]]
    /\ after[0] = running /\ after[Len(q)] = Walk(q)
    /\ \A k \in 1..Len(q) : after[k] = Visit(after[k-1], q[k])

LEMMA VisitType ==
    ASSUME NEW run \in [Issues -> Texts], NEW c \in Candidate
    PROVE  Visit(run, c) \in [Issues -> Texts]
BY DEF Visit, Candidate

LEMMA WalkWalks ==
    ASSUME running \in [Issues -> Texts], NEW q \in Seq(Candidate)
    PROVE  \E after : Walks(q, after)
<1>0. PICK n, Runs : n \in Nat /\ n = Len(q) /\ Runs = [Issues -> Texts]
  BY LenProperties
<1> DEFINE Steps(w) == w = [k \in 0..n |-> IF k = 0 THEN running ELSE Visit(w[k-1], q[k])]
<1>1. n \in Nat /\ \A k \in 1..n : q[k] \in Candidate
  BY <1>0, LenProperties, ElementOfSeq
<1>2. PICK step \in [1..n -> [Runs -> Runs]] :
          \A k \in 1..n : \A run \in Runs : step[k][run] = Visit(run, q[k])
  <2>1. [k \in 1..n |-> [run \in Runs |-> Visit(run, q[k])]] \in [1..n -> [Runs -> Runs]]
    BY <1>0, <1>1, VisitType
  <2> QED
    BY <2>1
<1>3. PICK w \in [0..n -> Runs] : w[0] = running /\ \A k \in 1..n : w[k] = Visit(w[k-1], q[k])
  <2>1. running \in Runs
    BY <1>0
  <2>2. PICK w : IsWalk(w, Runs, running, n, step)
    BY <1>1, <2>1, WalkExists, Zenon
  <2>3. w \in [0..n -> Runs] /\ w[0] = running /\ \A k \in 1..n : w[k] = step[k][w[k-1]]
    BY <2>2 DEF IsWalk
  <2>4. \A k \in 1..n : w[k-1] \in Runs
    BY <1>1, <2>3
  <2>5. \A k \in 1..n : w[k] = Visit(w[k-1], q[k])
    BY <1>2, <2>3, <2>4
  <2> QED
    BY <2>3, <2>5
<1>4. Steps(w)
  <2>1. w = [k \in 0..n |-> w[k]]
    BY <1>3
  <2>2. \A k \in 0..n : w[k] = IF k = 0 THEN running ELSE Visit(w[k-1], q[k])
    BY <1>1, <1>3
  <2> QED
    BY <2>1, <2>2
<1>5. Walk(q) = (CHOOSE after : Steps(after))[n]
  BY <1>0 DEF Walk
<1> DEFINE after == CHOOSE after : Steps(after)
<1>6. Steps(after)
  <2> HIDE DEF Steps
  <2> QED
    BY <1>4
<1> HIDE DEF after
<1>7. after[0] = running /\ \A k \in 1..n : after[k] = Visit(after[k-1], q[k])
  BY <1>1, <1>6
<1> DEFINE P == {k \in Nat : k <= n => after[k] \in Runs}
<1>8. 0 \in P
  BY <1>0, <1>7
<1>9. ASSUME NEW k \in Nat, k \in P PROVE k + 1 \in P
  <2>1. CASE k + 1 <= n
    <3>1. k + 1 \in 1..n /\ (k + 1) - 1 = k /\ after[k] \in Runs
      BY <1>1, <1>9, <2>1
    <3>2. after[k + 1] = Visit(after[k], q[k + 1])
      BY <1>7, <3>1
    <3>3. Visit(after[k], q[k + 1]) \in Runs
      BY <1>0, <1>1, <3>1, VisitType
    <3> QED
      BY <3>2, <3>3
  <2> QED
    BY <2>1
<1> HIDE DEF P
<1>10. Nat \subseteq P
  BY <1>8, <1>9, NumbersByInduction
<1>11. after \in [0..n -> Runs]
  <2>1. \A k \in 0..n : after[k] \in Runs
    BY <1>1, <1>10 DEF P
  <2> DEFINE g == [k \in 0..n |-> IF k = 0 THEN running ELSE Visit(after[k-1], q[k])]
  <2>2. after = g
    BY <1>6
  <2>3. g \in [0..n -> Runs]
    <3>1. \A k \in 0..n : g[k] \in Runs
      BY <2>1, <2>2
    <3> QED
      BY <3>1
  <2> QED
    BY <2>2, <2>3
<1> QED
  BY <1>0, <1>5, <1>7, <1>11 DEF Walks, after

\* A dispatch: the issue was free, and its candidate passes every check.
Goes(run, c) ==
    run[c.id] = Blank /\ c.id \notin claimed /\ IsEligible(c) /\ HasSlot(run, c.state)

LEMMA VisitGoes ==
    ASSUME NEW run \in [Issues -> Texts], NEW c \in Candidate
    PROVE  /\ \A i \in Issues :
                \/ Visit(run, c)[i] = run[i]
                \/ i = c.id /\ Goes(run, c) /\ Visit(run, c)[i] = c.state
           /\ Goes(run, c) => Visit(run, c)[c.id] # Blank
BY DEF Visit, Goes, Candidate

\* Along the walk nobody is taken off.
LEMMA WalkGrows ==
    ASSUME NEW q \in Seq(Candidate), NEW after, Walks(q, after),
           NEW j \in 0..Len(q), NEW k \in 0..Len(q), j <= k, NEW i \in Issues,
           after[j][i] # Blank
    PROVE  after[k][i] = after[j][i]
<1> DEFINE P == {m \in Nat : m <= Len(q) /\ j <= m => after[m][i] = after[j][i]}
<1>1. Len(q) \in Nat /\ \A m \in 1..Len(q) : q[m] \in Candidate
  BY LenProperties, ElementOfSeq
<1>2. 0 \in P
  BY <1>1
<1>3. ASSUME NEW m \in Nat, m \in P PROVE m + 1 \in P
  <2> SUFFICES ASSUME m + 1 <= Len(q), j <= m + 1 PROVE after[m + 1][i] = after[j][i]
    OBVIOUS
  <2>1. CASE j = m + 1
    BY <2>1
  <2>2. CASE j # m + 1
    <3>1. j <= m /\ after[m][i] = after[j][i]
      BY <1>1, <1>3, <2>2
    <3>2. m + 1 \in 1..Len(q) /\ (m + 1) - 1 = m /\ m \in 0..Len(q)
      BY <1>1
    <3>3. after[m + 1] = Visit(after[m], q[m + 1]) /\ after[m] \in [Issues -> Texts]
      BY <3>2 DEF Walks
    <3> QED
      BY <1>1, <3>1, <3>2, <3>3, VisitGoes DEF Goes
  <2> QED
    BY <2>1, <2>2
<1> HIDE DEF P
<1>4. Nat \subseteq P
  BY <1>2, <1>3, NumbersByInduction
<1> QED
  BY <1>1, <1>4 DEF P

\* Whoever the walk has dispatched went at a candidate of theirs.
LEMMA WalkDispatches ==
    ASSUME NEW q \in Seq(Candidate), NEW after, Walks(q, after),
           NEW i \in Issues, running[i] = Blank, Walk(q)[i] # Blank
    PROVE  \E k \in 1..Len(q) : q[k].id = i /\ Goes(after[k-1], q[k])
<1> DEFINE Went(m) == \E k \in 1..m : q[k].id = i /\ Goes(after[k-1], q[k])
           P == {m \in Nat : m <= Len(q) /\ after[m][i] # Blank => Went(m)}
<1>1. Len(q) \in Nat /\ \A m \in 1..Len(q) : q[m] \in Candidate
  BY LenProperties, ElementOfSeq
<1>2. 0 \in P
  BY DEF Walks
<1>3. ASSUME NEW m \in Nat, m \in P PROVE m + 1 \in P
  <2> SUFFICES ASSUME m + 1 <= Len(q), after[m + 1][i] # Blank PROVE Went(m + 1)
    OBVIOUS
  <2>1. m + 1 \in 1..Len(q) /\ (m + 1) - 1 = m /\ m \in 0..Len(q)
    BY <1>1
  <2>2. after[m + 1] = Visit(after[m], q[m + 1]) /\ after[m] \in [Issues -> Texts]
    BY <2>1 DEF Walks
  <2>3. CASE after[m][i] # Blank
    BY <1>1, <1>3, <2>1, <2>3
  <2>4. CASE after[m][i] = Blank
    <3>1. q[m + 1].id = i /\ Goes(after[m], q[m + 1])
      BY <1>1, <2>1, <2>2, <2>4, VisitGoes
    <3>2. m + 1 \in 1..(m + 1)
      OBVIOUS
    <3> QED
      BY <2>1, <3>1, <3>2
  <2> QED
    BY <2>3, <2>4
<1> HIDE DEF P
<1>4. Nat \subseteq P
  BY <1>2, <1>3, NumbersByInduction
<1>5. after[Len(q)][i] # Blank
  BY DEF Walks
<1> QED
  BY <1>1, <1>4, <1>5 DEF P

\* Slots only fill up.
LEMMA SlotsFill ==
    ASSUME NEW run \in [Issues -> Texts], NEW later \in [Issues -> Texts],
           \A i \in Issues : run[i] # Blank => later[i] = run[i], NEW s \in Texts
    PROVE  /\ GlobalAvailable(later) => GlobalAvailable(run)
           /\ RunningCountByState(run, s) \in Nat /\ RunningCountByState(later, s) \in Nat
           /\ RunningCountByState(run, s) <= RunningCountByState(later, s)
<1>1. \A T \in SUBSET Issues : IsFiniteSet(T) /\ Cardinality(T) \in Nat
  <2>1. IsFiniteSet(Issues)
    BY FS_Interval, TickAssumption DEF Issues
  <2> QED
    BY <2>1, FS_Subset, FS_CardinalityType
<1>2. \A T \in SUBSET Issues : \A U \in SUBSET T : Cardinality(U) <= Cardinality(T)
  BY <1>1, FS_Subset
<1> DEFINE all(r) == {i \in Issues : r[i] # Blank}
           same(r) == {i \in Issues : r[i] # Blank /\ Normal[r[i]] = Normal[s]}
<1>3. all(run) \in SUBSET all(later) /\ same(run) \in SUBSET same(later)
  OBVIOUS
<1>4. all(later) \in SUBSET Issues /\ same(later) \in SUBSET Issues
      /\ all(run) \in SUBSET Issues /\ same(run) \in SUBSET Issues
  OBVIOUS
<1>5. Config.slots \in Nat
  BY TickAssumption
<1> HIDE DEF all, same
<1>6. /\ Cardinality(all(run)) <= Cardinality(all(later))
      /\ Cardinality(same(run)) <= Cardinality(same(later))
      /\ Cardinality(all(run)) \in Nat /\ Cardinality(all(later)) \in Nat
      /\ Cardinality(same(run)) \in Nat /\ Cardinality(same(later)) \in Nat
  BY <1>1, <1>2, <1>3, <1>4
<1>7. /\ GlobalAvailable(run) <=> Config.slots > Cardinality(all(run))
      /\ GlobalAvailable(later) <=> Config.slots > Cardinality(all(later))
      /\ RunningCountByState(run, s) = Cardinality(same(run))
      /\ RunningCountByState(later, s) = Cardinality(same(later))
  BY DEF GlobalAvailable, RunningCountByState, all, same
<1> QED
  BY <1>5, <1>6, <1>7

-----------------------------------------------------------------------------
(* The invariant is kept *)

LEMMA WalkType ==
    ASSUME running \in [Issues -> Texts], NEW q \in Seq(Candidate)
    PROVE  Walk(q) \in [Issues -> Texts]
<1>1. PICK after : Walks(q, after)
  BY WalkWalks
<1>2. Len(q) \in 0..Len(q)
  BY LenProperties
<1> QED
  BY <1>1, <1>2 DEF Walks

\* A fetch that is over, as the decisions find it.
LEMMA FetchedFacts ==
    ASSUME IInv, NEW for, Fetched(for)
    PROVE  /\ TypeOK /\ TruthIsKept /\ PagesAreExact /\ CandidatesWereTrue
           /\ call.place = "fetched" /\ call.all \in Seq(Candidate) /\ running \in [Issues -> Texts]
           /\ DOMAIN call.all = 1..Len(call.all) /\ Len(call.all) \in Nat
           /\ \A k \in 1..Len(call.all) : call.all[k] \in Candidate
           /\ ToSet(call.all) = {call.all[k] : k \in 1..Len(call.all)}
<1>1. /\ TypeOK /\ TruthIsKept /\ PagesAreExact /\ CandidatesWereTrue
      /\ call.all \in Seq(Candidate) /\ running \in [Issues -> Texts]
  BY DEF IInv, TypeOK, Fetched, NoCall
<1>2. /\ DOMAIN call.all = 1..Len(call.all) /\ Len(call.all) \in Nat
      /\ \A k \in 1..Len(call.all) : call.all[k] \in Candidate
  BY <1>1, LenProperties, ElementOfSeq
<1> QED
  BY <1>1, <1>2 DEF ToSet, Fetched

LEMMA MovesKeepsIInv ==
    ASSUME IInv, NEW i \in Issues, Moves(i)
    PROVE  IInv'
<1>1. PICK s \in (Config.active \cup Config.terminal) \ {Blank} :
        node' = [node EXCEPT ![i].state = s]
  BY DEF Moves
<1>2. node' \in [Issues -> Node]
  <2>1. s \in Texts \ {Blank}
    BY TickAssumption
  <2>2. \A j \in Issues : node'[j] \in Node
    BY <1>1, <2>1 DEF IInv, TypeOK, Node
  <2> QED
    BY <1>1, <2>2 DEF IInv, TypeOK
<1>3. UNCHANGED <<running, claimed, retrying, call, calls>> /\ edits' = edits + 1
  BY DEF Moves, loop
<1>4. CASE call = NoCall
  BY <1>2, <1>3, <1>4 DEF IInv, TypeOK, Moves, NoTruth
<1>5. CASE call # NoCall
  <2>1. /\ truth'.matched = truth.matched \cap {j \in Issues : Matches(j)'}
        /\ truth'.ready = truth.ready \cup {j \in Issues : Ready(j)'}
        /\ truth'.unready = truth.unready \cup {j \in Issues : ~Ready(j)'}
        /\ DOMAIN truth' = {"matched", "ready", "unready"}
        /\ truth' = [matched |-> truth'.matched, ready |-> truth'.ready,
                     unready |-> truth'.unready]
    BY <1>5 DEF Moves, Truth
  <2>2. TypeOK /\ TruthIsKept /\ PagesAreExact /\ CandidatesWereTrue
    BY <1>5 DEF IInv
  <2>3. TypeOK'
    BY <1>2, <1>3, <2>1, <2>2 DEF TypeOK
  <2>4. \A j \in Issues : ~Matches(j)' => ~Ready(j)'
    BY DEF Ready
  <2>5. TruthIsKept'
    BY <2>1, <2>2, <2>4 DEF TruthIsKept, TypeOK
  <2>6. PagesAreExact'
    BY <1>3, <2>1, <2>2 DEF PagesAreExact
  <2>7. CandidatesWereTrue'
    BY <1>3, <2>1, <2>2 DEF CandidatesWereTrue, IsEligible, Is, MatchesAssignee,
       HasRequiredLabels, IsTerminalBlocker
  <2> QED
    BY <2>3, <2>5, <2>6, <2>7 DEF IInv
<1> QED
  BY <1>4, <1>5

LEMMA NextKeepsIInv ==
    ASSUME IInv, [Next]_vars
    PROVE  IInv'
<1>1. /\ running \in [Issues -> Texts] /\ claimed \subseteq Issues /\ retrying \subseteq Issues
      /\ Issues = 1..N /\ N \in Nat /\ Blank \in Texts
  BY TickAssumption DEF IInv, TypeOK, Issues
<1>2. CASE TickBegins
  BY <1>1, <1>2, BeginsKeepsIInv DEF TickBegins, ForTick
<1>3. CASE GetsPage
  BY <1>3, GetsPageKeepsIInv
<1>4. CASE FetchFails
  <2>1. call.for \in 0..N
    BY <1>4 DEF IInv, TypeOK, FetchFails, Paging, NoCall
  <2>2. call.for = ForTick \/ call.for \in Issues
    BY <1>1, <2>1 DEF ForTick
  <2>3. retrying' \subseteq Issues
    BY <1>1, <1>4, <2>2 DEF FetchFails
  <2> QED
    BY <1>1, <1>4, <2>3, EndsKeepsIInv DEF FetchFails
<1>5. CASE OnTick
  <2>1. SortForDispatch(call.all) \in Seq(Candidate)
    <3>1. Fetched(ForTick)
      BY <1>5 DEF OnTick
    <3>2. call.all \in Seq(Candidate)
      BY <3>1, FetchedFacts
    <3> QED
      BY <3>2, SortForDispatchSorts DEF Sorts
  <2>2. running' \in [Issues -> Texts]
    BY <1>1, <1>5, <2>1, WalkType DEF OnTick
  <2>3. Ends /\ claimed' \subseteq Issues /\ retrying' \subseteq Issues
    BY <1>1, <1>5 DEF OnTick
  <2> QED
    BY <2>2, <2>3, EndsKeepsIInv
<1>6. ASSUME NEW i \in Issues, RetryReleases(i) \/ RetryIsPutOff(i) \/ RetryDispatches(i)
      PROVE  IInv'
  <2>1. Ends /\ Fetched(i) /\ claimed' \subseteq Issues /\ retrying' \subseteq Issues
    BY <1>1, <1>6 DEF RetryReleases, RetryIsPutOff, RetryDispatches
  <2>2. \A c \in Found(i) : c.state \in Texts
    BY <2>1, FetchedFacts DEF Found, Candidate
  <2>3. running' \in [Issues -> Texts]
    BY <1>1, <1>6, <2>2 DEF RetryReleases, RetryIsPutOff, RetryDispatches
  <2> QED
    BY <2>1, <2>3, EndsKeepsIInv
<1>7. ASSUME NEW i \in Issues, RetryBegins(i)
      PROVE  IInv'
  <2>1. i \in 0..N /\ retrying' \subseteq Issues
    BY <1>1, <1>7 DEF RetryBegins
  <2> QED
    BY <1>7, <2>1, BeginsKeepsIInv DEF RetryBegins
<1>8. ASSUME NEW i \in Issues, OnWorkerExit(i)
      PROVE  IInv'
  BY <1>1, <1>8 DEF OnWorkerExit, IInv, TypeOK
<1>9. ASSUME NEW i \in Issues, Moves(i)
      PROVE  IInv'
  BY <1>9, MovesKeepsIInv
<1>10. CASE UNCHANGED vars
  <2>1. UNCHANGED <<node, running, claimed, retrying, call, truth, calls, edits>>
    BY <1>10 DEF vars
  <2>2. TypeOK' <=> TypeOK
    BY <2>1 DEF TypeOK
  <2>3. call # NoCall => (PagesAreExact <=> PagesAreExact') /\ (CandidatesWereTrue <=> CandidatesWereTrue')
    BY <2>1, CandidatesStay DEF IInv
  <2>4. TruthIsKept <=> TruthIsKept'
    BY <2>1, TruthStays
  <2> QED
    BY <2>1, <2>2, <2>3, <2>4 DEF IInv
<1> QED
  BY <1>2, <1>3, <1>4, <1>5, <1>6, <1>7, <1>8, <1>9, <1>10 DEF Next, Decides

\* What a fetch holds so far is what the tracker showed: types, the ghost, and
\* the pages it has got.
THEOREM TickInvariant == Spec => []IInv
<1>1. Init => IInv
  BY IInvInitially
<1>2. IInv /\ [Next]_vars => IInv'
  BY NextKeepsIInv
<1> QED
  BY <1>1, <1>2, PTL DEF Spec

\* Of the issues that match the filter from the first request of a fetch to its
\* last, none is missing and none comes twice, however many pages there are,
\* whatever size they have, and whatever moves meanwhile (paginateWith).
THEOREM FetchesAreExact == Spec => []FetchIsExact
<1>1. IInv => FetchIsExact
  <2> SUFFICES ASSUME IInv, call.place = "fetched" PROVE FetchIsExact
    BY DEF FetchIsExact
  <2>1. call # NoCall /\ PagesAreExact /\ truth.matched \subseteq Issues
    BY DEF IInv, TypeOK, NoCall
  <2> DEFINE ids == [k \in DOMAIN call.all |-> call.all[k].id]
  <2>2. ToSet(ids) = {ids[k] : k \in DOMAIN call.all}
    BY DEF ToSet
  <2> QED
    BY <2>1, <2>2 DEF FetchIsExact, PagesAreExact
<1> QED
  BY <1>1, TickInvariant, PTL

-----------------------------------------------------------------------------
(* Decisions *)

\* Nobody is dispatched who was not ready at a moment of the fetch, by what the
\* tracker holds and not by what the pages said of it, and a retry's claim is
\* given up only for an issue that was not (onTick, onRetryTimer, isEligible).
THEOREM TickDecidesOnTheTracker == Spec => DecisionsFollowTheTracker
<1> DEFINE Follows(i) ==
             /\ running[i] = Blank /\ running'[i] # Blank => i \in truth.ready
             /\ call # NoCall /\ i \in claimed \ claimed' => i \in truth.unready
<1>1. ASSUME IInv, Next, NEW i \in Issues PROVE Follows(i)
  <2>1. CASE OnTick
    <3>1. running[i] = Blank /\ running'[i] # Blank => i \in truth.ready
      <4> SUFFICES ASSUME running[i] = Blank, running'[i] # Blank PROVE i \in truth.ready
        OBVIOUS
      <4> DEFINE s == call.all
      <4>1. /\ s \in Seq(Candidate) /\ DOMAIN s = 1..Len(s) /\ CandidatesWereTrue
            /\ running \in [Issues -> Texts]
        <5>1. Fetched(ForTick)
          BY <2>1 DEF OnTick
        <5> QED
          BY <1>1, <5>1, FetchedFacts
      <4>2. PICK q, at : q = SortForDispatch(s) /\ Sorts(at, s, q)
        BY <4>1, SortForDispatchSorts
      <4>3. /\ q \in Seq(Candidate) /\ Len(q) = Len(s) /\ at \in [1..Len(s) -> 1..Len(s)]
            /\ \A k \in 1..Len(s) : q[k] = s[at[k]]
        BY <4>2 DEF Sorts
      <4>4. PICK after : Walks(q, after)
        BY <4>1, <4>3, WalkWalks
      <4>5. Walk(q)[i] # Blank
        BY <2>1, <4>2 DEF OnTick
      <4>6. PICK k \in 1..Len(q) : q[k].id = i /\ Goes(after[k-1], q[k])
        BY <4>3, <4>4, <4>5, WalkDispatches
      <4>7. at[k] \in 1..Len(s) /\ s[at[k]].id = i /\ IsEligible(s[at[k]])
        BY <4>3, <4>6 DEF Goes
      <4> QED
        BY <4>1, <4>7 DEF CandidatesWereTrue
    <3>2. claimed \subseteq claimed'
      BY <2>1 DEF OnTick
    <3> QED
      BY <3>1, <3>2
  <2>2. ASSUME NEW j \in Issues, RetryReleases(j) PROVE Follows(i)
    <3>1. /\ TruthIsKept /\ PagesAreExact /\ CandidatesWereTrue /\ call.place = "fetched"
          /\ DOMAIN call.all = 1..Len(call.all)
          /\ ToSet(call.all) = {call.all[k] : k \in 1..Len(call.all)}
      <4>1. Fetched(j)
        BY <2>2 DEF RetryReleases
      <4> QED
        BY <1>1, <4>1, FetchedFacts
    <3>2. j \in truth.unready
      <4>1. CASE j \in truth.matched
        <5>1. PICK k \in DOMAIN call.all : call.all[k].id = j
          BY <3>1, <4>1 DEF PagesAreExact
        <5>2. ~IsEligible(call.all[k])
          BY <2>2, <3>1, <5>1 DEF RetryReleases, Found
        <5> QED
          BY <3>1, <5>1, <5>2 DEF CandidatesWereTrue
      <4>2. CASE j \notin truth.matched
        BY <3>1, <4>2 DEF TruthIsKept
      <4> QED
        BY <4>1, <4>2
    <3>3. running' = running /\ claimed' = claimed \ {j}
      BY <2>2 DEF RetryReleases
    <3> QED
      BY <3>2, <3>3
  <2>3. ASSUME NEW j \in Issues, RetryDispatches(j) PROVE Follows(i)
    <3>1. PICK c \in Found(j) : IsEligible(c) /\ running' = [running EXCEPT ![j] = c.state]
      BY <2>3 DEF RetryDispatches
    <3>2. j \in truth.ready
      <4>1. Fetched(j)
        BY <2>3 DEF RetryDispatches
      <4>2. /\ CandidatesWereTrue /\ DOMAIN call.all = 1..Len(call.all)
            /\ ToSet(call.all) = {call.all[k] : k \in 1..Len(call.all)}
        BY <1>1, <4>1, FetchedFacts
      <4> QED
        BY <3>1, <4>2 DEF Found, CandidatesWereTrue
    <3>3. claimed' = claimed /\ \A k \in Issues : k # j => running'[k] = running[k]
      BY <2>3, <3>1 DEF RetryDispatches, IInv, TypeOK
    <3> QED
      BY <3>2, <3>3
  <2>4. ASSUME NEW j \in Issues, OnWorkerExit(j) PROVE Follows(i)
    BY <2>4 DEF OnWorkerExit, IInv, TypeOK
  <2>5. ASSUME NEW j \in Issues, RetryIsPutOff(j) \/ RetryBegins(j) \/ Moves(j) PROVE Follows(i)
    BY <2>5 DEF RetryIsPutOff, RetryBegins, Begins, Moves, loop
  <2>6. CASE TickBegins \/ GetsPage \/ FetchFails
    BY <2>6 DEF TickBegins, Begins, GetsPage, FetchFails, loop
  <2> QED
    BY <1>1, <2>1, <2>2, <2>3, <2>4, <2>5, <2>6 DEF Next, Decides
<1>2. IInv /\ [Next]_vars => [\A i \in Issues : Follows(i)]_vars
  BY <1>1
<1> QED
  BY <1>2, TickInvariant, PTL DEF Spec, DecisionsFollowTheTracker

\* A tick hands the slots out in order: whom it leaves, though eligible and not
\* claimed, found every slot taken, or those of its state, and by nobody less
\* urgent than it is, unless from another state (sortForDispatch, onTick).
THEOREM TickServesTheUrgentFirst == Spec => SlotsGoInOrder
<1> DEFINE Dispatched(c) == running[c.id] = Blank /\ running'[c.id] # Blank
           candidates == ToSet(call.all)
           Full(s) == RunningCountByState(running', s) >= PerStateLimit(s)
           InTurn(c) ==
             /\ Full(c.state) \/ ~GlobalAvailable(running')
             /\ \A d \in candidates : Dispatched(d) /\ MoreUrgent(c, d) =>
                  Full(c.state) /\ Normal[d.state] # Normal[c.state]
           Left(c) == IsEligible(c) /\ c.id \notin claimed /\ running'[c.id] = Blank
<1>1. ASSUME IInv, OnTick, NEW c \in candidates, Left(c) PROVE InTurn(c)
  <2> DEFINE s == call.all
             n == Len(s)
  <2>1. /\ s \in Seq(Candidate) /\ DOMAIN s = 1..n /\ n \in Nat /\ PagesAreExact
        /\ running \in [Issues -> Texts] /\ candidates = {s[k] : k \in 1..n}
    <3>1. Fetched(ForTick)
      BY <1>1 DEF OnTick
    <3> QED
      BY <1>1, <3>1, FetchedFacts
  <2>0. PICK q, at : q = SortForDispatch(s) /\ Sorts(at, s, q)
    BY <2>1, SortForDispatchSorts
  <2>2. /\ q = SortForDispatch(s) /\ q \in Seq(Candidate) /\ Len(q) = n
        /\ \A j, k \in 1..n : j < k => ~Less(q[k], q[j])
    BY <2>0 DEF Sorts
  <2>3. /\ at \in [1..n -> 1..n]
        /\ \A k \in 1..n : q[k] = s[at[k]]
        /\ \A j, k \in 1..n : j # k => at[j] # at[k]
        /\ \A j \in 1..n : \E k \in 1..n : at[k] = j
    BY <2>0 DEF Sorts
  <2>4. PICK after : Walks(q, after)
    BY <2>1, <2>2, WalkWalks
  <2>5. running' = Walk(q) /\ running' = after[n] /\ after[0] = running
    BY <1>1, <2>2, <2>4 DEF OnTick, Walks
  <2> HIDE DEF s, n
  <2>6. \A k \in 1..n : q[k] \in Candidate
    BY <2>2, ElementOfSeq
  <2>7. ASSUME NEW d \in candidates PROVE \E k \in 1..n : q[k] = d
    <3>1. PICK j \in 1..n : d = s[j]
      BY <2>1
    <3>2. PICK k \in 1..n : at[k] = j
      BY <2>3
    <3> QED
      BY <2>3, <3>1, <3>2
  <2>8. ASSUME NEW j \in 1..n, NEW k \in 1..n, q[j].id = q[k].id PROVE j = k
    <3>1. s[at[j]].id = s[at[k]].id /\ at[j] \in 1..n /\ at[k] \in 1..n
      BY <2>3, <2>8
    <3>2. \A a, b \in 1..n : a < b => s[a].id < s[b].id
      BY <2>1 DEF PagesAreExact, s
    <3>3. s[at[j]].id \in Int
      <4>1. q[j].id \in 1..N /\ N \in Nat
        BY <2>6, TickAssumption DEF Candidate, Issues
      <4> QED
        BY <2>3, <4>1
    <3>4. at[j] = at[k]
      BY <2>1, <3>1, <3>2, <3>3
    <3> QED
      BY <2>3, <3>4
  <2>9. ASSUME NEW j \in 0..n, NEW k \in 0..n, j <= k, NEW t \in Texts
        PROVE  /\ GlobalAvailable(after[k]) => GlobalAvailable(after[j])
               /\ RunningCountByState(after[j], t) \in Nat /\ RunningCountByState(after[k], t) \in Nat
               /\ RunningCountByState(after[j], t) <= RunningCountByState(after[k], t)
    <3>1. after[j] \in [Issues -> Texts] /\ after[k] \in [Issues -> Texts]
      BY <2>2, <2>4 DEF Walks
    <3>2. \A i \in Issues : after[j][i] # Blank => after[k][i] = after[j][i]
      BY <2>2, <2>4, <2>9, WalkGrows
    <3> QED
      BY <3>1, <3>2, SlotsFill
  <2>10. PICK k \in 1..n : q[k] = c
    BY <2>7
  <2>11. c \in Candidate /\ c.state \in Texts /\ c.id \in Issues /\ PerStateLimit(c.state) \in Nat
    BY <2>6, <2>10, TickAssumption DEF Candidate, PerStateLimit
  <2>12. k \in 0..n /\ k - 1 \in 0..n /\ k - 1 <= n /\ k <= n /\ n \in 0..n
    BY <2>1
  <2>13. ~HasSlot(after[k-1], c.state)
    <3>1. after[k-1][c.id] = Blank /\ after[k][c.id] = Blank
      BY <1>1, <2>2, <2>4, <2>5, <2>11, <2>12, WalkGrows
    <3>2. after[k] = Visit(after[k-1], c) /\ after[k-1] \in [Issues -> Texts]
      BY <2>2, <2>4, <2>10, <2>12 DEF Walks
    <3> QED
      BY <1>1, <2>11, <3>1, <3>2, VisitGoes DEF Goes
  <2>14. Full(c.state) \/ ~GlobalAvailable(running')
    BY <2>5, <2>9, <2>11, <2>12, <2>13 DEF HasSlot
  <2>15. ASSUME NEW d \in candidates, Dispatched(d), MoreUrgent(c, d)
         PROVE  Full(c.state) /\ Normal[d.state] # Normal[c.state]
    <3>1. PICK m \in 1..n : q[m] = d
      BY <2>7
    <3>2. d \in Candidate /\ d.id \in Issues /\ d.state \in Texts
      BY <2>6, <3>1 DEF Candidate
    <3>3. Less(c, d)
      BY <2>11, <2>15, <3>2, MoreUrgentIsLess
    <3>4. k < m
      <4>1. ~(m < k)
        BY <2>2, <2>10, <3>1, <3>3
      <4>2. m # k
        BY <2>10, <2>11, <3>1, <3>3, LessIsAnOrder
      <4> QED
        BY <2>12, <4>1, <4>2
    <3>5. Goes(after[m-1], d)
      <4>1. PICK l \in 1..n : q[l].id = d.id /\ Goes(after[l-1], q[l])
        <5>1. running[d.id] = Blank /\ Walk(q)[d.id] # Blank /\ 1..n = 1..Len(q)
          BY <2>2, <2>5, <2>15
        <5> QED
          BY <2>2, <2>4, <3>2, <5>1, WalkDispatches
      <4>2. l = m
        BY <2>8, <3>1, <4>1
      <4> QED
        BY <3>1, <4>1, <4>2
    <3>6. k - 1 <= m - 1 /\ m - 1 \in 0..n
      BY <2>1, <3>4
    <3>7. GlobalAvailable(after[k-1])
      BY <2>9, <2>12, <3>2, <3>5, <3>6 DEF Goes, HasSlot
    <3>8. RunningCountByState(after[k-1], c.state) \in Nat
          /\ RunningCountByState(after[k-1], c.state) >= PerStateLimit(c.state)
      BY <2>9, <2>11, <2>12, <2>13, <3>7 DEF HasSlot
    <3>9. Full(c.state)
      BY <2>5, <2>9, <2>11, <2>12, <3>8
    <3>10. ASSUME Normal[d.state] = Normal[c.state] PROVE FALSE
      <4>1. PerStateLimit(d.state) = PerStateLimit(c.state)
            /\ RunningCountByState(after[m-1], d.state) = RunningCountByState(after[m-1], c.state)
        BY <3>10 DEF PerStateLimit, RunningCountByState
      <4>2. RunningCountByState(after[m-1], c.state) >= PerStateLimit(c.state)
        BY <2>9, <2>11, <2>12, <3>6, <3>8
      <4>3. RunningCountByState(after[m-1], c.state) < PerStateLimit(c.state)
            /\ RunningCountByState(after[m-1], c.state) \in Nat
        BY <2>9, <2>11, <2>12, <3>5, <3>6, <4>1 DEF Goes, HasSlot
      <4> QED
        BY <2>11, <4>2, <4>3
    <3> QED
      BY <3>9, <3>10
  <2> QED
    BY <2>14, <2>15
<1>2. IInv /\ [Next]_vars => [OnTick => \A c \in candidates : Left(c) => InTurn(c)]_vars
  BY <1>1
<1> QED
  BY <1>2, TickInvariant, PTL DEF Spec, SlotsGoInOrder

=============================================================================
