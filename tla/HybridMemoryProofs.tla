------------------------ MODULE HybridMemoryProofs -------------------------
(***************************************************************************)
(* For every set of ids and every number of timestamps, of HybridMemory    *)
(* over an EventStore: the relation between events goes both ways but for  *)
(* what a failed delete leaves, a cross-link joins items that exist, and   *)
(* the timeline, whose binary search finds the place after the events of   *)
(* one time, lists every event once, in temporal and in arrival order.     *)
(*                                                                         *)
(* And of the two that choose where a query goes: the sources a            *)
(* MemoryRouter names hold items of the type it decides on, and learning   *)
(* from its decisions stops at close scores; a TypeSelector's confidences  *)
(* are within 0.1 and 1.0, and no report turns a query of its need away    *)
(* from the layer it is about.                                             *)
(*                                                                         *)
(* And of the queries that fan out: whatever other threads store, delete   *)
(* and fail at, a call returns what was in memory all through it, nothing  *)
(* that never was, and leaves no query running.                            *)
(*                                                                         *)
(* And of the ExperienceTracker: a lesson counts all of its action.        *)
(***************************************************************************)
EXTENDS HybridMemory, MemoryRouter, TypeSelector, CrossTypeQueries, ExperienceTracker,
        DataLemmas

\* HybridTypeOK without the timeline.
Types == /\ events \in [EventIds -> (1..MaxTime) \cup {None}]
         /\ related \in [EventIds -> SUBSET EventIds]
         /\ failed \subseteq EventIds
         /\ held \in [Others -> SUBSET EventIds]
         /\ links \in [Pairs -> Ends \cup {None}]

Inv == Types /\ OneWayOnlyAfterFailedDelete /\ LinksJoinItems

-----------------------------------------------------------------------------
(* The operations of the event store.                                      *)

\* What the two invariants ask of an operation on events.
EventsKept == /\ events' \in [EventIds -> (1..MaxTime) \cup {None}]
              /\ related' \in [EventIds -> SUBSET EventIds]
              /\ failed' \subseteq EventIds
              /\ OneWayOnlyAfterFailedDelete'

\* A new event is related both ways to the stored ones it names.
LEMMA StoreKeeps ==
  ASSUME Types, OneWayOnlyAfterFailedDelete,
         NEW e \in EventIds, NEW ts \in 1..MaxTime, NEW others \in SUBSET EventIds,
         Store(e, ts, others)
  PROVE  EventsKept /\ Stored' = Stored \cup {e}
<1>1. /\ events' = [events EXCEPT ![e] = ts] /\ failed' = failed
      /\ related' = [x \in EventIds |-> IF x = e THEN others
                                        ELSE IF x \in others THEN related[x] \cup {e}
                                        ELSE related[x]]
      /\ e \notin Stored /\ others \subseteq Stored
  BY DEF Store, Stored
<1>2. Stored' = Stored \cup {e}
  BY <1>1, NoneAssumption DEF Stored, Types
<1>3. related' \in [EventIds -> SUBSET EventIds]
  BY <1>1 DEF Types
<1>4. ASSUME NEW x \in Stored', NEW y \in related'[x], x \notin failed'
      PROVE  y \in Stored' /\ x \in related'[y]
  <2>1. CASE x = e
    <3>1. y \in others /\ y \in EventIds /\ y # e
      BY <1>1, <1>4, <2>1
    <3>2. QED
      BY <1>1, <1>2, <2>1, <3>1
  <2>2. CASE x # e /\ y = e
    <3>1. x \in others
      BY <1>1, <1>2, <1>4, <2>2 DEF OneWayOnlyAfterFailedDelete, Stored
    <3>2. QED
      BY <1>1, <1>2, <2>2, <3>1
  <2>3. CASE x # e /\ y # e
    <3>1. x \in Stored /\ y \in related[x]
      BY <1>1, <1>2, <1>4, <2>3 DEF Stored
    <3>2. y \in Stored /\ x \in related[y]
      BY <1>1, <1>4, <3>1 DEF OneWayOnlyAfterFailedDelete
    <3>3. QED
      BY <1>1, <1>2, <2>3, <3>2 DEF Stored
  <2>4. QED
    BY <2>1, <2>2, <2>3
<1>5. QED
  BY <1>1, <1>2, <1>3, <1>4 DEF EventsKept, OneWayOnlyAfterFailedDelete, Types

\* Linking adds both directions.
LEMMA LinkKeeps ==
  ASSUME Types, OneWayOnlyAfterFailedDelete,
         NEW a \in EventIds, NEW b \in EventIds, Link(a, b)
  PROVE  EventsKept /\ Stored' = Stored
BY DEF Link, EventsKept, OneWayOnlyAfterFailedDelete, Stored, Types

\* Deleting discards the event from the sets of all that name it, but for those
\* that a failed delete has left behind.
LEMMA DeleteKeeps ==
  ASSUME Types, OneWayOnlyAfterFailedDelete, NEW e \in EventIds, Delete(e)
  PROVE  EventsKept /\ Stored' = Stored \ {e}
<1>1. /\ events' = [events EXCEPT ![e] = None] /\ failed' = failed \ {e}
      /\ related' = [Discarded(e, related[e]) EXCEPT ![e] = {}]
      /\ e \in Stored
  BY DEF Delete
<1>2. Stored' = Stored \ {e}
  BY <1>1 DEF Stored, Types
<1>3. /\ related' \in [EventIds -> SUBSET EventIds]
      /\ \A x \in EventIds \ {e} :
           related'[x] = IF x \in related[e] \cap Stored THEN related[x] \ {e} ELSE related[x]
  BY <1>1 DEF Discarded, Types
<1>4. ASSUME NEW x \in Stored', NEW y \in related'[x], x \notin failed'
      PROVE  y \in Stored' /\ x \in related'[y]
  <2>1. /\ x \in Stored /\ x # e /\ x \in EventIds /\ x \notin failed
        /\ y \in related[x]
    <3>1. x \in Stored /\ x # e
      BY <1>2, <1>4
    <3>2. x \in EventIds
      BY <3>1 DEF Stored
    <3>3. x \notin failed
      BY <1>1, <1>4, <3>1
    <3>4. related'[x] = related[x] \/ related'[x] = related[x] \ {e}
      BY <1>3, <3>1, <3>2
    <3>5. y \in related[x]
      BY <1>4, <3>4
    <3>6. QED
      BY <3>1, <3>2, <3>3, <3>5
  <2>2. y \in Stored /\ y \in EventIds /\ x \in related[y]
    BY <2>1 DEF OneWayOnlyAfterFailedDelete, Stored
  <2>3. y # e
    BY <1>3, <1>4, <2>1, <2>2
  <2>4. QED
    BY <1>2, <1>3, <2>1, <2>2, <2>3
<1>5. QED
  BY <1>1, <1>2, <1>3, <1>4 DEF EventsKept, OneWayOnlyAfterFailedDelete, Types

\* A delete that raises half-way breaks the relation of its own event only.
LEMMA FailedDeleteKeeps ==
  ASSUME Types, OneWayOnlyAfterFailedDelete, NEW e \in EventIds, DeleteSelfLinked(e)
  PROVE  EventsKept /\ Stored' = Stored
<1>1. PICK before \in SUBSET (related[e] \ {e}) : related' = Discarded(e, before \cup {e})
  BY DEF DeleteSelfLinked
<1>2. events' = events /\ failed' = failed \cup {e} /\ Stored' = Stored
  BY DEF DeleteSelfLinked, Stored
<1>3. /\ related' \in [EventIds -> SUBSET EventIds]
      /\ \A x \in EventIds : related'[x] \subseteq related[x]
      /\ \A x \in EventIds : related[x] \ related'[x] \subseteq {e}
  BY <1>1 DEF Discarded, Types
<1>4. ASSUME NEW x \in Stored', NEW y \in related'[x], x \notin failed'
      PROVE  y \in Stored' /\ x \in related'[y]
  BY <1>2, <1>3, <1>4 DEF OneWayOnlyAfterFailedDelete, Stored
<1>5. QED
  BY <1>2, <1>3, <1>4 DEF EventsKept, OneWayOnlyAfterFailedDelete, Types

-----------------------------------------------------------------------------
(* HybridMemory.                                                           *)

\* Nothing is stored and nothing is linked at the start.
LEMMA InitInv == HybridInit => Inv
BY DEF HybridInit, Init, Inv, Types, Pairs, Others, Stored, OneWayOnlyAfterFailedDelete,
       LinksJoinItems

\* Cross-links stay sound when the sources lose at most the item of one id, and
\* with it every cross-link of the id.
LEMMA LinksKept ==
  ASSUME Types, LinksJoinItems, NEW id,
         links' = WithoutLinksOf(id),
         \A source \in {"event"} \cup Others : IdsOf(source) \ {id} \subseteq IdsOf(source)'
  PROVE  links' \in [Pairs -> Ends \cup {None}] /\ LinksJoinItems'
<1>1. links' \in [Pairs -> Ends \cup {None}]
  BY DEF WithoutLinksOf, Types
<1>2. ASSUME NEW p \in Pairs, links'[p] # None
      PROVE  (p[1] \in IdsOf(links[p][1]) /\ p[2] \in IdsOf(links[p][2]))'
  <2>1. links'[p] = links[p] /\ p[1] # id /\ p[2] # id
    BY <1>2 DEF WithoutLinksOf
  <2>2. links[p] \in Ends
    BY <1>2, <2>1 DEF Types
  <2>3. links[p][1] \in {"event"} \cup Others /\ links[p][2] \in {"event"} \cup Others
    BY <2>2 DEF Ends, Others
  <2>4. p[1] \in IdsOf(links[p][1]) /\ p[2] \in IdsOf(links[p][2])
    BY <1>2, <2>1 DEF LinksJoinItems
  <2>5. QED
    BY <2>1, <2>3, <2>4 DEF IdsOf
<1>3. QED
  BY <1>1, <1>2 DEF LinksJoinItems

\* Cross-links stay sound when no source loses an item.
LEMMA LinksStay ==
  ASSUME Types, LinksJoinItems, links' = links,
         \A source \in {"event"} \cup Others : IdsOf(source) \subseteq IdsOf(source)'
  PROVE  LinksJoinItems'
<1>1. \A p \in Pairs : links[p] # None => links[p][1] \in {"event"} \cup Others
                                          /\ links[p][2] \in {"event"} \cup Others
  BY DEF Types, Ends, Others
<1>2. QED
  BY <1>1 DEF LinksJoinItems, IdsOf

\* Every operation keeps the two invariants: what an event operation does to the
\* relation and what a store or a delete does to the cross-links.
LEMMA NextInv == Inv /\ [HybridNext]_hybridVars => Inv'
<1> SUFFICES ASSUME Inv, [HybridNext]_hybridVars PROVE Inv'
  OBVIOUS
<1> USE DEF Inv
<1>1. ASSUME NEW id \in EventIds, NEW ts \in 1..MaxTime, NEW others \in SUBSET EventIds,
             StoreEvent(id, ts, others)
      PROVE  Inv'
  <2>1. EventsKept /\ Stored' = Stored \cup {id} /\ held' = held /\ links' = links
    BY <1>1, StoreKeeps DEF StoreEvent
  <2>2. LinksJoinItems'
    BY <2>1, LinksStay DEF IdsOf
  <2>3. QED
    BY <2>1, <2>2 DEF EventsKept, Types
<1>2. ASSUME NEW source \in Others, NEW id \in EventIds, StoreOther(source, id) PROVE Inv'
  <2>1. /\ held' = [held EXCEPT ![source] = @ \cup {id}]
        /\ UNCHANGED <<events, related, failed, links>> /\ Stored' = Stored
    BY <1>2 DEF StoreOther, vars, Stored
  <2>2. held' \in [Others -> SUBSET EventIds] /\ \A s \in Others : held[s] \subseteq held'[s]
    BY <2>1 DEF Types
  <2>3. LinksJoinItems'
    BY <2>1, <2>2, LinksStay DEF IdsOf
  <2>4. QED
    BY <2>1, <2>2, <2>3 DEF Types, OneWayOnlyAfterFailedDelete
<1>3. ASSUME NEW a \in EventIds, NEW b \in EventIds, LinkEvents(a, b) PROVE Inv'
  <2>1. EventsKept /\ Stored' = Stored /\ held' = held /\ links' = links
    BY <1>3, LinkKeeps DEF LinkEvents
  <2>2. LinksJoinItems'
    BY <2>1, LinksStay DEF IdsOf
  <2>3. QED
    BY <2>1, <2>2 DEF EventsKept, Types
<1>4. ASSUME NEW ep \in EventIds, NEW sem \in EventIds, CrossLink(ep, sem) PROVE Inv'
  <2>1. /\ UNCHANGED <<events, related, failed, held>> /\ Stored' = Stored
        /\ \A s \in {"event"} \cup Others : IdsOf(s)' = IdsOf(s)
    BY <1>4 DEF CrossLink, vars, Stored, IdsOf
  <2>2. PICK ends \in Ends : /\ IsFirst(ends[1], ep) /\ IsFirst(ends[2], sem)
                             /\ links' = [links EXCEPT ![<<ep, sem>>] = ends]
    BY <1>4 DEF CrossLink
  <2>3. /\ ep \in IdsOf(ends[1]) /\ sem \in IdsOf(ends[2])
        /\ ends[1] \in {"event"} \cup Others /\ ends[2] \in {"event"} \cup Others
    BY <2>2 DEF IsFirst, Ends, Others
  <2>4. <<ep, sem>> \in Pairs /\ links' \in [Pairs -> Ends \cup {None}]
    BY <2>2 DEF Types, Pairs
  <2>5. LinksJoinItems'
    <3> SUFFICES ASSUME NEW p \in Pairs, links'[p] # None
                 PROVE  (p[1] \in IdsOf(links[p][1]) /\ p[2] \in IdsOf(links[p][2]))'
      BY DEF LinksJoinItems
    <3>1. CASE p = <<ep, sem>>
      BY <2>1, <2>2, <2>3, <2>4, <3>1 DEF Types, IdsOf
    <3>2. CASE p # <<ep, sem>>
      <4>1. links'[p] = links[p] /\ links[p] \in Ends
        BY <2>2, <2>4, <3>2 DEF Types
      <4>2. p[1] \in IdsOf(links[p][1]) /\ p[2] \in IdsOf(links[p][2])
        BY <4>1 DEF LinksJoinItems
      <4>3. QED
        BY <2>1, <4>1, <4>2 DEF IdsOf
    <3>3. QED
      BY <3>1, <3>2
  <2>6. QED
    BY <2>1, <2>4, <2>5 DEF Types, OneWayOnlyAfterFailedDelete
<1>5. ASSUME NEW ep \in EventIds, NEW sem \in EventIds, RemoveCrossLink(ep, sem) PROVE Inv'
  <2>1. /\ UNCHANGED <<events, related, failed, held>> /\ Stored' = Stored
        /\ links' = [links EXCEPT ![<<ep, sem>>] = None]
    BY <1>5 DEF RemoveCrossLink, vars, Stored
  <2>2. LinksJoinItems'
    BY <2>1 DEF LinksJoinItems, IdsOf, Types
  <2>3. QED
    BY <2>1, <2>2 DEF Types, OneWayOnlyAfterFailedDelete
<1>6. ASSUME NEW id \in EventIds, NEW tried \in Tried, DeleteEvent(id, tried) PROVE Inv'
  <2>1. EventsKept /\ Stored' = Stored \ {id} /\ held' = held /\ links' = WithoutLinksOf(id)
    BY <1>6, DeleteKeeps DEF DeleteEvent
  <2>2. links' \in [Pairs -> Ends \cup {None}] /\ LinksJoinItems'
    BY <2>1, LinksKept DEF IdsOf
  <2>3. QED
    BY <2>1, <2>2 DEF EventsKept, Types
<1>7. ASSUME NEW id \in EventIds, NEW tried, PastEvents(id, tried)
      PROVE  EventsKept /\ Stored' = Stored
  <2>1. CASE UNCHANGED vars
    BY <2>1 DEF vars, EventsKept, Types, Stored, OneWayOnlyAfterFailedDelete
  <2>2. CASE DeleteSelfLinked(id)
    BY <2>2, FailedDeleteKeeps
  <2>3. QED
    BY <1>7, <2>1, <2>2 DEF PastEvents
<1>8. ASSUME NEW id \in EventIds, NEW tried \in Tried, DeleteOther(id, tried) PROVE Inv'
  <2>1. EventsKept /\ Stored' = Stored /\ links' = WithoutLinksOf(id)
    BY <1>7, <1>8 DEF DeleteOther
  <2>2. PICK source \in Others : held' = [held EXCEPT ![source] = @ \ {id}]
    BY <1>8 DEF DeleteOther
  <2>3. /\ held' \in [Others -> SUBSET EventIds]
        /\ \A s \in Others : held[s] \ {id} \subseteq held'[s]
    BY <2>2 DEF Types
  <2>4. links' \in [Pairs -> Ends \cup {None}] /\ LinksJoinItems'
    BY <2>1, <2>3, LinksKept DEF IdsOf
  <2>5. QED
    BY <2>1, <2>3, <2>4 DEF EventsKept, Types
<1>9. ASSUME NEW id \in EventIds, NEW tried \in Tried, DeleteFails(id, tried) PROVE Inv'
  <2>1. EventsKept /\ Stored' = Stored /\ links' = links /\ held' = held
    BY <1>7, <1>9 DEF DeleteFails
  <2>2. LinksJoinItems'
    BY <2>1, LinksStay DEF IdsOf
  <2>3. QED
    BY <2>1, <2>2 DEF EventsKept, Types
<1>10. CASE UNCHANGED hybridVars
  BY <1>10 DEF hybridVars, vars, Types, Stored, IdsOf, OneWayOnlyAfterFailedDelete, LinksJoinItems
<1>11. QED
  BY <1>1, <1>2, <1>3, <1>4, <1>5, <1>6, <1>8, <1>9, <1>10 DEF HybridNext, HybridDelete

\* The relation between stored events goes both ways, except from an event
\* whose delete has failed.
THEOREM RelationHolds == HybridSpec => []OneWayOnlyAfterFailedDelete
<1>1. HybridInit => Inv
  BY InitInv
<1>2. Inv /\ [HybridNext]_hybridVars => Inv'
  BY NextInv
<1>3. Inv => OneWayOnlyAfterFailedDelete
  BY DEF Inv
<1>4. QED
  BY <1>1, <1>2, <1>3, PTL DEF HybridSpec

\* A cross-link joins two items that the sources it names hold.
THEOREM LinksHold == HybridSpec => []LinksJoinItems
<1>1. HybridInit => Inv
  BY InitInv
<1>2. Inv /\ [HybridNext]_hybridVars => Inv'
  BY NextInv
<1>3. Inv => LinksJoinItems
  BY DEF Inv
<1>4. QED
  BY <1>1, <1>2, <1>3, PTL DEF HybridSpec

-----------------------------------------------------------------------------
(* The timeline.                                                           *)

TimelineInv == timeline \in Seq(EventIds) /\ TimelineSound

\* The search that InsertionPoint defines.
Searched(search, ts) ==
  [part \in (0..Len(timeline)) \X (0..Len(timeline)) |->
     IF part[1] >= part[2] THEN part[1]
     ELSE IF events[timeline[(part[1] + part[2]) \div 2 + 1]] <= ts
          THEN search[<<(part[1] + part[2]) \div 2 + 1, part[2]>>]
     ELSE search[<<part[1], (part[1] + part[2]) \div 2>>]]
Searching(ts) == CHOOSE search : search = Searched(search, ts)

\* The places of the ids that are no later than ts.
NotLater(ts) == {m \in 0..Len(timeline) - 1 : events[timeline[m + 1]] <= ts}

\* The ids in the timeline have timestamps.
LEMMA Timestamps ==
  ASSUME Types, TimelineInv
  PROVE  \A i \in 1..Len(timeline) : timeline[i] \in Stored /\ events[timeline[i]] \in 1..MaxTime
<1> SUFFICES ASSUME NEW i \in 1..Len(timeline)
             PROVE  timeline[i] \in Stored /\ events[timeline[i]] \in 1..MaxTime
  OBVIOUS
<1>1. timeline[i] \in EventIds
  BY DEF TimelineInv
<1>2. timeline[i] \in Stored
  BY <1>1 DEF TimelineInv, TimelineSound
<1>3. QED
  BY <1>1, <1>2 DEF Stored, Types

\* A function is the search exactly when it halves the timeline by NotLater.
LEMMA SearchHalves ==
  ASSUME timeline \in Seq(EventIds), NEW ts, NEW F
  PROVE  Halves(F, Len(timeline), NotLater(ts)) <=> F = Searched(F, ts)
<1> DEFINE n == Len(timeline)
           One(part) == IF part[1] >= part[2] THEN part[1]
                        ELSE IF Middle(part) \in NotLater(ts) THEN F[<<Middle(part) + 1, part[2]>>]
                        ELSE F[<<part[1], Middle(part)>>]
           Two(part) == IF part[1] >= part[2] THEN part[1]
                        ELSE IF events[timeline[Middle(part) + 1]] <= ts
                             THEN F[<<Middle(part) + 1, part[2]>>]
                        ELSE F[<<part[1], Middle(part)>>]
<1>1. ASSUME NEW part \in Parts(n) PROVE One(part) = Two(part)
  <2>1. PICK lo \in 0..n, hi \in 0..n : part = <<lo, hi>>
    BY <1>1 DEF Parts
  <2>2. n \in Nat
    OBVIOUS
  <2> HIDE DEF n
  <2>3. CASE lo >= hi
    BY <2>1, <2>3
  <2>4. CASE lo < hi
    <3>1. Middle(part) \in 0..n - 1
      BY <2>1, <2>2, <2>4, MiddleLies
    <3>2. Middle(part) \in NotLater(ts) <=> events[timeline[Middle(part) + 1]] <= ts
      BY <3>1 DEF NotLater, n
    <3>3. QED
      BY <3>2
  <2>5. QED
    BY <2>1, <2>2, <2>3, <2>4
<1> HIDE DEF One, Two
<1>2. [part \in Parts(n) |-> One(part)] = [part \in Parts(n) |-> Two(part)]
  BY <1>1
<1>3. Halves(F, n, NotLater(ts)) <=> F = [part \in Parts(n) |-> Two(part)]
  BY <1>2 DEF Halves, One
<1>4. QED
  BY <1>3 DEF Two, Middle, Parts, Searched

\* _insert_in_order finds the place: what is before it is no later, and what is
\* after it is later.
LEMMA PointFound ==
  ASSUME Types, TimelineInv, NEW ts \in 1..MaxTime
  PROVE  /\ InsertionPoint(ts) \in 0..Len(timeline)
         /\ \A i \in 1..Len(timeline) :
              IF i <= InsertionPoint(ts) THEN events[timeline[i]] <= ts
                                         ELSE events[timeline[i]] > ts
<1> DEFINE n == Len(timeline)
           R == NotLater(ts)
           T == {m \in 0..n : m = n \/ m \notin R}
<1>1. n \in Nat /\ timeline \in Seq(EventIds) /\ ts \in Nat
  BY MaxTimeAssumption DEF TimelineInv
<1>2. PICK k \in T : \A m \in T : k <= m
  <2>1. n \in T /\ T \in SUBSET Nat
    BY <1>1
  <2> HIDE DEF T
  <2>2. QED
    BY <2>1, Least
<1>3. ASSUME NEW m \in 0..n - 1 PROVE m \in R <=> m < k
  <2>1. CASE m < k
    <3>1. m \notin T /\ m \in 0..n
      BY <1>1, <1>2, <2>1
    <3>2. QED
      BY <2>1, <3>1
  <2>2. CASE m >= k
    <3>1. k \in 0..n - 1 /\ k \notin R
      BY <1>1, <1>2, <2>2
    <3>2. ~(events[timeline[k + 1]] <= ts)
      BY <3>1 DEF NotLater
    <3>3. k + 1 \in 1..n /\ m + 1 \in 1..n /\ (k + 1 < m + 1 \/ k = m)
      BY <1>1, <2>2, <3>1
    <3>4. k = m \/ events[timeline[k + 1]] <= events[timeline[m + 1]]
      BY <3>3 DEF TimelineInv, TimelineSound
    <3>5. events[timeline[k + 1]] \in Nat /\ events[timeline[m + 1]] \in Nat
      BY <3>3, Timestamps, MaxTimeAssumption
    <3>6. ~(events[timeline[m + 1]] <= ts)
      BY <1>1, <3>2, <3>4, <3>5
    <3>7. QED
      BY <1>1, <1>2, <2>2, <3>6 DEF NotLater
  <2>3. QED
    BY <1>1, <1>2, <2>1, <2>2
<1>4. k \in 0..n
  BY <1>2
<1> HIDE DEF T
<1>5. \E F : Halves(F, n, R)
  <2> HIDE DEF n, R
  <2>1. QED
    BY <1>1, <1>3, <1>4, HalvingExists
<1>6. Halves(Searching(ts), n, R)
  <2>1. PICK F : Halves(F, n, R)
    BY <1>5
  <2>2. F = Searched(F, ts)
    BY <1>1, <2>1, SearchHalves
  <2>3. Searching(ts) = Searched(Searching(ts), ts)
    BY <2>2 DEF Searching
  <2>4. QED
    BY <1>1, <2>3, SearchHalves
<1>7. InsertionPoint(ts) = Searching(ts)[<<0, Len(timeline)>>]
  BY DEF InsertionPoint, Searching, Searched
<1>8. InsertionPoint(ts) = k
  <2>1. Searching(ts)[<<0, n>>] = k
    <3> HIDE DEF n, R
    <3>1. QED
      BY <1>1, <1>3, <1>4, <1>6, HalvingFinds
  <2>2. QED
    BY <1>7, <2>1
<1>9. ASSUME NEW i \in 1..n
      PROVE  IF i <= k THEN events[timeline[i]] <= ts ELSE events[timeline[i]] > ts
  <2>1. i - 1 \in 0..n - 1 /\ (i - 1) + 1 = i
    BY <1>1
  <2>2. i - 1 \in R <=> events[timeline[i]] <= ts
    BY <2>1 DEF NotLater
  <2>3. i - 1 \in R <=> i <= k
    <3> HIDE DEF R
    <3>1. QED
      BY <1>1, <1>3, <1>4, <2>1
  <2>4. events[timeline[i]] \in Nat
    BY Timestamps, MaxTimeAssumption
  <2>5. QED
    BY <1>1, <2>2, <2>3, <2>4
<1>10. QED
  BY <1>4, <1>8, <1>9

\* An event is put in after the events that are no later than it.
LEMMA StorePlaces ==
  ASSUME Types, TimelineInv,
         NEW e \in EventIds, NEW ts \in 1..MaxTime, NEW others, Store(e, ts, others)
  PROVE  /\ TimelineInv'
         /\ \E i \in 1..Len(timeline') :
              /\ timeline'[i] = e
              /\ Without(timeline', i) = timeline
              /\ \A j \in i + 1..Len(timeline') : events'[timeline'[j]] > events'[e]
<1> DEFINE n == Len(timeline)
           at == InsertionPoint(ts)
           r == timeline'
<1>1. /\ timeline \in Seq(EventIds) /\ n \in Nat
      /\ events[e] = None /\ events' = [events EXCEPT ![e] = ts]
  BY DEF Store, TimelineInv
<1>2. /\ at \in 0..n
      /\ \A i \in 1..n : IF i <= at THEN events[timeline[i]] <= ts ELSE events[timeline[i]] > ts
  BY PointFound
<1> HIDE DEF at
<1>3. /\ r \in Seq(EventIds) /\ Len(r) = n + 1 /\ r[at + 1] = e
      /\ \A i \in 1..n : i <= at => r[i] = timeline[i]
      /\ \A i \in 1..n : i > at => r[i + 1] = timeline[i]
  <2>1. r = PutAfter(timeline, at, e)
    BY DEF Store, Inserted, PutAfter, at
  <2> DEFINE q == PutAfter(timeline, at, e)
  <2>2. /\ q \in Seq(EventIds) /\ Len(q) = n + 1 /\ q[at + 1] = e
        /\ \A i \in 1..n : i <= at => q[i] = timeline[i]
        /\ \A i \in 1..n : i > at => q[i + 1] = timeline[i]
    <3>1. timeline \in Seq(EventIds) /\ at \in 0..Len(timeline)
      BY <1>1, <1>2
    <3> HIDE DEF n, q
    <3>2. IsPutAfter(PutAfter(timeline, at, e), EventIds, timeline, at, e)
      BY <3>1, PutIn
    <3>3. QED
      BY <3>2 DEF n, q, IsPutAfter
  <2>3. QED
    BY <2>1, <2>2
<1> HIDE DEF r
<1>4. \A i \in 1..n : timeline[i] \in Stored /\ timeline[i] \in EventIds
                      /\ events[timeline[i]] \in Nat /\ timeline[i] # e
                      /\ events'[timeline[i]] = events[timeline[i]]
  <2> SUFFICES ASSUME NEW i \in 1..n
               PROVE  timeline[i] \in Stored /\ timeline[i] \in EventIds
                      /\ events[timeline[i]] \in Nat /\ timeline[i] # e
                      /\ events'[timeline[i]] = events[timeline[i]]
    OBVIOUS
  <2>1. timeline[i] \in Stored /\ events[timeline[i]] \in 1..MaxTime
    BY Timestamps
  <2>2. timeline[i] \in EventIds /\ timeline[i] # e
    BY <1>1, <2>1 DEF Stored
  <2>3. events[timeline[i]] \in Nat
    BY <2>1, MaxTimeAssumption
  <2>4. events'[timeline[i]] = events[timeline[i]]
    BY <1>1, <2>2 DEF Types
  <2>5. QED
    BY <2>1, <2>2, <2>3, <2>4
<1>5. /\ events'[e] = ts /\ ts \in Nat
      /\ \A x \in EventIds : x \in Stored' <=> x \in Stored \/ x = e
  BY <1>1, NoneAssumption, MaxTimeAssumption DEF Stored, Types
\* Where an element of the new timeline comes from.
<1>6. ASSUME NEW i \in 1..n + 1
      PROVE  \/ i <= at /\ i \in 1..n /\ r[i] = timeline[i]
             \/ i = at + 1 /\ r[i] = e
             \/ i > at + 1 /\ i - 1 \in 1..n /\ i - 1 > at /\ r[i] = timeline[i - 1]
  <2>1. CASE i <= at
    <3>1. i \in 1..n
      BY <1>1, <1>2, <2>1
    <3>2. QED
      BY <1>3, <2>1, <3>1
  <2>2. CASE i = at + 1
    BY <1>3, <2>2
  <2>3. CASE i > at + 1
    <3>1. i - 1 \in 1..n /\ i - 1 > at /\ (i - 1) + 1 = i
      BY <1>1, <1>2, <2>3
    <3>2. QED
      BY <1>3, <2>3, <3>1
  <2>4. QED
    BY <1>2, <2>1, <2>2, <2>3
<1>7. \A x \in EventIds : x \in Stored' <=> \E i \in 1..Len(r) : r[i] = x
  <2>1. ASSUME NEW x \in EventIds, x \in Stored' PROVE \E i \in 1..Len(r) : r[i] = x
    <3>1. CASE x = e
      BY <1>1, <1>2, <1>3, <3>1
    <3>2. CASE x \in Stored
      <4>1. PICK i \in 1..n : timeline[i] = x
        BY <3>2 DEF TimelineInv, TimelineSound
      <4>2. CASE i <= at
        BY <1>1, <1>3, <4>1, <4>2
      <4>3. CASE i > at
        BY <1>1, <1>3, <4>1, <4>3
      <4>4. QED
        BY <1>1, <1>2, <4>2, <4>3
    <3>3. QED
      BY <1>5, <2>1, <3>1, <3>2
  <2>2. ASSUME NEW x \in EventIds, NEW i \in 1..Len(r), r[i] = x PROVE x \in Stored'
    <3>1. i \in 1..n + 1
      BY <1>3
    <3>2. x = e \/ x \in Stored
      BY <1>4, <1>6, <2>2, <3>1
    <3>3. QED
      BY <1>5, <3>2
  <2>3. QED
    BY <2>1, <2>2
<1>8. ASSUME NEW i \in 1..Len(r), NEW j \in 1..Len(r), i < j
      PROVE  r[i] # r[j] /\ events'[r[i]] <= events'[r[j]]
  <2>1. i \in 1..n + 1 /\ j \in 1..n + 1
    BY <1>3
  <2>2. \A a, b \in 1..n : a < b => timeline[a] # timeline[b]
                                    /\ events[timeline[a]] <= events[timeline[b]]
    BY DEF TimelineInv, TimelineSound
  <2>3. CASE i <= at /\ j <= at
    <3>1. i \in 1..n /\ r[i] = timeline[i] /\ j \in 1..n /\ r[j] = timeline[j]
      BY <1>2, <1>6, <2>1, <2>3
    <3>2. timeline[i] # timeline[j] /\ events[timeline[i]] <= events[timeline[j]]
      BY <1>8, <2>2, <3>1
    <3>3. QED
      BY <1>4, <3>1, <3>2
  <2>4. CASE i <= at /\ j = at + 1
    BY <1>2, <1>4, <1>5, <1>6, <2>1, <2>4
  <2>5. CASE i <= at /\ j > at + 1
    <3>1. /\ i \in 1..n /\ r[i] = timeline[i]
          /\ j - 1 \in 1..n /\ r[j] = timeline[j - 1] /\ i < j - 1
      BY <1>2, <1>6, <2>1, <2>5
    <3>2. timeline[i] # timeline[j - 1] /\ events[timeline[i]] <= events[timeline[j - 1]]
      BY <2>2, <3>1
    <3>3. QED
      BY <1>4, <3>1, <3>2
  <2>6. CASE i = at + 1 /\ j > at + 1
    <3>1. j - 1 \in 1..n /\ r[j] = timeline[j - 1] /\ ~(j - 1 <= at) /\ r[i] = e
      <4>1. j > at + 1 /\ j - 1 \in 1..n /\ j - 1 > at /\ r[j] = timeline[j - 1]
        <5>1. \/ j <= at /\ j \in 1..n /\ r[j] = timeline[j]
              \/ j = at + 1 /\ r[j] = e
              \/ j > at + 1 /\ j - 1 \in 1..n /\ j - 1 > at /\ r[j] = timeline[j - 1]
          BY <1>6, <2>1
        <5>2. at \in Nat /\ j \in Nat
          BY <1>1, <1>2, <2>1
        <5>3. ~(j <= at) /\ j # at + 1
          BY <2>6, <5>2
        <5>4. QED
          BY <5>1, <5>3
      <4>2. r[i] = e
        BY <1>3, <2>6
      <4>3. QED
        BY <1>1, <1>2, <4>1, <4>2
    <3>2. events[timeline[j - 1]] > ts
      BY <1>2, <3>1
    <3>3. QED
      BY <1>4, <1>5, <3>1, <3>2
  <2>7. CASE i > at + 1 /\ j > at + 1
    <3>1. /\ i - 1 \in 1..n /\ r[i] = timeline[i - 1]
          /\ j - 1 \in 1..n /\ r[j] = timeline[j - 1] /\ i - 1 < j - 1
      BY <1>2, <1>6, <1>8, <2>1, <2>7
    <3>2. timeline[i - 1] # timeline[j - 1] /\ events[timeline[i - 1]] <= events[timeline[j - 1]]
      BY <2>2, <3>1
    <3>3. QED
      BY <1>4, <3>1, <3>2
  <2>8. (i <= at \/ i = at + 1 \/ i > at + 1) /\ (j <= at \/ j = at + 1 \/ j > at + 1)
    BY <1>2, <2>1
  <2>9. QED
    BY <1>2, <1>8, <2>1, <2>3, <2>4, <2>5, <2>6, <2>7, <2>8
<1>9. TimelineInv'
  BY <1>3, <1>7, <1>8 DEF TimelineInv, TimelineSound, r
<1>10. Without(r, at + 1) = timeline
  <2>1. at + 1 \in 1..Len(r)
    BY <1>1, <1>2, <1>3
  <2>2. /\ Without(r, at + 1) \in Seq(EventIds) /\ Len(Without(r, at + 1)) = n
        /\ \A i \in 1..n : Without(r, at + 1)[i] = IF i < at + 1 THEN r[i] ELSE r[i + 1]
    <3>1. /\ Without(r, at + 1) \in Seq(EventIds) /\ Len(Without(r, at + 1)) = Len(r) - 1
          /\ \A i \in 1..Len(Without(r, at + 1)) :
               Without(r, at + 1)[i] = IF i < at + 1 THEN r[i] ELSE r[i + 1]
      BY <1>3, <2>1, TakenOut DEF Without
    <3>2. Len(r) - 1 = n
      BY <1>1, <1>3
    <3>3. QED
      BY <3>1, <3>2
  <2>3. ASSUME NEW i \in 1..n PROVE Without(r, at + 1)[i] = timeline[i]
    <3>1. CASE i <= at
      BY <1>2, <1>3, <2>2, <3>1
    <3>2. CASE i > at
      BY <1>2, <1>3, <2>2, <3>2
    <3>3. QED
      BY <1>2, <3>1, <3>2
  <2>4. QED
    BY <1>1, <2>2, <2>3
<1>11. \A j \in at + 1 + 1..Len(r) : events'[r[j]] > events'[e]
  <2> SUFFICES ASSUME NEW j \in at + 1 + 1..Len(r) PROVE events'[r[j]] > events'[e]
    OBVIOUS
  <2>1. j - 1 \in 1..n /\ r[j] = timeline[j - 1] /\ ~(j - 1 <= at)
    <3>1. j \in 1..n + 1 /\ j > at + 1
      BY <1>1, <1>2, <1>3
    <3>2. r[j] = timeline[j - 1]
      BY <1>1, <1>2, <1>6, <3>1
    <3>3. QED
      BY <1>1, <1>2, <3>1, <3>2
  <2>2. events[timeline[j - 1]] > ts
    BY <1>2, <2>1
  <2>3. QED
    BY <1>4, <1>5, <2>1, <2>2
<1>12. at + 1 \in 1..Len(r)
  BY <1>1, <1>2, <1>3
<1>13. QED
  BY <1>3, <1>9, <1>10, <1>11, <1>12 DEF r

\* A deleted event leaves the timeline, and the others keep their order.
LEMMA DeletePlaces ==
  ASSUME Types, TimelineInv, NEW e \in EventIds, Delete(e)
  PROVE  TimelineInv'
<1> DEFINE n == Len(timeline)
           w == CHOOSE i \in 1..n : timeline[i] = e
           r == timeline'
<1>1. /\ timeline \in Seq(EventIds) /\ n \in Nat /\ e \in Stored
      /\ events' = [events EXCEPT ![e] = None] /\ r = Without(timeline, w)
  BY DEF Delete, TimelineInv
<1>2. w \in 1..n /\ timeline[w] = e
  <2>1. \E i \in 1..n : timeline[i] = e
    BY <1>1 DEF TimelineInv, TimelineSound
  <2>2. QED
    BY <2>1
<1> HIDE DEF w, r
<1>3. /\ r \in Seq(EventIds) /\ Len(r) = n - 1
      /\ \A i \in 1..n - 1 : r[i] = IF i < w THEN timeline[i] ELSE timeline[i + 1]
  <2>1. /\ Without(timeline, w) \in Seq(EventIds) /\ Len(Without(timeline, w)) = n - 1
        /\ \A i \in 1..Len(Without(timeline, w)) :
             Without(timeline, w)[i] = IF i < w THEN timeline[i] ELSE timeline[i + 1]
    BY <1>1, <1>2, TakenOut DEF Without
  <2>2. QED
    BY <1>1, <2>1
<1>4. \A a, b \in 1..n : a < b => timeline[a] # timeline[b]
                                  /\ events[timeline[a]] <= events[timeline[b]]
  BY DEF TimelineInv, TimelineSound
<1>5. \A i \in 1..n : i # w => timeline[i] # e
  <2> SUFFICES ASSUME NEW i \in 1..n, i # w PROVE timeline[i] # e
    OBVIOUS
  <2>1. i < w \/ w < i
    BY <1>1, <1>2
  <2>2. QED
    BY <1>2, <1>4, <2>1
<1>6. \A i \in 1..n : timeline[i] \in Stored /\ timeline[i] \in EventIds
  BY <1>1, Timestamps DEF Stored
<1>7. \A x \in EventIds : (x \in Stored' <=> x \in Stored /\ x # e)
                          /\ (x # e => events'[x] = events[x])
  BY <1>1 DEF Stored, Types
\* Where an element of the new timeline comes from.
<1>8. ASSUME NEW i \in 1..n - 1
      PROVE  \E a \in 1..n : /\ r[i] = timeline[a] /\ a # w
                             /\ IF i < w THEN a = i ELSE a = i + 1
  <2>1. CASE i < w
    <3>1. i \in 1..n /\ i # w
      BY <1>1, <1>2, <2>1
    <3>2. r[i] = timeline[i]
      BY <1>3, <2>1
    <3>3. QED
      BY <2>1, <3>1, <3>2
  <2>2. CASE ~(i < w)
    <3>1. i + 1 \in 1..n /\ i + 1 # w
      BY <1>1, <1>2, <2>2
    <3>2. QED
      BY <1>3, <2>2, <3>1
  <2>3. QED
    BY <2>1, <2>2
<1>9. \A x \in EventIds : x \in Stored' <=> \E i \in 1..Len(r) : r[i] = x
  <2>1. ASSUME NEW x \in EventIds, x \in Stored' PROVE \E i \in 1..Len(r) : r[i] = x
    <3>1. PICK a \in 1..n : timeline[a] = x
      BY <1>7, <2>1 DEF TimelineInv, TimelineSound
    <3>2. a # w
      BY <1>2, <1>7, <2>1, <3>1
    <3>3. CASE a < w
      <4>1. a \in 1..n - 1
        BY <1>1, <1>2, <3>3
      <4>2. r[a] = x
        BY <1>3, <3>1, <3>3, <4>1
      <4>3. QED
        BY <1>3, <4>1, <4>2
    <3>4. CASE a > w
      <4>1. a - 1 \in 1..n - 1 /\ ~(a - 1 < w) /\ (a - 1) + 1 = a
        BY <1>1, <1>2, <3>4
      <4>2. r[a - 1] = x
        BY <1>3, <3>1, <4>1
      <4>3. QED
        BY <1>3, <4>1, <4>2
    <3>5. QED
      BY <1>2, <3>2, <3>3, <3>4
  <2>2. ASSUME NEW x \in EventIds, NEW i \in 1..Len(r), r[i] = x PROVE x \in Stored'
    <3>1. PICK a \in 1..n : r[i] = timeline[a] /\ a # w
      BY <1>3, <1>8
    <3>2. x \in Stored /\ x # e
      BY <1>5, <1>6, <2>2, <3>1
    <3>3. QED
      BY <1>7, <3>2
  <2>3. QED
    BY <2>1, <2>2
<1>10. ASSUME NEW i \in 1..Len(r), NEW j \in 1..Len(r), i < j
      PROVE  r[i] # r[j] /\ events'[r[i]] <= events'[r[j]]
  <2>1. i \in 1..n - 1 /\ j \in 1..n - 1
    BY <1>3
  <2>2. PICK a \in 1..n : /\ r[i] = timeline[a] /\ a # w
                          /\ IF i < w THEN a = i ELSE a = i + 1
    BY <1>8, <2>1
  <2>3. PICK b \in 1..n : /\ r[j] = timeline[b] /\ b # w
                          /\ IF j < w THEN b = j ELSE b = j + 1
    BY <1>8, <2>1
  <2>4. a < b
    BY <1>2, <1>10, <2>1, <2>2, <2>3
  <2>5. timeline[a] # timeline[b] /\ events[timeline[a]] <= events[timeline[b]]
    BY <1>4, <2>4
  <2>6. events'[timeline[a]] = events[timeline[a]] /\ events'[timeline[b]] = events[timeline[b]]
    BY <1>5, <1>6, <1>7, <2>2, <2>3
  <2>7. QED
    BY <2>2, <2>3, <2>5, <2>6
<1>11. QED
  BY <1>3, <1>9, <1>10 DEF TimelineInv, TimelineSound, r

\* Nothing else touches the events or the timeline.
LEMMA TimelineStays ==
  ASSUME TimelineInv, UNCHANGED <<events, timeline>>
  PROVE  TimelineInv'
BY DEF TimelineInv, TimelineSound, Stored

\* What a step of HybridMemory does to the events and the timeline.
LEMMA StepOnEvents ==
  ASSUME [HybridNext]_hybridVars
  PROVE  \/ UNCHANGED <<events, timeline>>
         \/ \E e \in EventIds, ts \in 1..MaxTime, others \in SUBSET EventIds : Store(e, ts, others)
         \/ \E e \in EventIds : Delete(e)
<1>1. CASE \E id \in EventIds, ts \in 1..MaxTime, others \in SUBSET EventIds :
             StoreEvent(id, ts, others)
  BY <1>1 DEF StoreEvent
<1>2. CASE \E source \in Others, id \in EventIds : StoreOther(source, id)
  BY <1>2 DEF StoreOther, vars
<1>3. CASE \E a, b \in EventIds : LinkEvents(a, b) \/ CrossLink(a, b) \/ RemoveCrossLink(a, b)
  BY <1>3 DEF LinkEvents, Link, CrossLink, RemoveCrossLink, vars
<1>4. ASSUME NEW id \in EventIds, NEW tried \in Tried,
             DeleteEvent(id, tried) \/ DeleteOther(id, tried) \/ DeleteFails(id, tried)
      PROVE  UNCHANGED <<events, timeline>> \/ Delete(id)
  <2>1. CASE DeleteEvent(id, tried)
    BY <2>1 DEF DeleteEvent
  <2>2. CASE PastEvents(id, tried)
    BY <2>2 DEF PastEvents, DeleteSelfLinked, vars
  <2>3. QED
    BY <1>4, <2>1, <2>2 DEF DeleteOther, DeleteFails
<1>5. CASE UNCHANGED hybridVars
  BY <1>5 DEF hybridVars, vars
<1>6. QED
  BY <1>1, <1>2, <1>3, <1>4, <1>5 DEF HybridNext, HybridDelete

\* Every step keeps the timeline, and a new event is put in after the events of
\* its time.
LEMMA TimelineStep ==
  ASSUME Inv, TimelineInv, [HybridNext]_hybridVars
  PROVE  /\ TimelineInv'
         /\ \A e \in EventIds :
              events[e] = None /\ events'[e] # None
              => \E i \in 1..Len(timeline') :
                   /\ timeline'[i] = e
                   /\ Without(timeline', i) = timeline
                   /\ \A j \in i + 1..Len(timeline') : events'[timeline'[j]] > events'[e]
<1>1. CASE UNCHANGED <<events, timeline>>
  BY <1>1, TimelineStays
<1>2. ASSUME NEW e \in EventIds, NEW ts \in 1..MaxTime, NEW others \in SUBSET EventIds,
             Store(e, ts, others)
      PROVE  /\ TimelineInv'
             /\ \A x \in EventIds :
                  events[x] = None /\ events'[x] # None
                  => \E i \in 1..Len(timeline') :
                       /\ timeline'[i] = x
                       /\ Without(timeline', i) = timeline
                       /\ \A j \in i + 1..Len(timeline') : events'[timeline'[j]] > events'[x]
  <2>1. \A x \in EventIds : events[x] = None /\ events'[x] # None => x = e
    BY <1>2 DEF Store, Inv, Types
  <2>2. /\ TimelineInv'
        /\ \E i \in 1..Len(timeline') :
             /\ timeline'[i] = e
             /\ Without(timeline', i) = timeline
             /\ \A j \in i + 1..Len(timeline') : events'[timeline'[j]] > events'[e]
    BY <1>2, StorePlaces DEF Inv
  <2>3. QED
    BY <2>1, <2>2
<1>3. ASSUME NEW e \in EventIds, Delete(e)
      PROVE  TimelineInv' /\ \A x \in EventIds : ~(events[x] = None /\ events'[x] # None)
  <2>1. \A x \in EventIds : ~(events[x] = None /\ events'[x] # None)
    BY <1>3 DEF Delete, Inv, Types
  <2>2. QED
    BY <1>3, <2>1, DeletePlaces DEF Inv
<1>4. QED
  BY <1>1, <1>2, <1>3, StepOnEvents

\* The timeline lists every event once, in the order of the timestamps.
THEOREM TimelineAlwaysSound == HybridSpec => []TimelineSound
<1>1. HybridInit => Inv /\ TimelineInv
  <2>1. HybridInit => TimelineInv
    BY DEF HybridInit, Init, TimelineInv, TimelineSound, Stored
  <2>2. QED
    BY <2>1, InitInv
<1>2. Inv /\ TimelineInv /\ [HybridNext]_hybridVars => Inv' /\ TimelineInv'
  BY NextInv, TimelineStep
<1>3. TimelineInv => TimelineSound
  BY DEF TimelineInv
<1>4. QED
  BY <1>1, <1>2, <1>3, PTL DEF HybridSpec

\* The variables keep their types: the timeline is a list of ids.
THEOREM TypeCorrect == HybridSpec => []HybridTypeOK
<1>1. HybridInit => Inv /\ TimelineInv
  <2>1. HybridInit => TimelineInv
    BY DEF HybridInit, Init, TimelineInv, TimelineSound, Stored
  <2>2. QED
    BY <2>1, InitInv
<1>2. Inv /\ TimelineInv /\ [HybridNext]_hybridVars => Inv' /\ TimelineInv'
  BY NextInv, TimelineStep
<1>3. Inv /\ TimelineInv => HybridTypeOK
  BY DEF Inv, Types, TimelineInv, HybridTypeOK, TypeOK
<1>4. QED
  BY <1>1, <1>2, <1>3, PTL DEF HybridSpec

\* Events logged at one instant stay in the order of their arrival: storing one
\* puts it after those of its time and moves none of the others.
THEOREM ArrivalOrderAlwaysKept == HybridSpec => ArrivalOrderKept
<1> DEFINE InPlace ==
      \A e \in EventIds :
        events[e] = None /\ events'[e] # None
        => \E i \in 1..Len(timeline') :
             /\ timeline'[i] = e
             /\ Without(timeline', i) = timeline
             /\ \A j \in i + 1..Len(timeline') : events'[timeline'[j]] > events'[e]
<1>1. HybridInit => Inv /\ TimelineInv
  <2>1. HybridInit => TimelineInv
    BY DEF HybridInit, Init, TimelineInv, TimelineSound, Stored
  <2>2. QED
    BY <2>1, InitInv
<1>2. Inv /\ TimelineInv /\ [HybridNext]_hybridVars => Inv' /\ TimelineInv'
  BY NextInv, TimelineStep
<1>3. Inv /\ TimelineInv /\ [HybridNext]_hybridVars => [InPlace]_vars
  BY TimelineStep
<1>4. ArrivalOrderKept <=> [][InPlace]_vars
  BY DEF ArrivalOrderKept
<1>5. QED
  BY <1>1, <1>2, <1>3, <1>4, PTL DEF HybridSpec

-----------------------------------------------------------------------------
(* The router.                                                              *)

\* A decision whose sources are of its type.
Fits(d) == /\ d.type \in AnyType /\ d.sources # {}
           /\ d.type = "episodic" => d.sources \subseteq Episodic
           /\ d.type = "semantic" => d.sources \subseteq Semantic
           /\ d.type = "both" => d.sources = Episodic \cup Semantic

RouterInv == RouterTypeOK /\ (last # NoRecord => Fits(last.decision))

\* Every target of the intents fits.
LEMMA TargetsFit == \A intent : Fits(Targets(intent)) /\ Fits(Everything)
<1>1. Fits(Everything)
  BY DEF Fits, Everything, Target, Episodic, Semantic, AnyType, MemoryTypes
<1>2. /\ Fits(Target("episodic", {"event_store"})) /\ Fits(Target("episodic", {"experience_tracker"}))
      /\ Fits(Target("semantic", Semantic)) /\ Fits(Target("semantic", {"knowledge_graph"}))
  BY DEF Fits, Target, Episodic, Semantic, AnyType, MemoryTypes
<1>3. QED
  BY <1>1, <1>2 DEF Targets

\* Whatever decides, keywords, weights or what was learned against them.
LEMMA DecisionsFit ==
  ASSUME RouterTypeOK, NEW q, NEW d \in Decisions(q)
  PROVE  Fits(d)
<1>1. Fits(ByKeyword(q)) /\ Fits(ByWeight(q)) /\ Fits(ByBase(q))
  BY TargetsFit DEF ByKeyword, ByWeight, ByBase
<1>2. Fits(LearnedTarget(Intent(q))) /\ Fits(Everything)
  BY TargetsFit DEF LearnedTarget
<1>3. ASSUME strategy = "adaptive" PROVE d \in {ByBase(q), LearnedTarget(Intent(q)), Everything}
  BY <1>3 DEF Decisions, ByScores
<1>4. strategy \in Strategies
  BY DEF RouterTypeOK
<1>5. QED
  BY <1>1, <1>2, <1>3, <1>4 DEF Decisions, Strategies

\* Learning keeps the scores numbers within their bound.
LEMMA ScoresKept ==
  ASSUME RouterTypeOK, NEW intent, NEW type \in AnyType, NEW n \in ResultCounts,
         scores' = Recorded(intent, type, n), Within(scores')
  PROVE  scores' \in [Intents -> [MemoryTypes -> -MaxScore..MaxScore]]
<1>1. scores \in [Intents -> [MemoryTypes -> Int]]
  BY RouterAssumption DEF RouterTypeOK
<1>2. CASE type = "both"
  BY <1>2 DEF Recorded, RouterTypeOK
<1>3. CASE type \in MemoryTypes
  <2>1. scores' = [scores EXCEPT ![intent][type] = scores[intent][type] + Reward(n)]
    BY <1>3 DEF Recorded, MemoryTypes
  <2>2. Reward(n) \in Int
    BY RouterAssumption DEF Reward
  <2>3. scores' \in [Intents -> [MemoryTypes -> Int]]
    <3> DEFINE x == scores[intent][type] + Reward(n)
               row == [scores[intent] EXCEPT ![type] = x]
    <3>1. scores' = [scores EXCEPT ![intent] = row]
      BY <2>1
    <3>2. ASSUME intent \in Intents PROVE row \in [MemoryTypes -> Int]
      <4>1. x \in Int
        BY <1>1, <1>3, <2>2, <3>2
      <4> HIDE DEF x
      <4>2. QED
        BY <1>1, <3>2, <4>1
    <3> HIDE DEF row
    <3>3. QED
      BY <1>1, <3>1, <3>2
  <2>4. ASSUME NEW i \in Intents PROVE scores'[i] \in [MemoryTypes -> -MaxScore..MaxScore]
    BY <2>3 DEF Within
  <2>5. QED
    BY <2>3, <2>4
<1>4. QED
  BY <1>2, <1>3 DEF AnyType

\* The invariant holds at the start.
LEMMA RouterStarts == RouterInit => RouterInv
BY RouterAssumption
   DEF RouterInit, RouterInv, RouterTypeOK, Strategies, NoScores

\* Every action of the router keeps it.
LEMMA RouterKept == RouterInv /\ [RouterNext]_routerVars => RouterInv'
<1> SUFFICES ASSUME RouterInv, [RouterNext]_routerVars PROVE RouterInv'
  OBVIOUS
<1>0. RouterTypeOK /\ Counted \in 0..4
  BY DEF RouterInv, RouterTypeOK, Counted
<1>1. ASSUME NEW q \in RoutedQueries, NEW n \in ResultCounts, Route(q, n) PROVE RouterInv'
  <2>1. PICK d \in Decisions(q) :
          /\ scores' = IF strategy = "adaptive" THEN Recorded(Intent(q), d.type, n) ELSE scores
          /\ Within(scores')
          /\ routed' = Counted /\ strategy' = strategy
          /\ last' = [intent |-> Intent(q), decision |-> d, results |-> n]
    BY <1>1 DEF Route
  <2>2. Fits(d) /\ d.type \in AnyType
    BY <1>0, DecisionsFit DEF Fits
  <2>3. scores' \in [Intents -> [MemoryTypes -> -MaxScore..MaxScore]]
    BY <1>0, <2>1, <2>2, ScoresKept DEF RouterTypeOK
  <2>4. Fits(last'.decision)
    BY <2>1, <2>2
  <2>5. QED
    BY <1>0, <2>1, <2>2, <2>3, <2>4 DEF RouterInv, RouterTypeOK, Fits
<1>2. ASSUME NEW q \in RoutedQueries, RouteFails(q) PROVE RouterInv'
  BY <1>0, <1>2 DEF RouteFails, RouterInv, RouterTypeOK
<1>3. ASSUME NEW i, NEW t \in AnyType, NEW n \in ResultCounts, RecordRouting(i, t, n)
      PROVE  RouterInv'
  <2>1. scores' = Recorded(i, t, n) /\ Within(scores') /\ UNCHANGED <<strategy, routed, last>>
    BY <1>3 DEF RecordRouting
  <2>2. scores' \in [Intents -> [MemoryTypes -> -MaxScore..MaxScore]]
    BY <1>0, <2>1, ScoresKept
  <2>3. QED
    BY <1>0, <2>1, <2>2 DEF RouterInv, RouterTypeOK
<1>4. CASE SetStrategy
  BY <1>4 DEF SetStrategy, RouterInv, RouterTypeOK
<1>5. CASE ResetScores
  BY <1>5, RouterAssumption DEF ResetScores, RouterInv, RouterTypeOK, NoScores
<1>6. CASE ClearHistory
  BY <1>6 DEF ClearHistory, RouterInv, RouterTypeOK
<1>7. CASE UNCHANGED routerVars
  BY <1>7 DEF routerVars, RouterInv, RouterTypeOK
<1>8. QED
  BY <1>1, <1>2, <1>3, <1>4, <1>5, <1>6, <1>7 DEF RouterNext, RouteStep

\* A route past the first three queries earns an intent with close scores
\* nothing: it goes to both types.
LEMMA CloseScoresStay ==
  ASSUME RouterTypeOK, NEW i \in Intents, routed >= 3, Spread(i) < Exploration, RouteStep
  PROVE  scores'[i] = scores[i]
<1>1. PICK q \in RoutedQueries, n \in ResultCounts : Route(q, n)
  BY DEF RouteStep
<1>2. PICK d \in Decisions(q) :
        scores' = IF strategy = "adaptive" THEN Recorded(Intent(q), d.type, n) ELSE scores
  BY <1>1 DEF Route
<1>3. CASE strategy # "adaptive"
  BY <1>2, <1>3
<1>4. CASE strategy = "adaptive" /\ Intent(q) # i
  BY <1>2, <1>4 DEF Recorded, RouterTypeOK
<1>5. CASE strategy = "adaptive" /\ Intent(q) = i
  <2>1. i # "ambiguous"
    BY DEF Intents
  <2>2. Spread(i) \in Int /\ Exploration \in Int /\ routed \in Int
    BY RouterAssumption DEF RouterTypeOK, Spread, MemoryTypes
  <2>3. d \in ByScores(q)
    BY <1>5 DEF Decisions
  <2>4. ~(routed < 3) /\ ~(Spread(i) >= Exploration)
    BY <2>2
  <2>5. d = Everything
    BY <1>5, <2>1, <2>3, <2>4 DEF ByScores
  <2>6. d.type = "both"
    BY <2>5 DEF Everything, Target
  <2>7. QED
    BY <1>2, <1>5, <2>6 DEF Recorded
<1>6. QED
  BY <1>3, <1>4, <1>5

\* Every decision of MemoryRouter.route names sources of its type, however it
\* came about; and past the first three queries no route changes the scores of
\* an intent that are close (AdaptiveStrategy.decide and record_outcome).
THEOREM RoutingAlwaysSound == RouterSpec => RoutingSound
<1>1. RouterInv => SourcesFitType
  BY DEF RouterInv, SourcesFitType, Fits
<1>2. ASSUME RouterInv, [RouterNext]_routerVars
      PROVE  [\A i \in Intents :
                routed >= 3 /\ Spread(i) < Exploration /\ scores'[i] # scores[i]
                  => ~RouteStep]_routerVars
  BY <1>2, CloseScoresStay DEF RouterInv
<1>3. QED
  BY RouterStarts, RouterKept, <1>1, <1>2, PTL DEF RouterSpec, RoutingSound, FallbackIsForever

-----------------------------------------------------------------------------
(* Shares and first maxima, which the selector counts with.                 *)

\* The constants of the scores, in tenths: their decimal values stay out of the proofs.
LEMMA Shares == /\ Tenth \in Nat \ {0} /\ Whole \in Nat \ {0} /\ Threshold \in Nat \ {0}
                /\ Whole = 10 * Tenth /\ Threshold = 3 * Tenth
BY DEF Whole, Threshold, Tenth

\* The rounded quotient, by the products it lies between.
LEMMA Quotient ==
  ASSUME NEW x \in Nat, NEW d \in Nat \ {0}
  PROVE  /\ x \div d \in Nat /\ (x \div d) * d <= x
         /\ \A k \in Nat : k * d <= x => k <= x \div d
         /\ \A k \in Nat : x <= k * d => x \div d <= k
<1> DEFINE y == x \div d
<1>1. y \in Nat /\ y * d <= x /\ x < (y + 1) * d
  OBVIOUS
<1> HIDE DEF y
<1>2. ASSUME NEW k \in Nat, k * d <= x PROVE k <= y
  <2>1. CASE k >= y + 1
    <3>1. k * d >= (y + 1) * d
      BY <1>1, <2>1
    <3>2. QED
      BY <1>1, <1>2, <3>1
  <2>2. QED
    BY <1>1, <2>1
<1>3. ASSUME NEW k \in Nat, x <= k * d PROVE y <= k
  <2>1. CASE y >= k + 1
    <3>1. y * d >= (k + 1) * d /\ (k + 1) * d = k * d + d
      BY <1>1, <2>1
    <3>2. QED
      BY <1>1, <1>3, <3>1
  <2>2. QED
    BY <1>1, <2>1
<1>4. QED
  BY <1>1, <1>2, <1>3 DEF y

\* A share is at most the whole.
LEMMA ShareIs ==
  ASSUME NEW a \in Nat, NEW s \in Nat \ {0}, a <= s
  PROVE  Share(a, s) \in 0..Whole
<1> DEFINE x == a * Whole
<1>1. x \in Nat /\ x <= s * Whole /\ s * Whole = Whole * s
  BY Times, Shares
<1> HIDE DEF x
<1>2. x \div s \in Nat /\ x \div s <= Whole
  BY <1>1, Quotient, Shares
<1>3. QED
  BY <1>2, Shares DEF x, Share

\* More for the one raises its share of the sum and lowers another's.
LEMMA ShareMoves ==
  ASSUME NEW a \in Nat, NEW s \in Nat \ {0}, a <= s, NEW n \in Nat
  PROVE  /\ Share(a, s) <= Share(a + n, s + n)
         /\ Share(a, s + n) <= Share(a, s)
<1> DEFINE k == (a * Whole) \div s
<1>1. a * Whole \in Nat /\ (a + n) * Whole \in Nat /\ s + n \in Nat \ {0}
  BY Shares
<1>2. k \in Nat /\ k * s <= a * Whole /\ k <= Whole
  <2>1. a * Whole <= s * Whole /\ s * Whole = Whole * s
    BY Times, Shares
  <2> DEFINE x == a * Whole
  <2>2. x \in Nat /\ x <= Whole * s
    BY <1>1, <2>1
  <2> HIDE DEF x
  <2>3. x \div s \in Nat /\ (x \div s) * s <= x /\ x \div s <= Whole
    BY <2>2, Quotient, Shares
  <2>4. QED
    BY <2>3 DEF x
<1>3. a * Whole <= (k + 1) * s
  <2>1. CASE (k + 1) * s <= a * Whole
    <3>1. k + 1 <= k
      BY <1>1, <1>2, <2>1, Quotient
    <3>2. QED
      BY <1>2, <3>1
  <2>2. (k + 1) * s \in Nat
    BY <1>2
  <2>3. QED
    BY <1>1, <2>1, <2>2
<1> HIDE DEF k
<1>4. k <= ((a + n) * Whole) \div (s + n)
  <2>1. k * n <= Whole * n
    BY <1>2, Times, Shares
  <2>2. k * (s + n) = k * s + k * n /\ (a + n) * Whole = a * Whole + Whole * n
    BY <1>2, Shares
  <2>3. k * (s + n) <= (a + n) * Whole
    <3>1. k * s \in Nat /\ k * n \in Nat /\ a * Whole \in Nat /\ Whole * n \in Nat
      BY <1>2, Shares
    <3>2. QED
      BY <1>2, <2>1, <2>2, <3>1
  <2>4. QED
    BY <1>1, <1>2, <2>3, Quotient
<1>5. (a * Whole) \div (s + n) <= k
  <2> DEFINE x == a * Whole
             d == s + n
             j == x \div d
  <2>1. x \in Nat /\ d \in Nat \ {0} /\ s <= d
    BY Shares
  <2> HIDE DEF x, d
  <2>2. j \in Nat /\ j * d <= x
    BY <2>1, Quotient
  <2> HIDE DEF j
  <2>3. j * s <= j * d
    BY <2>1, <2>2
  <2>4. j * s <= x
    BY <2>1, <2>2, <2>3
  <2>5. j <= x \div s
    BY <2>1, <2>2, <2>4, Quotient
  <2>6. QED
    BY <2>5 DEF j, x, d, k
<1>6. QED
  BY <1>4, <1>5, Shares DEF k, Share

-----------------------------------------------------------------------------
(* The first of the best.                                                  *)

IsFirstMax(keys, value, i) ==
  /\ i \in DOMAIN keys
  /\ \A j \in DOMAIN keys : value[keys[j]] <= value[keys[i]]
  /\ \A j \in 1..i - 1 : value[keys[j]] < value[keys[i]]

\* There is only one.
LEMMA FirstMaxOnly ==
  ASSUME NEW n \in Nat, NEW keys, DOMAIN keys = 1..n, NEW value,
         \A j \in 1..n : value[keys[j]] \in Nat,
         NEW i, IsFirstMax(keys, value, i)
  PROVE  FirstMax(keys, value) = keys[i]
<1>1. ASSUME NEW j, IsFirstMax(keys, value, j) PROVE j = i
  <2>1. i \in 1..n /\ j \in 1..n /\ value[keys[i]] \in Nat /\ value[keys[j]] \in Nat
    BY <1>1 DEF IsFirstMax
  <2>2. ~(i < j)
    <3>1. CASE i < j
      <4>1. value[keys[i]] < value[keys[j]] /\ value[keys[j]] <= value[keys[i]]
        BY <1>1, <2>1, <3>1 DEF IsFirstMax
      <4>2. QED
        BY <2>1, <4>1
    <3>2. QED
      BY <3>1
  <2>3. ~(j < i)
    <3>1. CASE j < i
      <4>1. value[keys[j]] < value[keys[i]] /\ value[keys[i]] <= value[keys[j]]
        BY <1>1, <2>1, <3>1 DEF IsFirstMax
      <4>2. QED
        BY <2>1, <4>1
    <3>2. QED
      BY <3>1
  <2>4. QED
    BY <2>1, <2>2, <2>3
<1> DEFINE P(j) == /\ \A h \in DOMAIN keys : value[keys[h]] <= value[keys[j]]
                   /\ \A h \in 1..j - 1 : value[keys[h]] < value[keys[j]]
<1>2. i \in DOMAIN keys /\ P(i) /\ \A j \in DOMAIN keys : P(j) => j = i
  BY <1>1 DEF IsFirstMax
<1>3. FirstMax(keys, value) = keys[CHOOSE j \in DOMAIN keys : P(j)]
  BY DEF FirstMax
<1> HIDE DEF P
<1>4. QED
  BY <1>2, <1>3

\* There is one.
LEMMA FirstMaxIs ==
  ASSUME NEW n \in Nat \ {0}, NEW keys, DOMAIN keys = 1..n, NEW value, NEW bound \in Nat,
         \A j \in 1..n : value[keys[j]] \in 0..bound
  PROVE  \E i \in 1..n : IsFirstMax(keys, value, i) /\ FirstMax(keys, value) = keys[i]
<1> DEFINE T == {m \in Nat : \A j \in 1..n : value[keys[j]] <= m}
<1>1. bound \in T
  OBVIOUS
<1>2. PICK m \in T : \A k \in T : m <= k
  BY <1>1, Least
<1>3. \E i \in 1..n : value[keys[i]] = m
  <2> SUFFICES ASSUME \A i \in 1..n : value[keys[i]] # m PROVE FALSE
    OBVIOUS
  <2>1. \A i \in 1..n : value[keys[i]] \in Nat /\ value[keys[i]] <= m - 1
    BY <1>2
  <2>2. m - 1 \in Nat
    BY <1>2, <2>1
  <2>3. m - 1 \in T
    BY <2>1, <2>2
  <2>4. QED
    BY <1>2, <2>3
<1> DEFINE F == {i \in 1..n : value[keys[i]] = m}
<1>4. PICK i \in F : \A j \in F : i <= j
  <2>1. F \in SUBSET Nat /\ F # {}
    BY <1>3
  <2> HIDE DEF F
  <2>2. QED
    BY <2>1, Least
<1>5. ASSUME NEW j \in 1..i - 1 PROVE value[keys[j]] < value[keys[i]]
  <2>1. j \in 1..n /\ j \notin F /\ value[keys[i]] = m /\ m \in Nat
    BY <1>2, <1>4
  <2>2. value[keys[j]] \in Nat /\ value[keys[j]] <= m /\ value[keys[j]] # m
    BY <1>2, <2>1
  <2>3. QED
    BY <2>1, <2>2
<1>6. IsFirstMax(keys, value, i)
  BY <1>2, <1>4, <1>5 DEF IsFirstMax
<1>7. FirstMax(keys, value) = keys[i]
  BY <1>6, FirstMaxOnly
<1>8. QED
  BY <1>4, <1>6, <1>7

-----------------------------------------------------------------------------
(* What the algorithms answer.                                             *)

\* The layers, as a sequence and as a set.
LEMMA LayersAre ==
  /\ DOMAIN Layers = 1..4 /\ Layers[1] = "working" /\ Layers[2] = "short_term"
  /\ Layers[3] = "long_term" /\ Layers[4] = "hybrid"
  /\ \A i \in 1..4 : Layers[i] \in LayerNames
  /\ \A i, j \in 1..4 : Layers[i] = Layers[j] => i = j
BY DEF Layers, LayerNames

\* The best of the layers is one of them.
LEMMA FirstLayerIs ==
  ASSUME NEW value, NEW bound \in Nat, \A l \in LayerNames : value[l] \in 0..bound
  PROVE  \E i \in 1..4 : IsFirstMax(Layers, value, i) /\ FirstMax(Layers, value) = Layers[i]
<1> DEFINE n == 4
           keys == Layers
<1>1. n \in Nat \ {0} /\ DOMAIN keys = 1..n /\ \A j \in 1..n : value[keys[j]] \in 0..bound
  BY LayersAre
<1> HIDE DEF n, keys
<1>2. \E i \in 1..n : IsFirstMax(keys, value, i) /\ FirstMax(keys, value) = keys[i]
  BY <1>1, FirstMaxIs
<1>3. QED
  BY <1>2 DEF n, keys

\* A score is a share.
LEMMA ScoreIs ==
  ASSUME NEW q \in [Signals -> Nat], NEW s \in Signals
  PROVE  Score(q, s) \in 0..Whole
<1>1. q[s] \in Nat /\ Total(q) \in Nat /\ q[s] <= Total(q)
  BY DEF Signals, Total
<1>2. CASE Total(q) = 0
  BY <1>2, Shares DEF Score
<1>3. CASE Total(q) # 0
  <2>1. Share(q[s], Total(q)) \in 0..Whole
    BY <1>1, <1>3, ShareIs
  <2>2. QED
    BY <1>3, <2>1 DEF Score
<1>4. QED
  BY <1>2, <1>3

\* The rules answer a selection.
LEMMA RuleBasedIs ==
  ASSUME NEW q \in [Signals -> Nat]
  PROVE  RuleBased(q) \in Selections
<1>1. \A s \in Signals : Score(q, s) \in 0..Whole
  BY ScoreIs
<1> DEFINE a == Higher(Score(q, "temporal"), Score(q, "experiential"))
           b == Higher(Score(q, "factual"), Score(q, "relational"))
           c == Score(q, "conversational")
<1>2. a \in 0..Whole /\ b \in 0..Whole /\ c \in 0..Whole
  BY <1>1 DEF Signals, Higher
<1>3. RuleBased(q) = CASE c >= Threshold -> Selection("working", c)
                       [] c < Threshold /\ a >= Threshold -> Selection("short_term", a)
                       [] c < Threshold /\ a < Threshold /\ b >= Threshold -> Selection("long_term", b)
                       [] OTHER -> Selection("hybrid", 2 * Tenth)
  BY DEF RuleBased
<1> HIDE DEF a, b, c
<1>4. \A l \in LayerNames, n \in Tenth..Whole : Selection(l, n) \in Selections
  BY Shares DEF Selection, Selections
<1>5. {"working", "short_term", "long_term", "hybrid"} \subseteq LayerNames
  BY DEF LayerNames
<1>6. /\ a >= Threshold => a \in Tenth..Whole
      /\ b >= Threshold => b \in Tenth..Whole
      /\ c >= Threshold => c \in Tenth..Whole
      /\ 2 * Tenth \in Tenth..Whole
  BY <1>2, Shares
<1>7. QED
  BY <1>3, <1>4, <1>5, <1>6

\* The candidates answer a selection at the baseline or above it.
LEMMA QueryBasedIs ==
  ASSUME NEW q \in [Signals -> Nat]
  PROVE  QueryBased(q) \in Selections /\ QueryBased(q).confidence >= Threshold
<1> DEFINE v == Candidate(q)
<1>1. /\ Score(q, "temporal") \in 0..Whole /\ Score(q, "experiential") \in 0..Whole
      /\ Score(q, "factual") \in 0..Whole /\ Score(q, "relational") \in 0..Whole
      /\ Score(q, "conversational") \in 0..Whole
  BY ScoreIs DEF Signals
<1>2. v["working"] \in 0..2 * Whole
  <2>1. v["working"] = (Score(q, "conversational") * 12) \div 10
    BY DEF Candidate
  <2> HIDE DEF v
  <2>2. \A x \in 0..Whole : (x * 12) \div 10 \in 0..2 * Whole
    BY Shares
  <2>3. QED
    BY <1>1, <2>1, <2>2
<1>3. v["short_term"] \in 0..2 * Whole
  <2>1. v["short_term"] = Score(q, "temporal") + Score(q, "experiential")
    BY DEF Candidate
  <2> HIDE DEF v
  <2>2. \A x, y \in 0..Whole : x + y \in 0..2 * Whole
    BY Shares
  <2>3. QED
    BY <1>1, <2>1, <2>2
<1>a. v["long_term"] \in 0..2 * Whole
  <2>1. v["long_term"] = Score(q, "factual") + Score(q, "relational")
    BY DEF Candidate
  <2> HIDE DEF v
  <2>2. \A x, y \in 0..Whole : x + y \in 0..2 * Whole
    BY Shares
  <2>3. QED
    BY <1>1, <2>1, <2>2
<1>b. v["hybrid"] = Threshold
  BY Shares DEF Candidate
<1> HIDE DEF v
<1>d. Threshold \in 0..2 * Whole
  BY Shares
<1>4. \A l \in LayerNames : v[l] \in 0..2 * Whole
  BY <1>2, <1>3, <1>a, <1>b, <1>d DEF LayerNames
<1>c. 2 * Whole \in Nat
  BY Shares
<1>5. PICK i \in 1..4 : IsFirstMax(Layers, v, i) /\ FirstMax(Layers, v) = Layers[i]
  <2> DEFINE bound == 2 * Whole
  <2>1. bound \in Nat /\ \A l \in LayerNames : v[l] \in 0..bound
    BY <1>4, <1>c
  <2> HIDE DEF bound
  <2>2. QED
    BY <2>1, FirstLayerIs
<1>6. v[Layers[i]] >= Threshold /\ v[Layers[i]] \in 0..2 * Whole
  BY <1>4, <1>b, <1>5, LayersAre DEF IsFirstMax
<1>7. QueryBased(q) = Selection(Layers[i], Lower(v[Layers[i]], Whole))
  BY <1>5 DEF QueryBased, v
<1>8. Lower(v[Layers[i]], Whole) \in Threshold..Whole
  <2>1. \A x \in 0..2 * Whole : x >= Threshold => Lower(x, Whole) \in Threshold..Whole
    BY Shares DEF Lower
  <2>2. QED
    BY <1>6, <2>1
<1>e. \A x \in Threshold..Whole : x \in Tenth..Whole /\ x >= Threshold
  BY Shares
<1>9. QED
  BY <1>7, <1>8, <1>e, LayersAre DEF Selection, Selections

\* The heuristic answers a selection.
LEMMA HeuristicIs ==
  ASSUME NEW q \in [Signals -> Nat]
  PROVE  Heuristic(q) \in Selections
BY Shares DEF Heuristic, Signals, Selection, Selections, LayerNames

\* The learned answer is the first of the layers with the most results, with its
\* share of them for a confidence.
LEMMA LearnedIs ==
  ASSUME NEW of \in [LayerNames -> Nat], LearnedSum(of) # 0
  PROVE  /\ LearnedSum(of) \in Nat \ {0}
         /\ Learned(of) \in Selections
         /\ \E i \in 1..4 : /\ IsFirstMax(Layers, of, i) /\ Learned(of).layer = Layers[i]
                            /\ of[Layers[i]] <= LearnedSum(of)
                            /\ Learned(of).confidence = Share(of[Layers[i]], LearnedSum(of))
<1> DEFINE sum == LearnedSum(of)
<1>1. /\ sum \in Nat \ {0} /\ \A l \in LayerNames : of[l] \in 0..sum
      /\ sum = of["working"] + of["short_term"] + of["long_term"] + of["hybrid"]
  BY DEF LearnedSum, LayerNames
<1> HIDE DEF sum
<1>2. PICK i \in 1..4 : IsFirstMax(Layers, of, i) /\ FirstMax(Layers, of) = Layers[i]
  BY <1>1, FirstLayerIs
<1> DEFINE a == of[Layers[i]]
<1>3. a \in Nat /\ a <= sum
  BY <1>1, <1>2, LayersAre
<1>4. sum <= 4 * a
  <2>1. \A l \in LayerNames : of[l] <= a
    BY <1>2, LayersAre DEF IsFirstMax, LayerNames
  <2>2. \A l \in LayerNames : of[l] \in Nat
    BY <1>1
  <2> HIDE DEF a
  <2>3. QED
    BY <1>1, <1>3, <2>1, <2>2 DEF LayerNames
<1>5. Learned(of) = Selection(Layers[i], Share(a, sum))
  BY <1>2 DEF Learned, sum
<1> HIDE DEF a
<1>6. Share(a, sum) \in 2 * Tenth..Whole
  <2>1. Share(a, sum) \in 0..Whole
    BY <1>1, <1>3, ShareIs
  <2>2. (2 * Tenth) * sum <= a * Whole /\ a * Whole \in Nat
    <3>1. Tenth * sum <= Tenth * (4 * a)
      BY <1>1, <1>3, <1>4, Shares
    <3>2. Tenth * sum \in Nat /\ Tenth * a \in Nat /\ Tenth * (4 * a) = 4 * (Tenth * a)
          /\ (2 * Tenth) * sum = 2 * (Tenth * sum) /\ a * Whole = 10 * (Tenth * a)
      BY <1>1, <1>3, Shares
    <3>3. QED
      BY <3>1, <3>2
  <2>3. 2 * Tenth <= Share(a, sum)
    <3>1. 2 * Tenth \in Nat
      BY Shares
    <3>2. QED
      BY <1>1, <2>2, <3>1, Quotient DEF Share
  <2>4. QED
    BY <2>1, <2>3, Shares
<1>7. Learned(of) \in Selections
  <2>1. Share(a, sum) \in Tenth..Whole
    BY <1>6, Shares
  <2>2. QED
    BY <1>5, <2>1, LayersAre DEF Selection, Selections
<1>8. Learned(of).layer = Layers[i] /\ Learned(of).confidence = Share(a, sum)
  BY <1>5 DEF Selection
<1>9. QED
  BY <1>1, <1>2, <1>3, <1>7, <1>8 DEF a, sum

\* More results for a layer: an answer that changes goes to that layer; the
\* answer for that layer gets surer, any other no surer.
Rises(p, r, l) ==
  /\ r.layer \in {p.layer, l}
  /\ p.layer = l => r.layer = l /\ r.confidence >= p.confidence
  /\ p.layer # l /\ r.layer = p.layer => r.confidence <= p.confidence

\* A report raises the learned share of its layer, and no other layer gets ahead.
LEMMA LearnedRises ==
  ASSUME NEW of \in [LayerNames -> Nat], LearnedSum(of) # 0, NEW l \in LayerNames, NEW n \in Nat
  PROVE  /\ LearnedSum([of EXCEPT ![l] = of[l] + n]) # 0
         /\ Rises(Learned(of), Learned([of EXCEPT ![l] = of[l] + n]), l)
<1> DEFINE new == [of EXCEPT ![l] = of[l] + n]
<1>1. /\ new \in [LayerNames -> Nat] /\ new[l] = of[l] + n
      /\ \A h \in LayerNames : h # l => new[h] = of[h]
      /\ LearnedSum(new) = LearnedSum(of) + n /\ LearnedSum(of) \in Nat \ {0}
  BY DEF LearnedSum, LayerNames
<1> HIDE DEF new
<1>2. PICK i \in 1..4 : /\ IsFirstMax(Layers, of, i) /\ Learned(of).layer = Layers[i]
                        /\ of[Layers[i]] <= LearnedSum(of)
                        /\ Learned(of).confidence = Share(of[Layers[i]], LearnedSum(of))
  BY LearnedIs
<1>3. PICK j \in 1..4 : /\ IsFirstMax(Layers, new, j) /\ Learned(new).layer = Layers[j]
                        /\ Learned(new).confidence = Share(new[Layers[j]], LearnedSum(new))
  <2>1. LearnedSum(new) # 0
    BY <1>1
  <2>2. QED
    BY <1>1, <2>1, LearnedIs
<1>4. \A h \in 1..4 : of[Layers[h]] \in Nat /\ new[Layers[h]] \in Nat
  BY <1>1, LayersAre
<1>5. ASSUME Layers[j] # l PROVE j = i
  <2>1. /\ \A h \in 1..4 : of[Layers[h]] <= new[Layers[h]]
        /\ new[Layers[j]] = of[Layers[j]]
    BY <1>1, <1>5, LayersAre
  <2>2. /\ \A h \in 1..4 : new[Layers[h]] <= new[Layers[j]]
        /\ \A h \in 1..j - 1 : new[Layers[h]] < new[Layers[j]]
        /\ \A h \in 1..4 : of[Layers[h]] <= of[Layers[i]]
        /\ \A h \in 1..i - 1 : of[Layers[h]] < of[Layers[i]]
    BY <1>2, <1>3, LayersAre DEF IsFirstMax
  <2>3. ~(i < j)
    <3>1. CASE i < j
      <4>1. new[Layers[i]] < new[Layers[j]] /\ of[Layers[j]] <= of[Layers[i]]
        BY <2>2, <3>1
      <4>2. QED
        BY <1>4, <2>1, <4>1
    <3>2. QED
      BY <3>1
  <2>4. ~(j < i)
    <3>1. CASE j < i
      <4>1. of[Layers[j]] < of[Layers[i]] /\ new[Layers[i]] <= new[Layers[j]]
        BY <2>2, <3>1
      <4>2. QED
        BY <1>4, <2>1, <4>1
    <3>2. QED
      BY <3>1
  <2>5. QED
    BY <2>3, <2>4
<1>6. ASSUME Layers[i] = l PROVE j = i
  <2>1. CASE Layers[j] = l
    BY <1>6, <2>1, LayersAre
  <2>2. QED
    BY <1>5, <2>1
<1> DEFINE a == of[Layers[i]]
           sum == LearnedSum(of)
<1>7. a \in Nat /\ sum \in Nat \ {0} /\ a <= sum
  BY <1>1, <1>2, <1>4
<1> HIDE DEF a, sum
<1>8. Share(a, sum) <= Share(a + n, sum + n) /\ Share(a, sum + n) <= Share(a, sum)
  BY <1>7, ShareMoves
<1>9. /\ Layers[i] = l => Learned(new).confidence = Share(a + n, sum + n)
      /\ Layers[i] # l /\ j = i => Learned(new).confidence = Share(a, sum + n)
      /\ Learned(of).confidence = Share(a, sum)
  BY <1>1, <1>2, <1>3, <1>6, LayersAre DEF a, sum
<1>10. Share(a, sum) \in Int /\ Share(a + n, sum + n) \in Int /\ Share(a, sum + n) \in Int
  <2>1. a + n \in Nat /\ sum + n \in Nat \ {0} /\ a + n <= sum + n /\ a <= sum + n
    BY <1>7
  <2>2. \A x \in 0..Whole : x \in Int
    OBVIOUS
  <2>3. QED
    BY <1>7, <2>1, <2>2, ShareIs
<1>11. Rises(Learned(of), Learned(new), l)
  <2>1. Learned(new).layer \in {Learned(of).layer, l}
    BY <1>2, <1>3, <1>5
  <2>2. ASSUME Learned(of).layer = l
        PROVE  Learned(new).layer = l /\ Learned(new).confidence >= Learned(of).confidence
    BY <1>2, <1>3, <1>6, <1>8, <1>9, <1>10, <2>2
  <2>3. ASSUME Learned(of).layer # l, Learned(new).layer = Learned(of).layer
        PROVE  Learned(new).confidence <= Learned(of).confidence
    BY <1>2, <1>3, <1>5, <1>8, <1>9, <1>10, <2>3
  <2>4. QED
    BY <2>1, <2>2, <2>3 DEF Rises
<1>12. LearnedSum(new) # 0
  BY <1>1
<1>13. QED
  BY <1>11, <1>12 DEF new

\* The first results learned: all of them are the layer's.
LEMMA FirstRises ==
  ASSUME NEW of \in [LayerNames -> Nat], LearnedSum(of) = 0, NEW l \in LayerNames,
         NEW n \in Nat \ {0}, NEW p \in Selections
  PROVE  /\ LearnedSum([of EXCEPT ![l] = of[l] + n]) # 0
         /\ Rises(p, Learned([of EXCEPT ![l] = of[l] + n]), l)
<1> DEFINE new == [of EXCEPT ![l] = of[l] + n]
<1>1. \A h \in LayerNames : of[h] = 0
  <2>1. /\ of["working"] \in Nat /\ of["short_term"] \in Nat /\ of["long_term"] \in Nat
        /\ of["hybrid"] \in Nat
    BY DEF LayerNames
  <2>2. of["working"] + of["short_term"] + of["long_term"] + of["hybrid"] = 0
    BY DEF LearnedSum
  <2>3. of["working"] = 0 /\ of["short_term"] = 0 /\ of["long_term"] = 0 /\ of["hybrid"] = 0
    <3> DEFINE a == of["working"]
               b == of["short_term"]
               c == of["long_term"]
               d == of["hybrid"]
    <3>1. a \in Nat /\ b \in Nat /\ c \in Nat /\ d \in Nat /\ a + b + c + d = 0
      BY <2>1, <2>2
    <3>2. a = 0 /\ b = 0 /\ c = 0 /\ d = 0
      <4> HIDE DEF a, b, c, d
      <4>1. QED
        BY <3>1
    <3>3. QED
      BY <3>2
  <2>4. QED
    BY <2>3 DEF LayerNames
<1>2. /\ new \in [LayerNames -> Nat] /\ new[l] = n
      /\ \A h \in LayerNames : h # l => new[h] = 0
  BY <1>1
<1> HIDE DEF new
<1>3. LearnedSum(new) = n
  BY <1>2 DEF LearnedSum, LayerNames
<1>4. PICK j \in 1..4 : /\ IsFirstMax(Layers, new, j) /\ Learned(new).layer = Layers[j]
                        /\ Learned(new).confidence = Share(new[Layers[j]], LearnedSum(new))
  BY <1>2, <1>3, LearnedIs
<1>5. Layers[j] = l
  <2>1. \E h \in 1..4 : Layers[h] = l
    BY LayersAre DEF LayerNames
  <2>2. new[l] <= new[Layers[j]]
    BY <1>4, <2>1, LayersAre DEF IsFirstMax
  <2>3. QED
    BY <1>2, <2>2, LayersAre
<1>6. Share(n, n) \in 0..Whole /\ Whole <= Share(n, n)
  <2>1. Share(n, n) \in 0..Whole
    BY ShareIs
  <2>2. Whole * n <= n * Whole /\ n * Whole \in Nat
    BY Shares
  <2>3. QED
    BY <2>1, <2>2, Quotient, Shares DEF Share
<1>7. Learned(new).layer = l /\ Learned(new).confidence >= p.confidence
  BY <1>2, <1>3, <1>4, <1>5, <1>6, Shares DEF Selections
<1>8. QED
  BY <1>3, <1>7 DEF Rises, new

-----------------------------------------------------------------------------
(* The vote.                                                               *)

\* Votes come from a good answer of the query-based selector at least, so that
\* the best layer's are a tenth of all there can be, and no more than all.
LEMMA VotedIs ==
  ASSUME NEW r \in Selections, NEW k \in Selections, k.confidence >= Threshold,
         NEW p \in Selections
  PROVE  /\ \A l \in LayerNames : Votes(r, k, p)[l] \in Nat
         /\ Voted(r, k, p) \in Selections
         /\ \E i \in 1..3 :
              /\ IsFirstMax(<<r.layer, k.layer, p.layer>>, Votes(r, k, p), i)
              /\ Voted(r, k, p).layer = <<r.layer, k.layer, p.layer>>[i]
<1> DEFINE v == Votes(r, k, p)
           keys == <<r.layer, k.layer, p.layer>>
           bound == 14 * Whole
<1>1. /\ r.layer \in LayerNames /\ k.layer \in LayerNames /\ p.layer \in LayerNames
      /\ r.confidence \in Nat /\ r.confidence <= Whole
      /\ k.confidence \in Nat /\ k.confidence <= Whole
      /\ p.confidence \in Nat /\ p.confidence <= Whole
  BY Shares DEF Selections
<1>2. ASSUME NEW l \in LayerNames
      PROVE  v[l] \in 0..bound /\ (l = k.layer => v[l] >= 5 * Threshold)
  <2>1. v[l] = Vote(r, l, 5) + Vote(k, l, 5) + Vote(p, l, 4)
    BY DEF Votes
  <2>2. /\ Vote(r, l, 5) \in Nat /\ Vote(r, l, 5) <= 5 * Whole
        /\ Vote(k, l, 5) \in Nat /\ Vote(k, l, 5) <= 5 * Whole
        /\ Vote(p, l, 4) \in Nat /\ Vote(p, l, 4) <= 4 * Whole
    BY <1>1, Shares DEF Vote
  <2>3. l = k.layer => Vote(k, l, 5) >= 5 * Threshold
    BY <1>1, Shares DEF Vote
  <2> HIDE DEF v
  <2>4. QED
    BY <2>1, <2>2, <2>3, Shares
<1> HIDE DEF v
<1>3. DOMAIN keys = 1..3 /\ \A j \in 1..3 : keys[j] \in LayerNames
  BY <1>1
<1>4. keys[2] = k.layer
  OBVIOUS
<1> HIDE DEF keys
<1>5. PICK i \in 1..3 : IsFirstMax(keys, v, i) /\ FirstMax(keys, v) = keys[i]
  <2> DEFINE n == 3
  <2>1. bound \in Nat /\ n \in Nat \ {0} /\ DOMAIN keys = 1..n /\ \A j \in 1..n : v[keys[j]] \in 0..bound
    BY <1>2, <1>3, Shares
  <2> HIDE DEF n, bound
  <2>2. \E i \in 1..n : IsFirstMax(keys, v, i) /\ FirstMax(keys, v) = keys[i]
    BY <2>1, FirstMaxIs
  <2>3. QED
    BY <2>2 DEF n
<1> DEFINE top == v[keys[i]]
<1>6. top >= 5 * Threshold /\ top \in 0..bound
  <2>1. v[keys[2]] <= top
    BY <1>3, <1>5 DEF IsFirstMax
  <2>2. v[keys[2]] >= 5 * Threshold /\ v[keys[2]] \in 0..bound
    BY <1>1, <1>2, <1>4
  <2>3. top \in 0..bound
    BY <1>2, <1>3
  <2> HIDE DEF top
  <2>4. QED
    BY <2>1, <2>2, <2>3, Shares
<1>7. Voted(r, k, p) = Selection(keys[i], top \div 14)
  BY <1>5 DEF Voted, v, keys
<1> HIDE DEF top
<1>8. top \div 14 \in Tenth..Whole
  BY <1>6, Shares
<1>9. Voted(r, k, p) \in Selections /\ Voted(r, k, p).layer = keys[i]
  BY <1>3, <1>7, <1>8 DEF Selection, Selections
<1>10. \A l \in LayerNames : v[l] \in Nat
  BY <1>2, Shares
<1>11. QED
  BY <1>5, <1>9, <1>10 DEF v, keys

\* A vote for a layer stays one for it when the third voter rises to it.
LEMMA VotedRises ==
  ASSUME NEW r \in Selections, NEW k \in Selections, k.confidence >= Threshold,
         NEW p \in Selections, NEW new \in Selections, NEW l \in LayerNames,
         Rises(p, new, l), Voted(r, k, p).layer = l
  PROVE  Voted(r, k, new).layer = l
<1> DEFINE v == Votes(r, k, p)
           w == Votes(r, k, new)
           keys == <<r.layer, k.layer, p.layer>>
           news == <<r.layer, k.layer, new.layer>>
<1>1. /\ \A h \in LayerNames : v[h] \in Nat /\ w[h] \in Nat
      /\ \E i \in 1..3 : IsFirstMax(keys, v, i) /\ keys[i] = l
  <2>1. /\ \A h \in LayerNames : v[h] \in Nat
        /\ \E i \in 1..3 : IsFirstMax(keys, v, i) /\ Voted(r, k, p).layer = keys[i]
    BY VotedIs
  <2>2. \A h \in LayerNames : w[h] \in Nat
    BY VotedIs
  <2> HIDE DEF v, w, keys
  <2>3. QED
    BY <2>1, <2>2
<1>2. Voted(r, k, new).layer = FirstMax(news, w)
  BY DEF Voted, Selection
<1>3. w[l] >= v[l] /\ \A h \in LayerNames : h # l => w[h] <= v[h]
  <2>1. /\ r.confidence \in Nat /\ k.confidence \in Nat
        /\ p.confidence \in Nat /\ new.confidence \in Nat
    BY Shares DEF Selections
  <2>2. \A s \in Selections, h \in LayerNames : Vote(s, h, 5) \in Nat /\ Vote(s, h, 4) \in Nat
    BY Shares DEF Selections, Vote
  <2>3. \A h \in LayerNames : /\ v[h] = Vote(r, h, 5) + Vote(k, h, 5) + Vote(p, h, 4)
                              /\ w[h] = Vote(r, h, 5) + Vote(k, h, 5) + Vote(new, h, 4)
    BY DEF Votes
  <2>4. Vote(new, l, 4) >= Vote(p, l, 4)
    BY <2>1 DEF Vote, Rises
  <2>5. ASSUME NEW h \in LayerNames, h # l PROVE Vote(new, h, 4) <= Vote(p, h, 4)
    BY <2>1, <2>5 DEF Vote, Rises
  <2> HIDE DEF v, w
  <2>6. w[l] >= v[l]
    BY <2>2, <2>3, <2>4
  <2>7. ASSUME NEW h \in LayerNames, h # l PROVE w[h] <= v[h]
    <3>1. Vote(new, h, 4) <= Vote(p, h, 4)
      BY <2>5, <2>7
    <3>2. QED
      BY <2>2, <2>3, <3>1
  <2>8. QED
    BY <2>6, <2>7
<1>4. /\ DOMAIN keys = 1..3 /\ DOMAIN news = 1..3
      /\ \A j \in 1..3 : keys[j] \in LayerNames /\ news[j] \in LayerNames
      /\ \A j \in 1..3 : j < 3 => news[j] = keys[j]
      /\ news[3] = keys[3] \/ news[3] = l
      /\ keys[3] = l => news[3] = l
  BY DEF Selections, Rises
<1> HIDE DEF v, w, keys, news
<1>5. PICK i \in 1..3 : IsFirstMax(keys, v, i) /\ keys[i] = l
  BY <1>1
<1>6. news[i] = l
  BY <1>4, <1>5
<1>7. ASSUME NEW j \in 1..3 PROVE w[news[j]] <= w[l]
  <2>1. v[keys[j]] <= v[l] /\ v[keys[j]] \in Nat /\ v[l] \in Nat /\ w[l] \in Nat
    BY <1>1, <1>4, <1>5 DEF IsFirstMax
  <2>2. news[j] = keys[j] \/ news[j] = l
    BY <1>4
  <2>3. CASE news[j] = keys[j] /\ keys[j] # l
    <3>1. w[keys[j]] <= v[keys[j]] /\ w[keys[j]] \in Nat /\ w[l] >= v[l]
      BY <1>1, <1>3, <1>4, <2>3
    <3>2. QED
      BY <2>1, <2>3, <3>1
  <2>4. CASE news[j] = l
    BY <2>1, <2>4
  <2>5. QED
    BY <2>2, <2>3, <2>4
<1>8. ASSUME NEW j \in 1..i - 1 PROVE w[news[j]] < w[l]
  <2>1. j \in 1..3 /\ j < 3 /\ v[keys[j]] < v[l] /\ v[keys[j]] \in Nat /\ v[l] \in Nat
    BY <1>1, <1>4, <1>5 DEF IsFirstMax
  <2>2. news[j] = keys[j] /\ keys[j] # l /\ keys[j] \in LayerNames
    BY <1>4, <2>1
  <2>3. w[keys[j]] <= v[keys[j]] /\ w[keys[j]] \in Nat /\ w[l] >= v[l] /\ w[l] \in Nat
    BY <1>1, <1>3, <2>2
  <2>4. QED
    BY <2>1, <2>2, <2>3
<1>9. IsFirstMax(news, w, i)
  BY <1>4, <1>6, <1>7, <1>8 DEF IsFirstMax
<1>10. FirstMax(news, w) = news[i]
  <2> DEFINE n == 3
  <2>1. n \in Nat /\ DOMAIN news = 1..n /\ \A j \in 1..n : w[news[j]] \in Nat
    BY <1>1, <1>4
  <2> HIDE DEF n
  <2>2. QED
    BY <1>9, <2>1, FirstMaxOnly
<1>11. QED
  BY <1>2, <1>6, <1>10

-----------------------------------------------------------------------------
(* The selector.                                                           *)

\* The information need is one of the five.
LEMMA NeedIs ==
  ASSUME NEW q \in [Signals -> Nat]
  PROVE  Need(q) \in Signals
<1> DEFINE n == 5
           keys == Order
<1>1. n \in Nat \ {0} /\ DOMAIN keys = 1..n /\ \A j \in 1..n : keys[j] \in Signals
  BY DEF Order, Signals
<1>2. Total(q) \in Nat /\ \A s \in Signals : q[s] \in 0..Total(q)
  BY DEF Total, Signals
<1> HIDE DEF n, keys
<1>3. \A j \in 1..n : q[keys[j]] \in 0..Total(q)
  BY <1>1, <1>2
<1>4. FirstMax(keys, q) \in Signals
  <2> DEFINE bound == Total(q)
  <2>1. bound \in Nat /\ \A j \in 1..n : q[keys[j]] \in 0..bound
    BY <1>2, <1>3
  <2> HIDE DEF bound
  <2>2. \E i \in 1..n : IsFirstMax(keys, q, i) /\ FirstMax(keys, q) = keys[i]
    BY <1>1, <2>1, FirstMaxIs
  <2>3. QED
    BY <1>1, <2>2
<1>5. "factual" \in Signals
  BY DEF Signals
<1>6. QED
  BY <1>4, <1>5 DEF Need, keys

\* What is analysed of a query.
LEMMA AnalysedIs ==
  ASSUME NEW q \in Queries
  PROVE  /\ q \in [Signals -> Nat]
         /\ Analysed[q].need \in Signals /\ Analysed[q].rule \in Selections
         /\ Analysed[q].query \in Selections /\ Analysed[q].query.confidence >= Threshold
<1>1. q \in [Signals -> Nat]
  BY SelectorAssumption
<1>2. Analysed[q] = [need |-> Need(q), rule |-> RuleBased(q), query |-> QueryBased(q)]
  BY DEF Analysed
<1>3. QED
  BY <1>1, <1>2, NeedIs, RuleBasedIs, QueryBasedIs

\* Learned or heuristic, the pattern-based answer is a selection.
LEMMA PatternBasedIs ==
  ASSUME SelectorTypeOK, NEW q \in Queries
  PROVE  PatternBased(q) \in Selections
<1> DEFINE of == patterns[Analysed[q].need]
<1>1. of \in [LayerNames -> Nat]
  <2>1. of \in [LayerNames -> 0..MaxLearned]
    BY AnalysedIs DEF SelectorTypeOK
  <2> HIDE DEF of
  <2>2. QED
    BY <2>1, SelectorAssumption
<1>2. PatternBased(q) = IF query_count + 1 <= 5 \/ LearnedSum(of) = 0 THEN Heuristic(q)
                                                                      ELSE Learned(of)
  BY DEF PatternBased
<1> HIDE DEF of
<1>3. QED
  BY <1>1, <1>2, AnalysedIs, HeuristicIs, LearnedIs

\* Whatever the algorithm, its answer is a selection, and sure enough to be the
\* selector's.
LEMMA FreshIs ==
  ASSUME SelectorTypeOK, NEW q \in Queries
  PROVE  Fresh(q) \in Selections /\ Fresh(q) = Chosen(q)
<1>1. Analysed[q].rule \in Selections /\ Analysed[q].query \in Selections
  BY AnalysedIs
<1>2. PatternBased(q) \in Selections
  BY PatternBasedIs
<1>3. Voting(q) \in Selections
  BY <1>2, AnalysedIs, VotedIs DEF Voting
<1>4. Fallback \in Selections
  BY Shares DEF Fallback, Selection, Selections, LayerNames
<1>5. Chosen(q) \in Selections
  BY <1>1, <1>2, <1>3, <1>4 DEF SelectorTypeOK, Algorithms, Chosen
<1>6. ~(Chosen(q).confidence < Tenth)
  BY <1>5, Shares DEF Selections
<1>7. QED
  BY <1>5, <1>6 DEF Fresh

\* The same, of the next state.
LEMMA FreshIsNext ==
  SelectorTypeOK'
    => (\A q \in Queries : Fresh(q) = Chosen(q) /\ PatternBased(q) \in Selections)'
<1>1. SelectorTypeOK
        => \A q \in Queries : Fresh(q) = Chosen(q) /\ PatternBased(q) \in Selections
  BY FreshIs, PatternBasedIs
<1>2. QED
  BY <1>1, PTL

SelectorInv == SelectorTypeOK /\ StaleOnlyByLearning

\* The invariant holds at the start.
LEMMA SelectorStarts == SelectorInit => SelectorInv
BY SelectorAssumption
   DEF SelectorInit, SelectorInv, SelectorTypeOK, StaleOnlyByLearning, Algorithms, Learning,
       NoPatterns, NoCache

\* What a report changes is the sum of one need's layer.
LEMMA Reported ==
  ASSUME SelectorTypeOK, NEW n \in Counts, RecordOutcome(n)
  PROVE  LET need == Analysed[answer.query].need
             l == answer.selection.layer
             of == patterns[need]
         IN  /\ need \in Signals /\ l \in LayerNames /\ n \in Nat
             /\ of \in [LayerNames -> Nat] /\ LearnedSum(of) + n <= MaxLearned
             /\ \/ patterns' = patterns
                \/ patterns' = [patterns EXCEPT ![need] = [of EXCEPT ![l] = of[l] + n]]
<1> DEFINE need == Analysed[answer.query].need
           l == answer.selection.layer
           of == patterns[need]
<1>1. answer.query \in Queries /\ answer.selection \in Selections
  BY DEF RecordOutcome, SelectorTypeOK
<1>2. need \in Signals /\ l \in LayerNames /\ n \in Nat
  BY <1>1, AnalysedIs, SelectorAssumption DEF Selections
<1>3. of \in [LayerNames -> Nat]
  <2> HIDE DEF need
  <2>1. of \in [LayerNames -> 0..MaxLearned]
    BY <1>2 DEF SelectorTypeOK
  <2> HIDE DEF of
  <2>2. QED
    BY <2>1, SelectorAssumption
<1>4. LearnedSum(of) + n <= MaxLearned
  BY DEF RecordOutcome
<1>5. patterns' \in {patterns, LearnedAlso(need, l, n)}
  BY DEF RecordOutcome
<1>6. LearnedAlso(need, l, n) = [patterns EXCEPT ![need] = [of EXCEPT ![l] = of[l] + n]]
  BY DEF LearnedAlso
<1>7. QED
  BY <1>2, <1>3, <1>4, <1>5, <1>6

\* Every action of the selector keeps it.
LEMMA SelectorKept == SelectorInv /\ [SelectorNext]_selectorVars => SelectorInv'
<1> SUFFICES ASSUME SelectorInv, [SelectorNext]_selectorVars PROVE SelectorInv'
  OBVIOUS
<1>0. /\ SelectorTypeOK /\ StaleOnlyByLearning
      /\ algorithm \in Algorithms /\ query_count \in 0..6 /\ outcomes \in 0..MaxOutcomes
      /\ patterns \in [Signals -> [LayerNames -> 0..MaxLearned]]
      /\ cache \in [Queries -> Selections \cup {NoSelection}]
      /\ answer # NoSelection => answer.query \in Queries /\ answer.selection \in Selections
  BY DEF SelectorInv, SelectorTypeOK
<1>1. /\ NoPatterns \in [Signals -> [LayerNames -> 0..MaxLearned]]
      /\ NoCache \in [Queries -> Selections \cup {NoSelection}]
      /\ \A q \in Queries : NoCache[q] = NoSelection
  BY SelectorAssumption DEF NoPatterns, NoCache
\* Where nothing is learned the answers are as before.
<1>2. ASSUME algorithm' = algorithm, algorithm \notin Learning, NEW q \in Queries
      PROVE  Fresh(q)' = Fresh(q)
  BY <1>0, <1>2 DEF Fresh, Chosen, Algorithms, Learning
<1>3. ASSUME NEW q \in Queries, SelectCached(q) PROVE SelectorInv'
  <2>1. /\ answer' = [query |-> q, selection |-> cache[q]] /\ cache[q] \in Selections
        /\ UNCHANGED <<algorithm, patterns, query_count, cache, outcomes>>
    BY <1>0, <1>3 DEF SelectCached, Answered
  <2>2. SelectorTypeOK'
    BY <1>0, <2>1 DEF SelectorTypeOK
  <2>3. StaleOnlyByLearning'
    BY <1>0, <1>2, <2>1 DEF StaleOnlyByLearning
  <2>4. QED
    BY <2>2, <2>3 DEF SelectorInv
<1>4. ASSUME NEW q \in Queries, Select(q) PROVE SelectorInv'
  <2>1. /\ answer' = [query |-> q, selection |-> Fresh(q)] /\ Fresh(q) \in Selections
        /\ cache' = [cache EXCEPT ![q] = Fresh(q)]
        /\ query_count' = IF algorithm \in Learning THEN Lower(query_count + 1, 6) ELSE query_count
        /\ UNCHANGED <<algorithm, patterns, outcomes>>
    BY <1>0, <1>4, FreshIs DEF Select, Answered
  <2>2. query_count' \in 0..6
    BY <1>0, <2>1 DEF Lower
  <2>3. SelectorTypeOK'
    BY <1>0, <2>1, <2>2 DEF SelectorTypeOK
  <2>4. ASSUME algorithm' \notin Learning, NEW p \in Queries
        PROVE  cache'[p] \in {NoSelection, Fresh(p)'}
    <3>1. Fresh(p)' = Fresh(p)
      BY <1>2, <2>1, <2>4
    <3>2. cache[p] \in {NoSelection, Fresh(p)}
      BY <1>0, <2>1, <2>4 DEF StaleOnlyByLearning
    <3>3. QED
      BY <1>0, <2>1, <3>1, <3>2
  <2>5. QED
    BY <2>3, <2>4 DEF SelectorInv, StaleOnlyByLearning
<1>5. ASSUME NEW a \in Algorithms, SetAlgorithm(a) PROVE SelectorInv'
  <2>1. /\ algorithm' = a /\ cache' = NoCache /\ patterns' = NoPatterns /\ query_count' = 0
        /\ UNCHANGED <<answer, outcomes>>
    BY <1>5 DEF SetAlgorithm
  <2>2. QED
    BY <1>0, <1>1, <2>1 DEF SelectorInv, SelectorTypeOK, StaleOnlyByLearning
<1>6. ASSUME NEW n \in Counts, RecordOutcome(n) PROVE SelectorInv'
  <2> DEFINE need == Analysed[answer.query].need
             l == answer.selection.layer
             of == patterns[need]
             new == [of EXCEPT ![l] = of[l] + n]
  <2>1. /\ need \in Signals /\ l \in LayerNames /\ n \in Nat
        /\ of \in [LayerNames -> Nat] /\ LearnedSum(of) + n <= MaxLearned
        /\ patterns' = patterns \/ patterns' = [patterns EXCEPT ![need] = new]
    BY <1>0, <1>6, Reported
  <2>2. /\ outcomes' \in 0..MaxOutcomes
        /\ UNCHANGED <<algorithm, query_count, cache, answer>>
    BY <1>0, <1>6, SelectorAssumption DEF RecordOutcome
  <2> HIDE DEF need, l, of
  <2>3. new \in [LayerNames -> 0..MaxLearned]
    <3>1. new \in [LayerNames -> Nat]
      BY <2>1
    <3>2. ASSUME NEW h \in LayerNames PROVE new[h] <= LearnedSum(of) + n
      <4>1. of[h] <= LearnedSum(of) /\ LearnedSum(of) \in Nat
        BY <2>1 DEF LearnedSum, LayerNames
      <4>2. new[h] <= of[h] + n
        BY <2>1
      <4>3. of[h] \in Nat /\ new[h] \in Nat
        BY <2>1, <3>1
      <4> HIDE DEF new
      <4>4. QED
        BY <2>1, <4>1, <4>2, <4>3
    <3>3. LearnedSum(of) \in Nat
      BY <2>1 DEF LearnedSum, LayerNames
    <3> HIDE DEF new
    <3>4. \A h \in LayerNames : new[h] \in 0..MaxLearned
      BY <2>1, <3>1, <3>2, <3>3, SelectorAssumption
    <3>5. QED
      BY <3>1, <3>4
  <2> HIDE DEF new
  <2>4. patterns' \in [Signals -> [LayerNames -> 0..MaxLearned]]
    BY <1>0, <2>1, <2>3
  <2>5. StaleOnlyByLearning'
    BY <1>0, <1>2, <2>2 DEF StaleOnlyByLearning
  <2>6. QED
    BY <1>0, <2>2, <2>4, <2>5 DEF SelectorInv, SelectorTypeOK
<1>7. CASE ClearCache
  BY <1>0, <1>1, <1>7 DEF ClearCache, SelectorInv, SelectorTypeOK, StaleOnlyByLearning
<1>8. CASE Reset
  BY <1>0, <1>1, <1>8, SelectorAssumption
     DEF Reset, SelectorInv, SelectorTypeOK, StaleOnlyByLearning
<1>9. CASE ForgetPatterns
  BY <1>0, <1>1, <1>9 DEF ForgetPatterns, SelectorInv, SelectorTypeOK, StaleOnlyByLearning
<1>10. CASE UNCHANGED selectorVars
  <2>1. UNCHANGED <<algorithm, patterns, query_count, cache, answer, outcomes>>
    BY <1>10 DEF selectorVars
  <2>2. SelectorTypeOK'
    BY <1>0, <2>1 DEF SelectorTypeOK
  <2>3. StaleOnlyByLearning'
    BY <1>0, <1>2, <2>1 DEF StaleOnlyByLearning
  <2>4. QED
    BY <2>2, <2>3 DEF SelectorInv
<1>11. QED
  BY <1>3, <1>4, <1>5, <1>6, <1>7, <1>8, <1>9, <1>10 DEF SelectorNext

\* A report takes no query of the need away from the layer it is about.
LEMMA ReportTurnsNoneAway ==
  ASSUME SelectorInv, SelectorInv', NEW n \in Counts, RecordOutcome(n), NEW q \in Queries,
         Analysed[q].need = Analysed[answer.query].need,
         Fresh(q).layer = answer.selection.layer
  PROVE  Fresh(q)'.layer = answer.selection.layer
<1> DEFINE need == Analysed[answer.query].need
           l == answer.selection.layer
           of == patterns[need]
           new == [of EXCEPT ![l] = of[l] + n]
           r == Analysed[q].rule
           k == Analysed[q].query
           p == PatternBased(q)
           p2 == PatternBased(q)'
<1>1. /\ need \in Signals /\ l \in LayerNames /\ n \in Nat /\ of \in [LayerNames -> Nat]
      /\ patterns' = patterns \/ patterns' = [patterns EXCEPT ![need] = new]
  BY Reported DEF SelectorInv
<1>2. UNCHANGED <<algorithm, query_count>> /\ algorithm \in Algorithms
  BY DEF RecordOutcome, SelectorInv, SelectorTypeOK
<1>3. Fresh(q) = Chosen(q) /\ Fresh(q)' = Chosen(q)'
  BY FreshIs, FreshIsNext DEF SelectorInv
<1>4. p \in Selections /\ p2 \in Selections
  BY PatternBasedIs, FreshIsNext DEF SelectorInv
<1>5. r \in Selections /\ k \in Selections /\ k.confidence >= Threshold
  BY AnalysedIs
<1>6. p2 = p \/ Rises(p, p2, l)
  <2>1. CASE patterns' = patterns
    BY <1>2, <2>1 DEF PatternBased
  <2>2. CASE patterns' = [patterns EXCEPT ![need] = new]
    <3>1. patterns'[need] = new
      BY <1>1, <2>2 DEF SelectorInv, SelectorTypeOK
    <3>2. /\ p = IF query_count + 1 <= 5 \/ LearnedSum(of) = 0 THEN Heuristic(q) ELSE Learned(of)
          /\ p2 = IF query_count + 1 <= 5 \/ LearnedSum(new) = 0 THEN Heuristic(q) ELSE Learned(new)
      BY <1>2, <3>1 DEF PatternBased
    <3>3. Heuristic(q) \in Selections
      BY AnalysedIs, HeuristicIs
    <3> HIDE DEF need, l, of, p, p2
    <3>4. CASE LearnedSum(of) # 0
      BY <1>1, <3>2, <3>4, LearnedRises
    <3>5. CASE LearnedSum(of) = 0 /\ n # 0
      <4>1. n \in Nat \ {0}
        BY <1>1, <3>5
      <4>2. LearnedSum(new) # 0 /\ Rises(Heuristic(q), Learned(new), l)
        BY <1>1, <3>3, <3>5, <4>1, FirstRises
      <4>3. QED
        BY <3>2, <3>5, <4>2
    <3>6. CASE n = 0
      <4>1. new = of
        BY <1>1, <3>6
      <4>2. QED
        BY <3>2, <4>1
    <3>7. QED
      BY <3>4, <3>5, <3>6
  <2>3. QED
    BY <1>1, <2>1, <2>2
<1>7. CASE algorithm = "pattern_based"
  <2>1. Fresh(q) = p /\ Fresh(q)' = p2
    BY <1>2, <1>3, <1>7 DEF Chosen
  <2> HIDE DEF p, p2, l
  <2>2. p.layer = l
    BY <2>1 DEF l
  <2>3. p2.layer = l
    BY <1>6, <2>2 DEF Rises
  <2>4. QED
    BY <2>1, <2>3 DEF l
<1>8. CASE algorithm = "hybrid"
  <2>1. Fresh(q) = Voted(r, k, p) /\ Fresh(q)' = Voted(r, k, p2)
    BY <1>2, <1>3, <1>8 DEF Chosen, Voting
  <2> HIDE DEF p, p2, l, r, k
  <2>2. Voted(r, k, p).layer = l
    BY <2>1 DEF l
  <2>3. Voted(r, k, p2).layer = l
    BY <1>1, <1>4, <1>5, <1>6, <2>2, VotedRises
  <2>4. QED
    BY <2>1, <2>3 DEF l
<1>9. CASE algorithm \notin Learning
  <2>1. Chosen(q)' = Chosen(q)
    BY <1>2, <1>9 DEF Chosen, Algorithms, Learning
  <2>2. QED
    BY <1>3, <2>1
<1>10. QED
  BY <1>7, <1>8, <1>9 DEF Learning

\* Confidences are within 0.1 and 1.0 whichever algorithm answers, and a cached
\* selection differs from what the algorithm would answer now only where the
\* algorithm learns (AutoSelector.select); a report of results turns no query of
\* its need away from the layer it is about (SelectionOptimizer.record_outcome).
THEOREM SelectionAlwaysSound == SelectorSpec => []SelectorTypeOK /\ SelectionSound
<1>1. SelectorInv => SelectorTypeOK /\ StaleOnlyByLearning
  BY DEF SelectorInv
<1>2. ASSUME SelectorInv, SelectorInv', [SelectorNext]_selectorVars
      PROVE  [outcomes' = outcomes + 1 =>
                \A q \in Queries :
                  Analysed[q].need = Analysed[answer.query].need
                  /\ Fresh(q).layer = answer.selection.layer
                    => Fresh(q)'.layer = answer.selection.layer]_selectorVars
  <2> SUFFICES ASSUME outcomes' = outcomes + 1, NEW q \in Queries,
                      Analysed[q].need = Analysed[answer.query].need,
                      Fresh(q).layer = answer.selection.layer
               PROVE  Fresh(q)'.layer = answer.selection.layer
    OBVIOUS
  <2>1. outcomes' # outcomes /\ outcomes' # 0
    BY <1>2 DEF SelectorInv, SelectorTypeOK
  <2>2. PICK n \in Counts : RecordOutcome(n)
    BY <1>2, <2>1 DEF SelectorNext, selectorVars, SelectCached, Select, SetAlgorithm, ClearCache,
                      Reset, ForgetPatterns
  <2>3. QED
    BY <1>2, <2>2, ReportTurnsNoneAway
<1>3. QED
  BY SelectorStarts, SelectorKept, <1>1, <1>2, PTL
     DEF SelectorSpec, SelectionSound, ResultsNeverTurnAway

-----------------------------------------------------------------------------
(* Queries that fan out: what a call returns.                              *)

\* QueriesTypeOK, with the shapes of the call and of what it has collected, and
\* how the three sets of items lie while the call is open.
Progress == {"queued", "episodic", "semantic", "done", "failed"}
TaskRecords == [text : Texts \cup {Joined}, type : AskedTypes, pc : Progress, found : Seq(Items)]
CallRecords == [kind : Kinds, text : Texts \cup {Joined}, ranking : Rankings,
                types : Seq(AskedTypes), limit : Nat,
                status : {"none", "open", "returned", "raised"}, result : Seq(Items)]

Collected == /\ call \in CallRecords /\ tasks \in Seq(TaskRecords)
             /\ lists \in Seq(DOMAIN tasks) /\ IsInjective(lists)

QueriesTypes ==
  /\ Collected
  /\ memory \in SUBSET Items /\ changes \in 0..MaxChanges
  /\ tasks = <<>> => Len(call.types) = 0
  /\ \A n \in DOMAIN lists : tasks[lists[n]].pc = "done"
  /\ throughout \subseteq ever /\ ever \subseteq Items
  /\ call.status = "open" => throughout \subseteq memory /\ memory \subseteq ever

\* A query that runs has a caller who waits for it, and outside the pool runs
\* alone; when one has failed there, none runs any more.
OneByOne ==
  /\ NothingLeftRunning
  /\ call.kind \notin Pooled =>
       \A k, l \in DOMAIN tasks : Running(k) /\ Running(l) => k = l
  /\ call.kind \notin Pooled \cup Skipping /\ Failed => \A k \in DOMAIN tasks : ~Running(k)

\* What a query has found was in memory and matches; what it has read it has
\* found, as far as it was in memory all along.
Has(k, type) == tasks[k].pc = "done" \/ (tasks[k].pc = "semantic" /\ type = "episodic")
Asks(k, type) == tasks[k].type \in {type, "both"}
FoundRight(k) ==
  /\ Running(k) => Asks(k, tasks[k].pc)
  /\ \A i \in Range(tasks[k].found) : i \in ever /\ tasks[k].text \in i.words
  /\ \A i \in throughout :
       /\ tasks[k].text \in i.words /\ Asks(k, TypeOf(i)) /\ Has(k, TypeOf(i))
       => i \in Range(tasks[k].found)

AllFoundRight == \A k \in DOMAIN tasks : FoundRight(k)

CallInv == QueriesTypes /\ OneByOne /\ AllFoundRight /\ SteadyItemsFound /\ ResultSound

\* A finite set of items has a list of them by falling time: the order of the
\* times, and among equal times that of any numbering, is a strict order.
LEMMA NewestLists ==
  ASSUME NEW S \in SUBSET Items
  PROVE  /\ Newest(S) \in Seq(Items)
         /\ Range(Newest(S)) = S
<1> DEFINE n == Cardinality(S)
           Sorts(s) == \A k, l \in DOMAIN s : k < l => s[k] # s[l] /\ s[k].ts >= s[l].ts
<1>1. IsFiniteSet(S) /\ n \in Nat /\ \A x \in S : x.ts \in Nat
  BY ItemsAssumption, FS_Subset, FS_CardinalityType
<1>2. PICK b \in Bijection(1..n, S) : TRUE
  BY <1>1, FS_CardinalityType DEF ExistsBijection
<1>3. b \in [1..n -> S] /\ \A x \in S : \E k \in 1..n : b[k] = x
  BY <1>2 DEF Bijection, Surjection
<1> DEFINE number == [x \in S |-> CHOOSE k \in 1..n : b[k] = x]
           R == {p \in S \X S : p[1].ts > p[2].ts
                                \/ (p[1].ts = p[2].ts /\ number[p[1]] < number[p[2]])}
<1>4. ASSUME NEW x \in S PROVE number[x] \in 1..n /\ b[number[x]] = x
  BY <1>3
<1>5. \A x, y \in S : <<x, y>> \in R <=> x.ts > y.ts \/ (x.ts = y.ts /\ number[x] < number[y])
  OBVIOUS
<1>6. \A x \in S : number[x] \in Nat
  BY <1>1, <1>4
<1>7. \A x, y \in S : number[x] = number[y] => x = y
  BY <1>4
<1> HIDE DEF R, number
<1>8. ASSUME NEW x \in S PROVE <<x, x>> \notin R
  <2>1. <<x, x>> \in R <=> x.ts > x.ts \/ (x.ts = x.ts /\ number[x] < number[x])
    BY <1>5
  <2>2. x.ts \in Nat /\ number[x] \in Nat
    BY <1>1, <1>6
  <2>3. QED
    BY <2>1, <2>2
<1>9. ASSUME NEW x \in S, NEW y \in S PROVE x = y \/ <<x, y>> \in R \/ <<y, x>> \in R
  <2>1. /\ x.ts \in Nat /\ number[x] \in Nat
        /\ y.ts \in Nat /\ number[y] \in Nat
    BY <1>1, <1>6
  <2>2. x.ts > y.ts \/ y.ts > x.ts \/ x.ts = y.ts
    BY <2>1
  <2>3. number[x] < number[y] \/ number[y] < number[x] \/ number[x] = number[y]
    BY <2>1
  <2>4. QED
    BY <1>5, <1>7, <2>2, <2>3
<1>10. \A x, y, z \in S : <<x, y>> \in R /\ <<y, z>> \in R => <<x, z>> \in R
  BY <1>1, <1>5, <1>6
<1>11. PICK s \in [1..n -> S] : \A k, l \in 1..n : k < l => <<s[k], s[l]>> \in R
  BY <1>1, <1>8, <1>9, <1>10, Sortable
<1>12. Sorts(s)
  <2>1. ASSUME NEW k \in 1..n, NEW l \in 1..n, k < l PROVE s[k] # s[l] /\ s[k].ts >= s[l].ts
    <3>1. <<s[k], s[l]>> \in R /\ s[k] \in S /\ s[l] \in S
      BY <1>11, <2>1
    <3>2. QED
      BY <1>1, <1>5, <1>8, <3>1
  <2>2. QED
    BY <1>11, <2>1
<1>13. Newest(S) \in [1..n -> S] /\ Sorts(Newest(S))
  <2>1. Newest(S) = CHOOSE found \in [1..n -> S] : Sorts(found)
    BY DEF Newest
  <2> HIDE DEF Sorts
  <2>2. QED
    BY <1>11, <1>12, <2>1
<1>14. Range(Newest(S)) = S
  BY <1>1, <1>13, ListingCovers
<1>15. Newest(S) \in Seq(Items)
  BY <1>1, <1>13
<1>16. QED
  BY <1>14, <1>15
\* A place is in a list of a query's results, and holds an item.
LEMMA PlacesKnown ==
  ASSUME Collected, NEW p \in Places
  PROVE  /\ p = <<p[1], p[2]>>
         /\ p[1] \in DOMAIN lists /\ lists[p[1]] \in DOMAIN tasks
         /\ p[2] \in DOMAIN tasks[lists[p[1]]].found
         /\ p[1] \in Nat /\ p[2] \in Nat
         /\ ItemAt(p) \in Items /\ ItemAt(p) \in Range(tasks[lists[p[1]]].found)
<1>1. PICK n \in DOMAIN lists : p \in {n} \X DOMAIN tasks[lists[n]].found
  BY DEF Places
<1>2. /\ p = <<p[1], p[2]>> /\ p[1] = n
      /\ p[2] \in DOMAIN tasks[lists[n]].found
  BY <1>1
<1>3. lists[n] \in DOMAIN tasks /\ n \in Nat
  BY <1>1 DEF Collected
<1>4. tasks[lists[n]].found \in Seq(Items)
  <2>1. tasks[lists[n]] \in TaskRecords
    BY <1>3 DEF Collected
  <2>2. QED
    BY <2>1 DEF TaskRecords
<1>5. p[2] \in Nat /\ tasks[lists[n]].found[p[2]] \in Items
  BY <1>2, <1>4
<1>6. QED
  BY <1>1, <1>2, <1>3, <1>5 DEF ItemAt, Range

LEMMA PlacesFinite ==
  ASSUME Collected
  PROVE  IsFiniteSet(Places)
<1> DEFINE D == [n \in DOMAIN lists |-> DOMAIN tasks[lists[n]].found]
           S == UNION {D[n] : n \in DOMAIN lists}
<1>1. \A n \in DOMAIN lists : D[n] = 1..Len(tasks[lists[n]].found) /\ Len(tasks[lists[n]].found) \in Nat
  BY DEF Collected, TaskRecords
<1>2. \A n \in DOMAIN lists : IsFiniteSet(D[n])
  BY <1>1, FS_Interval
<1>3. IsFiniteSet(DOMAIN lists)
  <2>1. DOMAIN lists = 1..Len(lists) /\ 1 \in Int /\ Len(lists) \in Int
    BY DEF Collected
  <2>2. QED
    BY <2>1, FS_Interval
<1> HIDE DEF D
<1>4. IsFiniteSet({D[n] : n \in DOMAIN lists})
  BY <1>3, FiniteValues
<1>5. IsFiniteSet(S)
  BY <1>2, <1>4, FS_UNION
<1>6. IsFiniteSet((DOMAIN lists) \X S)
  BY <1>3, <1>5, FS_Product
<1>7. Places \subseteq (DOMAIN lists) \X S
  BY DEF Places, D
<1>8. QED
  BY <1>6, <1>7, FS_Subset

\* Places are ordered.
LEMMA EarlierOrders ==
  ASSUME Collected
  PROVE  /\ \A p \in Places : ~Earlier(p, p)
         /\ \A p, q \in Places : p = q \/ Earlier(p, q) \/ Earlier(q, p)
         /\ \A p, q, r \in Places : Earlier(p, q) /\ Earlier(q, r) => Earlier(p, r)
<1>1. \A p \in Places : p = <<p[1], p[2]>> /\ p[1] \in Nat /\ p[2] \in Nat
  BY PlacesKnown
<1>2. QED
  BY <1>1 DEF Earlier

\* Every item has a first place of its id, which is merged.
LEMMA MergedCovers ==
  ASSUME Collected, NEW p \in Places
  PROVE  \E q \in Merged : ItemAt(q).id = ItemAt(p).id
<1> DEFINE P == {q \in Places : ItemAt(q).id = ItemAt(p).id}
           N == {q[1] : q \in P}
<1>1. \A q \in Places : q = <<q[1], q[2]>> /\ q[1] \in Nat /\ q[2] \in Nat
  BY PlacesKnown
<1>2. N \in SUBSET Nat /\ N # {}
  BY <1>1
<1>3. PICK n \in N : \A m \in N : n <= m
  BY <1>2, Least
<1> DEFINE K == {q[2] : q \in {q \in P : q[1] = n}}
<1>4. K \in SUBSET Nat /\ K # {}
  BY <1>1, <1>3
<1>5. PICK k \in K : \A m \in K : k <= m
  BY <1>4, Least
<1>6. PICK q \in P : q[1] = n /\ q[2] = k
  BY <1>5
<1>7. ASSUME NEW r \in Places, Earlier(r, q), ItemAt(r).id = ItemAt(q).id PROVE FALSE
  <2>1. r \in P /\ r[1] \in N /\ n <= r[1]
    BY <1>3, <1>6, <1>7
  <2>2. CASE r[1] = n
    <3>1. r[2] \in K /\ k <= r[2]
      BY <1>5, <2>1, <2>2
    <3>2. QED
      BY <1>1, <1>4, <1>6, <1>7, <2>2, <3>1 DEF Earlier
  <2>3. QED
    BY <1>1, <1>2, <1>6, <1>7, <2>1, <2>2 DEF Earlier
<1>8. QED
  BY <1>6, <1>7 DEF Merged

\* No two merged places have one id.
LEMMA MergedApart ==
  ASSUME Collected, NEW p \in Merged, NEW q \in Merged, p # q
  PROVE  ItemAt(p).id # ItemAt(q).id
BY EarlierOrders DEF Merged

LEMMA RankIsNumber ==
  ASSUME Collected, NEW p \in Places
  PROVE  RankAt(p) \in Int
<1> DEFINE i == ItemAt(p)
           boost == IF call.kind = "sequential" /\ p[1] = 1 THEN 10 ELSE 0
<1>1. i.relevance \in Nat /\ i.ts \in Nat /\ i.source \in DOMAIN Priority
  BY PlacesKnown, ItemsAssumption
<1>2. Priority[i.source] \in Nat
  BY <1>1 DEF Priority
<1>3. boost \in Nat
  OBVIOUS
<1> HIDE DEF i, boost
<1>4. \A n \in Nat : Capped(n) \in Nat
  BY DEF Capped
<1>5. TextRelevance(i, boost, call.text) \in Nat
  <2>1. i.relevance + boost \in Nat
    BY <1>1, <1>3
  <2>2. Capped(i.relevance + boost) \in Nat
    BY <1>4, <2>1
  <2>3. Capped(Capped(i.relevance + boost) + 30) \in Nat
    <3>1. Capped(i.relevance + boost) + 30 \in Nat
      BY <2>2
    <3>2. QED
      BY <1>4, <3>1
  <2>4. Capped(i.relevance + boost) \div 2 \in Nat
    BY <2>2
  <2>5. QED
    BY <2>3, <2>4 DEF TextRelevance
<1>6. Rank(i, boost) \in Int
  <2>1. call.ranking \in Rankings
    BY DEF Collected, CallRecords
  <2>2. 100 * i.relevance + i.ts \in Int
    BY <1>1
  <2>3. 1000 * Priority[i.source] + Capped(i.relevance + boost) \in Int
    <3>1. Capped(i.relevance + boost) \in Nat
      BY <1>1, <1>3, <1>4
    <3>2. QED
      BY <1>2, <3>1
  <2>4. TextRelevance(i, boost, call.text) + Priority[i.source] \in Int
    BY <1>2, <1>5
  <2>5. i.ts \in Int
    BY <1>1
  <2>6. QED
    BY <2>1, <2>2, <2>3, <2>4, <2>5 DEF Rank, Rankings
<1>7. QED
  BY <1>6 DEF RankAt, i, boost

\* Ranking lists the merged places, each once.
LEMMA SortedLists ==
  ASSUME Collected
  PROVE  /\ Cardinality(Merged) \in Nat
         /\ Sorted \in [1..Cardinality(Merged) -> Merged]
         /\ \A m, n \in DOMAIN Sorted : m # n => Sorted[m] # Sorted[n]
         /\ Range(Sorted) = Merged
<1> DEFINE n == Cardinality(Merged)
           R == {p \in Merged \X Merged : Better(p[1], p[2])}
           Sorts(s) == \A k, l \in DOMAIN s : k < l => Better(s[k], s[l])
<1>1. IsFiniteSet(Merged) /\ n \in Nat
  BY PlacesFinite, FS_Subset, FS_CardinalityType DEF Merged
<1>2. \A p, q \in Merged : <<p, q>> \in R <=> Better(p, q)
  OBVIOUS
<1>3. \A p \in Merged : p \in Places /\ RankAt(p) \in Int
  BY RankIsNumber DEF Merged
<1> HIDE DEF R
<1>4. \A p \in Merged : ~Better(p, p)
  <2>1. ASSUME NEW p \in Merged PROVE ~Better(p, p)
    <3>1. ~Earlier(p, p) /\ RankAt(p) \in Int
      BY <1>3, EarlierOrders
    <3>2. ~(RankAt(p) > RankAt(p))
      BY <3>1
    <3>3. QED
      BY <3>1, <3>2 DEF Better
  <2>2. QED
    BY <2>1
<1>5. ASSUME NEW p \in Merged, NEW q \in Merged PROVE p = q \/ Better(p, q) \/ Better(q, p)
  <2>1. RankAt(p) > RankAt(q) \/ RankAt(q) > RankAt(p) \/ RankAt(p) = RankAt(q)
    BY <1>3
  <2>2. p = q \/ Earlier(p, q) \/ Earlier(q, p)
    BY <1>3, EarlierOrders
  <2>3. QED
    BY <2>1, <2>2 DEF Better
<1>6. ASSUME NEW p \in Merged, NEW q \in Merged, NEW r \in Merged, Better(p, q), Better(q, r)
      PROVE  Better(p, r)
  <2>1. Earlier(p, q) /\ Earlier(q, r) => Earlier(p, r)
    BY <1>3, EarlierOrders
  <2>2. RankAt(p) \in Int /\ RankAt(q) \in Int /\ RankAt(r) \in Int
    BY <1>3
  <2>3. QED
    BY <1>6, <2>1, <2>2 DEF Better
<1>7. PICK s \in [1..n -> Merged] : \A k, l \in 1..n : k < l => <<s[k], s[l]>> \in R
  BY <1>1, <1>2, <1>4, <1>5, <1>6, Sortable
<1>8. Sorts(s)
  BY <1>2, <1>7
<1>9. Sorted \in [1..n -> Merged] /\ Sorts(Sorted)
  <2>1. Sorted = CHOOSE order \in [1..n -> Merged] : Sorts(order)
    BY DEF Sorted
  <2> HIDE DEF Sorts
  <2>2. QED
    BY <1>7, <1>8, <2>1
<1>10. \A k, l \in 1..n : k < l => Sorted[k] # Sorted[l]
  <2>1. ASSUME NEW k \in 1..n, NEW l \in 1..n, k < l PROVE Sorted[k] # Sorted[l]
    BY <1>4, <1>9, <2>1
  <2>2. QED
    BY <2>1
<1>11. \A k, l \in 1..n : k # l => Sorted[k] # Sorted[l]
  BY <1>1, <1>10
<1>12. Range(Sorted) = Merged
  BY <1>1, <1>9, <1>10, ListingCovers
<1>13. QED
  BY <1>1, <1>9, <1>11, <1>12
\* What Ranked returns: items of the lists, none of two with one id, all ids of
\* the lists or as many as the limit lets through.
LEMMA RankedHolds ==
  ASSUME Collected
  PROVE  /\ Ranked \in Seq(Items)
         /\ \A n \in DOMAIN Ranked : \E p \in Places : Ranked[n] = ItemAt(p)
         /\ \A m, n \in DOMAIN Ranked : m # n => Ranked[m].id # Ranked[n].id
         /\ call.limit > 0 => Len(Ranked) <= call.limit
         /\ \A p \in Places : \/ \E n \in DOMAIN Ranked : Ranked[n].id = ItemAt(p).id
                              \/ (call.limit > 0 /\ Len(Ranked) = call.limit)
<1> DEFINE count == Cardinality(Merged)
           size == IF call.limit \in 1..count THEN call.limit ELSE count
<1>1. call.limit \in Nat /\ count \in Nat /\ size \in 0..count
  BY SortedLists DEF Collected, CallRecords
<1>2. Ranked = [n \in 1..size |-> ItemAt(Sorted[n])]
  BY DEF Ranked
<1>3. \A n \in 1..size : n \in 1..count /\ Sorted[n] \in Merged /\ Sorted[n] \in Places
  BY <1>1, SortedLists DEF Merged
<1>4. size > 0 /\ call.limit > 0 => size <= call.limit
  BY <1>1
<1>5. call.limit > 0 => size <= call.limit
  BY <1>1
<1>6. size = count \/ (call.limit > 0 /\ size = call.limit)
  BY <1>1
<1> HIDE DEF size
<1>7. DOMAIN Ranked = 1..size /\ \A n \in 1..size : Ranked[n] = ItemAt(Sorted[n])
  BY <1>2
<1>8. Ranked \in Seq(Items) /\ Len(Ranked) = size
  <2>1. \A n \in 1..size : ItemAt(Sorted[n]) \in Items
    BY <1>3, PlacesKnown
  <2>2. size \in Nat
    BY <1>1
  <2>3. QED
    BY <1>2, <2>1, <2>2
<1>9. \A n \in DOMAIN Ranked : \E p \in Places : Ranked[n] = ItemAt(p)
  BY <1>3, <1>7
<1>10. ASSUME NEW m \in DOMAIN Ranked, NEW n \in DOMAIN Ranked, m # n
       PROVE  Ranked[m].id # Ranked[n].id
  <2>1. m \in 1..size /\ n \in 1..size /\ m \in 1..count /\ n \in 1..count
    BY <1>3, <1>7, <1>10
  <2>2. Sorted[m] # Sorted[n] /\ Sorted[m] \in Merged /\ Sorted[n] \in Merged
    BY <1>3, <1>10, <2>1, SortedLists
  <2>3. QED
    BY <1>7, <2>1, <2>2, MergedApart
<1>11. ASSUME NEW p \in Places, size = count
       PROVE  \E n \in DOMAIN Ranked : Ranked[n].id = ItemAt(p).id
  <2>1. PICK q \in Merged : ItemAt(q).id = ItemAt(p).id
    BY MergedCovers
  <2>2. PICK n \in 1..count : Sorted[n] = q
    BY SortedLists DEF Range
  <2>3. QED
    BY <1>7, <1>11, <2>1, <2>2
<1>12. QED
  BY <1>5, <1>6, <1>8, <1>9, <1>10, <1>11

-----------------------------------------------------------------------------
(* Queries that fan out: the steps.                                        *)

LEMMA QueriesStart == QueriesInit => CallInv
<1> SUFFICES ASSUME QueriesInit PROVE CallInv
  OBVIOUS
<1> USE DEF QueriesInit, NoCall
<1>1. Collected
  <2>1. call \in CallRecords
    BY DEF CallRecords, Kinds, Rankings
  <2>2. tasks \in Seq(TaskRecords) /\ lists \in Seq(DOMAIN tasks) /\ IsInjective(lists)
    BY DEF IsInjective
  <2>3. QED
    BY <2>1, <2>2 DEF Collected
<1>2. QueriesTypes
  <2>1. 0 \in 0..MaxChanges
    BY CallsAssumption
  <2>2. QED
    BY <1>1, <2>1 DEF QueriesTypes
<1>3. DOMAIN tasks = {} /\ call.status = "none"
  OBVIOUS
<1>4. OneByOne /\ AllFoundRight
  BY <1>3 DEF OneByOne, NothingLeftRunning, AllFoundRight
<1>5. SteadyItemsFound /\ ResultSound
  BY <1>3 DEF SteadyItemsFound, ResultSound
<1>6. QED
  BY <1>2, <1>4, <1>5 DEF CallInv

\* Nothing is claimed of the result of a call that has not returned.
LEMMA NotReturned ==
  ASSUME call.status # "returned"
  PROVE  SteadyItemsFound /\ ResultSound
BY DEF SteadyItemsFound, ResultSound

\* A call begins with its queries queued.
LEMMA BeginQueues ==
  ASSUME CallInv, NEW c \in Calls, Begin(c)
  PROVE  /\ tasks' \in Seq(TaskRecords) /\ (tasks' = <<>> => Len(call'.types) = 0)
         /\ \A k \in DOMAIN tasks' : tasks'[k].pc = "queued" /\ tasks'[k].found = <<>>
         /\ call' \in CallRecords /\ call'.status = "open"
<1> DEFINE asked == {n \in DOMAIN c.types : c.kind \in Hopping => n = 1}
           count == IF c.kind \in Hopping /\ Len(c.types) > 0 THEN 1 ELSE Len(c.types)
<1>1. /\ c \in [kind : Kinds, text : Texts, ranking : Rankings, types : Seq(AskedTypes),
               limit : Nat, status : {"none"}, result : {<<>>}]
  BY CallsAssumption
<1>2. c.types \in Seq(AskedTypes) /\ DOMAIN c.types = 1..Len(c.types) /\ Len(c.types) \in Nat
  BY <1>1
<1>3. asked = 1..count /\ count \in Nat /\ (count = 0 => Len(c.types) = 0)
  BY <1>2
<1>4. tasks' = [n \in asked |-> Task(c.text, c.types[n])]
  BY DEF Begin
<1>5. \A n \in asked : Task(c.text, c.types[n]) \in TaskRecords
  <2>1. \A n \in asked : c.types[n] \in AskedTypes
    BY <1>2
  <2>2. c.text \in Texts /\ "queued" \in Progress /\ <<>> \in Seq(Items)
    BY <1>1 DEF Progress
  <2>3. QED
    BY <2>1, <2>2 DEF Task, TaskRecords
<1>6. call' = [c EXCEPT !.status = "open"]
  BY DEF Begin
<1>7. call' \in CallRecords /\ call'.status = "open" /\ call'.types = c.types
  <2>1. call' \in [kind : Kinds, text : Texts, ranking : Rankings, types : Seq(AskedTypes),
                  limit : Nat, status : {"open"}, result : {<<>>}]
    BY <1>1, <1>6
  <2>2. call'.status = "open" /\ call'.types = c.types
    BY <1>1, <1>6
  <2>3. \A r \in {<<>>} : r \in Seq(Items)
    OBVIOUS
  <2>4. QED
    BY <2>1, <2>2, <2>3 DEF CallRecords
<1> HIDE DEF asked, count
<1>8. tasks' \in Seq(TaskRecords) /\ Len(tasks') = count
  BY <1>3, <1>4, <1>5
<1>9. \A k \in DOMAIN tasks' : tasks'[k].pc = "queued" /\ tasks'[k].found = <<>>
  BY <1>4 DEF Task
<1>10. tasks' = <<>> => Len(c.types) = 0
  BY <1>3, <1>8
<1>11. QED
  BY <1>7, <1>8, <1>9, <1>10

LEMMA BeginKeeps ==
  ASSUME CallInv, NEW c \in Calls, Begin(c)
  PROVE  CallInv'
<1>1. /\ lists' = <<>> /\ throughout' = memory /\ ever' = memory
      /\ memory' = memory /\ changes' = changes
  BY DEF Begin
<1>2. QueriesTypes'
  <2>1. lists' \in Seq(DOMAIN tasks') /\ IsInjective(lists') /\ DOMAIN lists' = {}
    BY <1>1 DEF IsInjective
  <2>2. Collected'
    BY <2>1, BeginQueues DEF Collected
  <2>3. memory \in SUBSET Items /\ changes \in 0..MaxChanges
    BY DEF CallInv, QueriesTypes
  <2>4. QED
    BY <1>1, <2>1, <2>2, <2>3, BeginQueues DEF QueriesTypes
<1>3. \A k \in DOMAIN tasks' : ~Running(k)' /\ tasks'[k].pc = "queued" /\ tasks'[k].found = <<>>
  BY BeginQueues DEF Running
<1>4. OneByOne'
  BY <1>3 DEF OneByOne, NothingLeftRunning
<1>5. AllFoundRight'
  <2>1. ASSUME NEW k \in DOMAIN tasks' PROVE FoundRight(k)'
    <3>1. Range(tasks'[k].found) = {}
      BY <1>3 DEF Range
    <3>2. \A type : ~Has(k, type)'
      BY <1>3 DEF Has
    <3>3. QED
      BY <1>3, <3>1, <3>2 DEF FoundRight
  <2>2. QED
    BY <2>1 DEF AllFoundRight
<1>6. SteadyItemsFound' /\ ResultSound'
  BY BeginQueues DEF SteadyItemsFound, ResultSound
<1>7. QED
  BY <1>2, <1>4, <1>5, <1>6 DEF CallInv

LEMMA CollectKeeps ==
  ASSUME CallInv, NEW k \in DOMAIN tasks, Collect(k)
  PROVE  CallInv'
<1>1. /\ lists' = Append(lists, k) /\ k \notin Range(lists) /\ tasks[k].pc = "done"
      /\ UNCHANGED <<memory, call, tasks, changes, throughout, ever>> /\ call.status = "open"
  BY DEF Collect
<1>2. lists \in Seq(DOMAIN tasks) /\ IsInjective(lists)
  BY DEF CallInv, QueriesTypes, Collected
<1>3. lists' \in Seq(DOMAIN tasks)
  BY <1>1, <1>2
<1> DEFINE end == Len(lists) + 1
<1>4. \A n \in DOMAIN lists' : /\ n = end => lists'[n] = k
                               /\ n # end => n \in DOMAIN lists /\ lists'[n] = lists[n]
  BY <1>1, <1>2
<1> HIDE DEF end
<1>5. IsInjective(lists')
  <2>1. \A n \in DOMAIN lists : lists[n] # k
    BY <1>1 DEF Range
  <2>2. ASSUME NEW m \in DOMAIN lists', NEW n \in DOMAIN lists', lists'[m] = lists'[n]
        PROVE  m = n
    <3>1. CASE m = end /\ n # end
      <4>1. lists'[m] = k /\ n \in DOMAIN lists /\ lists'[n] = lists[n]
        BY <1>4, <3>1
      <4>2. QED
        BY <2>1, <2>2, <4>1
    <3>2. CASE m # end /\ n = end
      <4>1. lists'[n] = k /\ m \in DOMAIN lists /\ lists'[m] = lists[m]
        BY <1>4, <3>2
      <4>2. QED
        BY <2>1, <2>2, <4>1
    <3>3. CASE m # end /\ n # end
      <4>1. m \in DOMAIN lists /\ n \in DOMAIN lists /\ lists[m] = lists[n]
        BY <1>4, <2>2, <3>3
      <4>2. QED
        BY <1>2, <4>1 DEF IsInjective
    <3>4. QED
      BY <3>1, <3>2, <3>3
  <2>3. QED
    BY <2>2 DEF IsInjective
<1>6. \A n \in DOMAIN lists' : tasks'[lists'[n]].pc = "done"
  <2>1. \A n \in DOMAIN lists : tasks[lists[n]].pc = "done"
    BY DEF CallInv, QueriesTypes
  <2>2. QED
    BY <1>1, <1>4, <2>1
<1>7. QueriesTypes'
  <2>1. Collected'
    BY <1>1, <1>3, <1>5 DEF CallInv, QueriesTypes, Collected
  <2>2. QED
    BY <1>1, <1>6, <2>1 DEF CallInv, QueriesTypes
<1>8. OneByOne'
  BY <1>1 DEF CallInv, OneByOne, NothingLeftRunning, Running, Failed
<1>9. AllFoundRight'
  BY <1>1 DEF CallInv, AllFoundRight, FoundRight, Running, Has, Asks
<1>10. SteadyItemsFound' /\ ResultSound'
  BY <1>1 DEF SteadyItemsFound, ResultSound
<1>11. QED
  BY <1>7, <1>8, <1>9, <1>10 DEF CallInv
LEMMA NextTextsKnown ==
  ASSUME QueriesTypes, Len(tasks) \in DOMAIN tasks
  PROVE  NextTexts \subseteq Texts \cup {Joined}
<1> DEFINE latest == tasks[Len(tasks)]
           keys == {latest.found[k].key : k \in DOMAIN latest.found}
<1>1. latest.text \in Texts \cup {Joined} /\ latest.found \in Seq(Items)
  <2>1. latest \in TaskRecords
    BY DEF QueriesTypes, Collected
  <2>2. QED
    BY <2>1 DEF TaskRecords
<1>2. call.text \in Texts \cup {Joined}
  BY DEF QueriesTypes, Collected, CallRecords
<1>3. keys \subseteq Texts
  BY <1>1, ItemsAssumption
<1>4. keys # {} => (CHOOSE key \in keys : TRUE) \in Texts
  BY <1>3
<1>5. Hint(latest.found, call.text) \in Texts \cup {Joined}
  <2>1. Hint(latest.found, call.text) =
          CASE keys = {} -> call.text
            [] Cardinality(keys) = 1 -> CHOOSE key \in keys : TRUE
            [] OTHER -> Joined
    BY DEF Hint
  <2> HIDE DEF keys
  <2>2. CASE keys = {} /\ Cardinality(keys) # 1
    BY <1>2, <2>1, <2>2
  <2>3. CASE keys # {}
    BY <1>4, <2>1, <2>3
  <2>4. keys = {} => Cardinality(keys) # 1
    <3>1. Cardinality({}) = 0
      BY FS_EmptySet
    <3>2. QED
      BY <3>1
  <2>5. QED
    BY <2>2, <2>3, <2>4
<1>6. QED
  BY <1>1, <1>5 DEF NextTexts

LEMMA NextHopKeeps ==
  ASSUME CallInv, NextHop
  PROVE  CallInv'
<1> DEFINE end == Len(tasks) + 1
<1>1. /\ call.status = "open" /\ Len(tasks) < Len(call.types)
      /\ UNCHANGED <<memory, call, lists, changes, throughout, ever>>
  BY DEF NextHop
<1>2. PICK text \in NextTexts : tasks' = Append(tasks, Task(text, call.types[end]))
  BY DEF NextHop
<1>3. /\ tasks \in Seq(TaskRecords) /\ call.types \in Seq(AskedTypes)
      /\ tasks = <<>> => Len(call.types) = 0
  BY DEF CallInv, QueriesTypes, Collected, CallRecords
<1>4. Len(tasks) \in DOMAIN tasks /\ call.types[end] \in AskedTypes
  BY <1>1, <1>3
<1>5. Task(text, call.types[end]) \in TaskRecords
  <2>1. text \in Texts \cup {Joined}
    BY <1>4, NextTextsKnown DEF CallInv
  <2>2. "queued" \in Progress /\ <<>> \in Seq(Items)
    BY DEF Progress
  <2>3. QED
    BY <1>4, <2>1, <2>2 DEF Task, TaskRecords
<1>6. tasks' \in Seq(TaskRecords) /\ DOMAIN tasks \subseteq DOMAIN tasks' /\ tasks' # <<>>
  BY <1>2, <1>3, <1>5
<1>7. \A k \in DOMAIN tasks' :
        \/ k \in DOMAIN tasks /\ tasks'[k] = tasks[k]
        \/ tasks'[k].pc = "queued" /\ tasks'[k].found = <<>>
  <2>1. \A k \in DOMAIN tasks' : \/ k \in DOMAIN tasks /\ tasks'[k] = tasks[k]
                              \/ tasks'[k] = Task(text, call.types[end])
    BY <1>2, <1>3, <1>5
  <2>2. QED
    BY <2>1 DEF Task
<1>8. \A k \in DOMAIN tasks : k \in DOMAIN tasks' /\ tasks'[k] = tasks[k]
  BY <1>2, <1>3, <1>5
<1>9. QueriesTypes'
  <2>1. lists' \in Seq(DOMAIN tasks')
    <3>1. lists \in Seq(DOMAIN tasks)
      BY DEF CallInv, QueriesTypes, Collected
    <3>2. QED
      BY <1>1, <1>6, <3>1
  <2>2. Collected'
    BY <1>1, <1>6, <2>1 DEF CallInv, QueriesTypes, Collected
  <2>3. \A n \in DOMAIN lists' : tasks'[lists'[n]].pc = "done"
    <3>1. \A n \in DOMAIN lists : tasks[lists[n]].pc = "done" /\ lists[n] \in DOMAIN tasks
      BY DEF CallInv, QueriesTypes, Collected
    <3>2. QED
      BY <1>1, <1>8, <3>1
  <2>4. QED
    BY <1>1, <1>6, <2>2, <2>3 DEF CallInv, QueriesTypes
<1>10. OneByOne'
  <2>1. \A k \in DOMAIN tasks' : Running(k)' => k \in DOMAIN tasks /\ Running(k)
    BY <1>7 DEF Running
  <2>2. Failed' => Failed
    BY <1>7 DEF Failed
  <2>3. QED
    BY <1>1, <2>1, <2>2 DEF CallInv, OneByOne, NothingLeftRunning
<1>11. AllFoundRight'
  <2>1. ASSUME NEW k \in DOMAIN tasks' PROVE FoundRight(k)'
    <3>1. CASE k \in DOMAIN tasks /\ tasks'[k] = tasks[k]
      BY <1>1, <3>1 DEF CallInv, AllFoundRight, FoundRight, Running, Has, Asks
    <3>2. CASE tasks'[k].pc = "queued" /\ tasks'[k].found = <<>>
      <4>1. Range(tasks'[k].found) = {}
        BY <3>2 DEF Range
      <4>2. ~Running(k)' /\ \A type : ~Has(k, type)'
        BY <3>2 DEF Running, Has
      <4>3. QED
        BY <4>1, <4>2 DEF FoundRight
    <3>3. QED
      BY <1>7, <3>1, <3>2
  <2>2. QED
    BY <2>1 DEF AllFoundRight
<1>12. SteadyItemsFound' /\ ResultSound'
  BY <1>1 DEF SteadyItemsFound, ResultSound
<1>13. QED
  BY <1>9, <1>10, <1>11, <1>12 DEF CallInv

\* When every query has been collected or passed over, what they have found is
\* the whole of the result.
LEMMA ReturnKeeps ==
  ASSUME CallInv, Return
  PROVE  CallInv'
<1>1. /\ call.status = "open" /\ AllCollected
      /\ call' = [call EXCEPT !.status = "returned", !.result = Ranked]
      /\ UNCHANGED <<memory, tasks, lists, changes, throughout, ever>>
  BY DEF Return
<1>2. Collected
  BY DEF CallInv, QueriesTypes
<1>3. /\ call' \in CallRecords /\ call'.status = "returned" /\ call'.result = Ranked
      /\ call'.limit = call.limit /\ call'.kind = call.kind /\ call'.types = call.types
  <2>1. Ranked \in Seq(Items) /\ call \in CallRecords
    BY <1>2, RankedHolds DEF Collected
  <2>2. QED
    BY <1>1, <2>1 DEF CallRecords
<1>4. QueriesTypes'
  BY <1>1, <1>3 DEF CallInv, QueriesTypes, Collected
<1>5. \A k \in DOMAIN tasks : tasks[k].pc \in {"done", "failed"}
  <2>1. \A k \in DOMAIN tasks : k \in Range(lists) => tasks[k].pc = "done"
    BY DEF CallInv, QueriesTypes, Range
  <2>2. QED
    BY <1>1, <2>1 DEF AllCollected
<1>6. OneByOne'
  <2>1. \A k \in DOMAIN tasks' : ~Running(k)'
    BY <1>1, <1>5 DEF Running
  <2>2. QED
    BY <2>1 DEF OneByOne, NothingLeftRunning
<1>7. AllFoundRight'
  BY <1>1 DEF CallInv, AllFoundRight, FoundRight, Running, Has, Asks
<1>8. SteadyItemsFound'
  <2>1. ASSUME NEW i \in throughout, NEW k \in DOMAIN tasks,
               tasks[k].pc = "done", tasks[k].text \in i.words,
               tasks[k].type \in {TypeOf(i), "both"}
        PROVE  \/ \E n \in DOMAIN Ranked : Ranked[n].id = i.id
               \/ (call.limit > 0 /\ Len(Ranked) = call.limit)
    <3>1. i \in Range(tasks[k].found)
      BY <2>1 DEF CallInv, AllFoundRight, FoundRight, Asks, Has
    <3>2. PICK m \in DOMAIN tasks[k].found : tasks[k].found[m] = i
      BY <3>1 DEF Range
    <3>3. PICK n \in DOMAIN lists : lists[n] = k
      BY <1>1, <2>1 DEF AllCollected, Range
    <3>4. <<n, m>> \in Places
      BY <3>2, <3>3 DEF Places
    <3>5. ItemAt(<<n, m>>) = i
      BY <3>2, <3>3 DEF ItemAt
    <3>6. QED
      BY <1>2, <3>4, <3>5, RankedHolds
  <2>2. QED
    BY <1>1, <1>3, <2>1 DEF SteadyItemsFound
<1>9. ResultSound'
  <2>1. ASSUME NEW n \in DOMAIN Ranked
        PROVE  Ranked[n] \in ever /\ \E k \in DOMAIN tasks : tasks[k].text \in Ranked[n].words
    <3>1. PICK p \in Places : Ranked[n] = ItemAt(p)
      BY <1>2, RankedHolds
    <3>2. lists[p[1]] \in DOMAIN tasks /\ ItemAt(p) \in Range(tasks[lists[p[1]]].found)
      BY <1>2, PlacesKnown
    <3>3. QED
      BY <3>1, <3>2 DEF CallInv, AllFoundRight, FoundRight
  <2>2. /\ \A m, n \in DOMAIN Ranked : m # n => Ranked[m].id # Ranked[n].id
        /\ call.limit > 0 => Len(Ranked) <= call.limit
    BY <1>2, RankedHolds
  <2>3. QED
    BY <1>1, <1>3, <2>1, <2>2 DEF ResultSound
<1>10. QED
  BY <1>4, <1>6, <1>7, <1>8, <1>9 DEF CallInv

LEMMA RaiseKeeps ==
  ASSUME CallInv, Raise
  PROVE  CallInv'
<1>1. /\ call.status = "open" /\ call.kind \notin Skipping /\ Failed
      /\ call.kind \in Pooled => \A k \in DOMAIN tasks : Ended(k)
      /\ call' = [call EXCEPT !.status = "raised"]
      /\ UNCHANGED <<memory, tasks, lists, changes, throughout, ever>>
  BY DEF Raise
<1>2. call' \in CallRecords /\ call'.status = "raised" /\ call'.kind = call.kind /\ call'.types = call.types
  <2>1. call \in CallRecords
    BY DEF CallInv, QueriesTypes, Collected
  <2>2. QED
    BY <1>1, <2>1 DEF CallRecords
<1>3. QueriesTypes'
  BY <1>1, <1>2 DEF CallInv, QueriesTypes, Collected
<1>4. OneByOne'
  <2>1. \A k \in DOMAIN tasks : ~Running(k)
    <3>1. CASE call.kind \in Pooled
      BY <1>1, <3>1 DEF Ended, Running
    <3>2. CASE call.kind \notin Pooled
      BY <1>1, <3>2 DEF CallInv, OneByOne
    <3>3. QED
      BY <3>1, <3>2
  <2>2. QED
    BY <1>1, <2>1 DEF OneByOne, NothingLeftRunning, Running
<1>5. AllFoundRight'
  BY <1>1 DEF CallInv, AllFoundRight, FoundRight, Running, Has, Asks
<1>6. SteadyItemsFound' /\ ResultSound'
  BY <1>2 DEF SteadyItemsFound, ResultSound
<1>7. QED
  BY <1>3, <1>4, <1>5, <1>6 DEF CallInv
\* One query takes a step; the others keep theirs.
LEMMA StepChanges ==
  ASSUME QueriesTypes, NEW k \in DOMAIN tasks, NEW pc, NEW found, Step(k, pc, found)
  PROVE  /\ DOMAIN tasks' = DOMAIN tasks
         /\ tasks'[k].pc = pc /\ tasks'[k].found = found
         /\ tasks'[k].text = tasks[k].text /\ tasks'[k].type = tasks[k].type
         /\ \A l \in DOMAIN tasks : l # k => tasks'[l] = tasks[l]
         /\ pc \in Progress /\ found \in Seq(Items) => tasks' \in Seq(TaskRecords)
<1>1. tasks' = [tasks EXCEPT ![k].pc = pc, ![k].found = found]
  BY DEF Step
<1>2. tasks \in Seq(TaskRecords) /\ tasks[k] \in TaskRecords
  BY DEF QueriesTypes, Collected
<1> DEFINE stepped == [tasks[k] EXCEPT !.pc = pc, !.found = found]
<1>3. tasks' = [tasks EXCEPT ![k] = stepped]
  BY <1>1, <1>2
<1>4. /\ stepped.pc = pc /\ stepped.found = found
      /\ stepped.text = tasks[k].text /\ stepped.type = tasks[k].type
      /\ pc \in Progress /\ found \in Seq(Items) => stepped \in TaskRecords
  BY <1>2 DEF TaskRecords
<1> HIDE DEF stepped
<1>5. DOMAIN tasks' = DOMAIN tasks /\ tasks'[k] = stepped
  BY <1>2, <1>3
<1>6. \A l \in DOMAIN tasks : l # k => tasks'[l] = tasks[l]
  BY <1>2, <1>3
<1>7. stepped \in TaskRecords => tasks' \in Seq(TaskRecords)
  BY <1>2, <1>3
<1>8. QED
  BY <1>4, <1>5, <1>6, <1>7

\* The step of a query keeps the invariant when the query may run, when what it
\* has found was in memory and matches, and when it has found what it has read.
LEMMA StepKeeps ==
  ASSUME CallInv, call.status = "open", NEW k \in DOMAIN tasks,
         tasks[k].pc \notin {"done", "failed"},
         NEW pc \in {"episodic", "semantic", "done", "failed"}, NEW found \in Seq(Items),
         Step(k, pc, found),
         pc = "failed" => Running(k),
         pc \in {"episodic", "semantic"} =>
           /\ Asks(k, pc)
           /\ call.kind \notin Pooled => \A l \in DOMAIN tasks : l # k => ~Running(l)
           /\ Failed => call.kind \in Pooled \cup Skipping,
         \A i \in Range(found) : i \in ever /\ tasks[k].text \in i.words,
         \A i \in throughout :
           /\ tasks[k].text \in i.words /\ Asks(k, TypeOf(i))
           /\ pc = "done" \/ (pc = "semantic" /\ TypeOf(i) = "episodic")
           => i \in Range(found)
  PROVE  CallInv'
<1>1. /\ DOMAIN tasks' = DOMAIN tasks
      /\ tasks'[k].pc = pc /\ tasks'[k].found = found
      /\ tasks'[k].text = tasks[k].text /\ tasks'[k].type = tasks[k].type
      /\ \A l \in DOMAIN tasks : l # k => tasks'[l] = tasks[l]
      /\ tasks' \in Seq(TaskRecords)
  <2>1. pc \in Progress
    BY DEF Progress
  <2>2. QED
    BY <2>1, StepChanges DEF CallInv
<1>2. UNCHANGED <<memory, call, lists, changes, throughout, ever>>
  BY DEF Step
<1>3. QueriesTypes'
  <2>1. tasks' # <<>>
    BY <1>1
  <2>2. \A n \in DOMAIN lists' : tasks'[lists'[n]].pc = "done"
    <3>1. \A n \in DOMAIN lists : lists[n] \in DOMAIN tasks /\ tasks[lists[n]].pc = "done"
      BY DEF CallInv, QueriesTypes, Collected
    <3>2. \A n \in DOMAIN lists : lists[n] # k
      BY <3>1
    <3>3. QED
      BY <1>1, <1>2, <3>1, <3>2
  <2>3. Collected'
    BY <1>1, <1>2 DEF CallInv, QueriesTypes, Collected
  <2>4. QED
    BY <1>2, <2>1, <2>2, <2>3 DEF CallInv, QueriesTypes
<1>4. \A l \in DOMAIN tasks : l # k => (Running(l)' <=> Running(l))
  BY <1>1 DEF Running
<1>5. Running(k)' <=> pc \in {"episodic", "semantic"}
  BY <1>1 DEF Running
<1>6. OneByOne'
  <2>1. NothingLeftRunning'
    BY <1>2 DEF NothingLeftRunning
  <2>2. call.kind \notin Pooled =>
          \A l, m \in DOMAIN tasks : Running(l)' /\ Running(m)' => l = m
    BY <1>4, <1>5 DEF CallInv, OneByOne
  <2>3. ASSUME call.kind \notin Pooled \cup Skipping, Failed'
        PROVE  \A l \in DOMAIN tasks : ~Running(l)'
    <3>1. pc = "failed" \/ Failed
      BY <1>1, <2>3 DEF Failed
    <3>2. CASE pc = "failed"
      BY <1>4, <1>5, <2>3, <3>2 DEF CallInv, OneByOne
    <3>3. CASE Failed
      BY <1>4, <1>5, <2>3, <3>3 DEF CallInv, OneByOne
    <3>4. QED
      BY <3>1, <3>2, <3>3
  <2>4. QED
    BY <1>1, <1>2, <2>1, <2>2, <2>3 DEF OneByOne
<1>7. AllFoundRight'
  <2>1. ASSUME NEW l \in DOMAIN tasks PROVE FoundRight(l)'
    <3>1. CASE l # k
      BY <1>1, <1>2, <3>1 DEF CallInv, AllFoundRight, FoundRight, Running, Has, Asks
    <3>2. CASE l = k
      <4>1. Running(k)' => Asks(k, tasks[k].pc)'
        BY <1>1, <1>5 DEF Asks
      <4>2. \A i \in Range(tasks'[k].found) : i \in ever' /\ tasks'[k].text \in i.words
        BY <1>1, <1>2
      <4>3. \A i \in throughout' :
              /\ tasks'[k].text \in i.words /\ Asks(k, TypeOf(i))' /\ Has(k, TypeOf(i))'
              => i \in Range(tasks'[k].found)
        BY <1>1, <1>2 DEF Asks, Has
      <4>4. QED
        BY <3>2, <4>1, <4>2, <4>3 DEF FoundRight
    <3>3. QED
      BY <3>1, <3>2
  <2>2. QED
    BY <1>1, <2>1 DEF AllFoundRight
<1>8. SteadyItemsFound' /\ ResultSound'
  BY <1>2 DEF SteadyItemsFound, ResultSound
<1>9. QED
  BY <1>3, <1>6, <1>7, <1>8 DEF CallInv
LEMMA StartKeeps ==
  ASSUME CallInv, NEW k \in DOMAIN tasks, Start(k)
  PROVE  CallInv'
<1> DEFINE pc == IF tasks[k].type = "semantic" THEN "semantic" ELSE "episodic"
           running == {l \in DOMAIN tasks : Running(l)}
<1>1. /\ call.status = "open" /\ tasks[k].pc = "queued" /\ Cardinality(running) < Workers
      /\ Failed => call.kind \in Pooled \cup Skipping
      /\ Step(k, pc, <<>>)
  BY DEF Start
<1>2. tasks[k].type \in AskedTypes
  <2>1. tasks[k] \in TaskRecords
    BY DEF CallInv, QueriesTypes, Collected
  <2>2. QED
    BY <2>1 DEF TaskRecords
<1>3. Asks(k, pc) /\ pc \in {"episodic", "semantic"}
  BY <1>2 DEF Asks, AskedTypes
<1>4. call.kind \notin Pooled => \A l \in DOMAIN tasks : ~Running(l)
  <2>1. IsFiniteSet(running)
    <3>1. DOMAIN tasks = 1..Len(tasks) /\ 1 \in Int /\ Len(tasks) \in Int
      BY DEF CallInv, QueriesTypes, Collected
    <3>2. running \in SUBSET (1..Len(tasks))
      BY <3>1
    <3>3. QED
      BY <3>1, <3>2, FS_Interval, FS_Subset
  <2>2. Cardinality(running) \in Nat
    BY <2>1, FS_CardinalityType
  <2>3. call.kind \notin Pooled => Workers = 1
    BY DEF Workers, Pooled
  <2>4. call.kind \notin Pooled => Cardinality(running) = 0
    BY <1>1, <2>2, <2>3
  <2>5. call.kind \notin Pooled => running = {}
    BY <2>1, <2>4, FS_EmptySet
  <2>6. QED
    BY <2>5
<1>5. Range(<<>>) = {} /\ <<>> \in Seq(Items)
  BY DEF Range
<1>6. \A i \in throughout :
        Asks(k, TypeOf(i)) => pc # "done" /\ ~(pc = "semantic" /\ TypeOf(i) = "episodic")
  BY <1>2 DEF Asks, AskedTypes
<1> HIDE DEF pc
<1>7. QED
  BY <1>1, <1>3, <1>4, <1>5, <1>6, StepKeeps

\* A query that runs has a caller who waits, and all that is in memory has been
\* in memory at some time in the call.
LEMMA RunningReads ==
  ASSUME CallInv, NEW k \in DOMAIN tasks, Running(k)
  PROVE  /\ call.status = "open" /\ Asks(k, tasks[k].pc) /\ tasks[k].pc \notin {"done", "failed"}
         /\ throughout \subseteq memory /\ memory \subseteq ever /\ memory \subseteq Items
         /\ call.kind \notin Pooled => \A l \in DOMAIN tasks : l # k => ~Running(l)
         /\ Failed => call.kind \in Pooled \cup Skipping
<1>1. call.status = "open"
  BY DEF CallInv, OneByOne, NothingLeftRunning
<1>2. QED
  BY <1>1 DEF CallInv, OneByOne, QueriesTypes, AllFoundRight, FoundRight, Running

LEMMA ReadEpisodicKeeps ==
  ASSUME CallInv, NEW k \in DOMAIN tasks, ReadEpisodic(k)
  PROVE  CallInv'
<1> DEFINE pc == IF tasks[k].type = "both" THEN "semantic" ELSE "done"
           matching == Matching(k, "episodic")
           found == Newest(matching)
<1>1. tasks[k].pc = "episodic" /\ Step(k, pc, found)
  BY DEF ReadEpisodic
<1>2. Running(k)
  BY <1>1 DEF Running
<1>3. /\ call.status = "open" /\ Asks(k, "episodic")
      /\ throughout \subseteq memory /\ memory \subseteq ever /\ memory \subseteq Items
      /\ call.kind \notin Pooled => \A l \in DOMAIN tasks : l # k => ~Running(l)
      /\ Failed => call.kind \in Pooled \cup Skipping
  BY <1>1, <1>2, RunningReads
<1>4. matching \in SUBSET Items
  BY <1>3 DEF Matching
<1>5. found \in Seq(Items) /\ Range(found) = matching
  BY <1>4, NewestLists
<1>6. \A i \in matching : i \in ever /\ tasks[k].text \in i.words
  BY <1>3 DEF Matching
<1>7. \A i \in throughout :
        /\ tasks[k].text \in i.words /\ Asks(k, TypeOf(i))
        /\ pc = "done" \/ (pc = "semantic" /\ TypeOf(i) = "episodic")
        => i \in matching
  <2>1. ASSUME NEW i \in throughout, tasks[k].text \in i.words, Asks(k, TypeOf(i)),
               pc = "done" \/ TypeOf(i) = "episodic"
        PROVE  i \in matching
    <3>1. TypeOf(i) = "episodic"
      BY <1>3, <2>1 DEF Asks
    <3>2. QED
      BY <1>3, <2>1, <3>1 DEF Matching
  <2>2. QED
    BY <2>1
<1>8. pc \in {"semantic", "done"} /\ (pc = "semantic" => Asks(k, pc))
  BY DEF Asks
<1> HIDE DEF pc, found, matching
<1>9. QED
  BY <1>1, <1>3, <1>5, <1>6, <1>7, <1>8, StepKeeps

LEMMA ReadSemanticKeeps ==
  ASSUME CallInv, NEW k \in DOMAIN tasks, ReadSemantic(k)
  PROVE  CallInv'
<1> DEFINE matching == Matching(k, "semantic") \cup Range(tasks[k].found)
           found == Newest(matching)
<1>1. tasks[k].pc = "semantic" /\ Step(k, "done", found)
  BY DEF ReadSemantic
<1>2. Running(k)
  BY <1>1 DEF Running
<1>3. /\ call.status = "open" /\ Asks(k, "semantic")
      /\ throughout \subseteq memory /\ memory \subseteq ever /\ memory \subseteq Items
  BY <1>1, <1>2, RunningReads
<1>4. Range(tasks[k].found) \subseteq ever /\ ever \subseteq Items
  BY DEF CallInv, QueriesTypes, AllFoundRight, FoundRight
<1>5. matching \in SUBSET Items
  BY <1>3, <1>4 DEF Matching
<1>6. found \in Seq(Items) /\ Range(found) = matching
  BY <1>5, NewestLists
<1>7. \A i \in matching : i \in ever /\ tasks[k].text \in i.words
  BY <1>3 DEF Matching, CallInv, AllFoundRight, FoundRight
<1>8. \A i \in throughout :
        tasks[k].text \in i.words /\ Asks(k, TypeOf(i)) => i \in matching
  <2>1. ASSUME NEW i \in throughout, tasks[k].text \in i.words, Asks(k, TypeOf(i))
        PROVE  i \in matching
    <3>1. CASE TypeOf(i) = "semantic"
      BY <1>3, <2>1, <3>1 DEF Matching
    <3>2. CASE TypeOf(i) = "episodic"
      <4>1. Has(k, TypeOf(i))
        BY <1>1, <3>2 DEF Has
      <4>2. QED
        BY <2>1, <4>1 DEF CallInv, AllFoundRight, FoundRight
    <3>3. QED
      BY <3>1, <3>2 DEF TypeOf
  <2>2. QED
    BY <2>1
<1> HIDE DEF found, matching
<1>9. QED
  BY <1>1, <1>3, <1>6, <1>7, <1>8, StepKeeps

LEMMA FailKeeps ==
  ASSUME CallInv, NEW k \in DOMAIN tasks, Fail(k)
  PROVE  CallInv'
<1>1. Running(k) /\ Step(k, "failed", <<>>)
  BY DEF Fail
<1>2. call.status = "open" /\ tasks[k].pc \notin {"done", "failed"}
  BY <1>1, RunningReads
<1>3. Range(<<>>) = {} /\ <<>> \in Seq(Items)
  BY DEF Range
<1>4. QED
  BY <1>1, <1>2, <1>3, StepKeeps

\* Others store and delete: fewer items have been in memory all through the
\* call, more at some time in it.
LEMMA ChangeKeeps ==
  ASSUME CallInv, NEW i \in Items, Change(i)
  PROVE  CallInv'
<1>1. /\ memory' \subseteq Items /\ changes' = changes + 1 /\ changes < MaxChanges
      /\ UNCHANGED <<call, tasks, lists>>
      /\ call.status = "open" => throughout' = throughout \cap memory' /\ ever' = ever \cup memory'
      /\ call.status # "open" => throughout' = throughout /\ ever' = ever
  BY DEF Change, CallInv, QueriesTypes
<1>2. QueriesTypes'
  <2>1. changes' \in 0..MaxChanges
    BY <1>1, CallsAssumption DEF CallInv, QueriesTypes
  <2>2. /\ throughout' \subseteq ever' /\ ever' \subseteq Items
        /\ call.status = "open" => throughout' \subseteq memory' /\ memory' \subseteq ever'
    BY <1>1 DEF CallInv, QueriesTypes
  <2>3. Collected'
    BY <1>1 DEF CallInv, QueriesTypes, Collected
  <2>4. QED
    BY <1>1, <2>1, <2>2, <2>3 DEF CallInv, QueriesTypes
<1>3. OneByOne'
  BY <1>1 DEF CallInv, OneByOne, NothingLeftRunning, Running, Failed
<1>4. throughout' \subseteq throughout /\ ever \subseteq ever'
  BY <1>1
<1>5. AllFoundRight'
  <2>1. ASSUME NEW k \in DOMAIN tasks PROVE FoundRight(k)'
    BY <1>1, <1>4 DEF CallInv, AllFoundRight, FoundRight, Running, Has, Asks
  <2>2. QED
    BY <1>1, <2>1 DEF AllFoundRight
<1>6. SteadyItemsFound' /\ ResultSound'
  <2>1. CASE call.status = "open"
    BY <1>1, <2>1 DEF SteadyItemsFound, ResultSound
  <2>2. CASE call.status # "open"
    BY <1>1, <2>2 DEF CallInv, SteadyItemsFound, ResultSound
  <2>3. QED
    BY <2>1, <2>2
<1>7. QED
  BY <1>2, <1>3, <1>5, <1>6 DEF CallInv

LEMMA CallInvKept == CallInv /\ [QueriesNext]_queryVars => CallInv'
<1> SUFFICES ASSUME CallInv, [QueriesNext]_queryVars PROVE CallInv'
  OBVIOUS
<1>1. ASSUME NEW c \in Calls, Begin(c) PROVE CallInv'
  BY <1>1, BeginKeeps
<1>2. CASE Worker
  BY <1>2, StartKeeps, ReadEpisodicKeeps, ReadSemanticKeeps, FailKeeps DEF Worker
<1>3. CASE Caller
  BY <1>3, CollectKeeps, NextHopKeeps, ReturnKeeps, RaiseKeeps DEF Caller
<1>4. ASSUME NEW i \in Items, Change(i) PROVE CallInv'
  BY <1>4, ChangeKeeps
<1>5. CASE UNCHANGED queryVars
  BY <1>5 DEF queryVars, CallInv, QueriesTypes, Collected, OneByOne, NothingLeftRunning, Running,
              Failed, AllFoundRight, FoundRight, Has, Asks, SteadyItemsFound, ResultSound
<1>6. QED
  BY <1>1, <1>2, <1>3, <1>4, <1>5 DEF QueriesNext

\* What a call returns holds every item that was in memory all through it and
\* matches one of its queries, and no other; and no query is left running.
THEOREM ResultsAlwaysRight == QueriesSpec => []ResultsRight
<1>1. CallInv => ResultsRight
  BY DEF CallInv, OneByOne, ResultsRight
<1>2. QED
  BY QueriesStart, CallInvKept, <1>1, PTL DEF QueriesSpec

\* The type invariant of the calls.
THEOREM QueriesTyped == QueriesSpec => []QueriesTypeOK
<1>1. CallInv => QueriesTypeOK
  <2> SUFFICES ASSUME CallInv PROVE QueriesTypeOK
    OBVIOUS
  <2>1. memory \subseteq Items /\ changes \in 0..MaxChanges
    BY DEF CallInv, QueriesTypes
  <2>2. call.status \in {"none", "open", "returned", "raised"}
    BY DEF CallInv, QueriesTypes, Collected, CallRecords
  <2>3. ASSUME NEW k \in DOMAIN tasks
        PROVE  /\ tasks[k].pc \in Progress
               /\ tasks[k].text \in Texts \cup {Joined} /\ tasks[k].type \in AskedTypes
               /\ Range(tasks[k].found) \subseteq Items
    <3>1. tasks[k] \in TaskRecords
      BY DEF CallInv, QueriesTypes, Collected
    <3>2. QED
      BY <3>1 DEF TaskRecords, Range
  <2>4. Range(lists) \subseteq DOMAIN tasks /\ IsInjective(lists)
    BY DEF CallInv, QueriesTypes, Collected, Range
  <2>5. QED
    BY <2>1, <2>2, <2>3, <2>4 DEF QueriesTypeOK, Progress
<1>2. QED
  BY QueriesStart, CallInvKept, <1>1, PTL DEF QueriesSpec

-----------------------------------------------------------------------------
(* The experience tracker.                                                 *)

\* What putting an experience under an id leaves.
LEMMA PutKeeps ==
  ASSUME TrackerTypeOK, NEW id \in ExperienceIds, NEW e \in Experiences, Put(id, e)
  PROVE  /\ DOMAIN experiences' = DOMAIN experiences \cup {id}
         /\ DOMAIN experiences' \subseteq ExperienceIds
         /\ experiences' \in [DOMAIN experiences' -> Experiences]
<1>1. experiences' = [i \in DOMAIN experiences \cup {id} |-> IF i = id THEN e ELSE experiences[i]]
  BY DEF Put
<1>2. DOMAIN experiences' = DOMAIN experiences \cup {id}
  BY <1>1
<1>3. \A i \in DOMAIN experiences \cup {id} : (IF i = id THEN e ELSE experiences[i]) \in Experiences
  BY DEF TrackerTypeOK
<1>4. QED
  BY <1>1, <1>2, <1>3 DEF TrackerTypeOK

\* A new id goes to the end of the timeline; feedback is given to an id that
\* is there.
LEMMA TrackerTypes == TrackerTypeOK /\ [TrackerNext]_trackerVars => TrackerTypeOK'
<1> SUFFICES ASSUME TrackerTypeOK, [TrackerNext]_trackerVars PROVE TrackerTypeOK'
  OBVIOUS
<1>1. ASSUME NEW id \in ExperienceIds, NEW action \in Actions, NEW outcome \in Outcomes,
             NEW score \in GivenScores \cup {NoScore}, NEW feedback \in BOOLEAN,
             Log(id, action, outcome, score, feedback)
      PROVE  TrackerTypeOK'
  <2> DEFINE e == [action |-> action, outcome |-> outcome, score |-> score, feedback |-> feedback]
  <2>1. /\ id \notin DOMAIN experiences /\ InRange(score)
        /\ Put(id, e) /\ logged' = Append(logged, id)
    BY <1>1 DEF Log
  <2>2. score \in 0..10 \cup {NoScore}
    BY <2>1, ScoresAssumption DEF InRange
  <2>3. e \in Experiences
    BY <2>2 DEF Experiences
  <2> HIDE DEF e
  <2>4. /\ DOMAIN experiences' = DOMAIN experiences \cup {id}
        /\ DOMAIN experiences' \subseteq ExperienceIds
        /\ experiences' \in [DOMAIN experiences' -> Experiences]
    BY <2>1, <2>3, PutKeeps
  <2>5. logged \in Seq(DOMAIN experiences) /\ logged \in Seq(DOMAIN experiences')
    BY <2>4 DEF TrackerTypeOK
  <2>6. /\ logged' \in Seq(DOMAIN experiences') /\ Len(logged') = Len(logged) + 1
        /\ \A i \in 1..Len(logged) : logged'[i] = logged[i]
        /\ logged'[Len(logged) + 1] = id /\ Len(logged) \in Nat
    BY <2>1, <2>4, <2>5
  <2>7. \A i \in 1..Len(logged) : logged[i] # id
    BY <2>1, <2>5
  <2>8. ASSUME NEW i \in 1..Len(logged'), NEW j \in 1..Len(logged'), logged'[i] = logged'[j]
        PROVE  i = j
    <3>1. CASE i = Len(logged) + 1 /\ j = Len(logged) + 1
      BY <3>1
    <3>2. CASE i \in 1..Len(logged) /\ j \in 1..Len(logged)
      <4>1. logged[i] = logged[j]
        BY <2>6, <2>8, <3>2
      <4>2. QED
        BY <3>2, <4>1 DEF TrackerTypeOK
    <3>3. CASE i = Len(logged) + 1 <=> j # Len(logged) + 1
      BY <2>6, <2>7, <2>8, <3>3
    <3>4. QED
      BY <2>6, <3>1, <3>2, <3>3
  <2>9. ASSUME NEW x \in DOMAIN experiences' PROVE \E i \in 1..Len(logged') : logged'[i] = x
    <3>1. CASE x = id
      BY <2>6, <3>1
    <3>2. CASE x # id
      <4>1. PICK i \in 1..Len(logged) : logged[i] = x
        BY <2>4, <2>9, <3>2 DEF TrackerTypeOK
      <4>2. QED
        BY <2>6, <4>1
    <3>3. QED
      BY <3>1, <3>2
  <2>10. QED
    BY <2>4, <2>6, <2>8, <2>9 DEF TrackerTypeOK
<1>2. ASSUME NEW id \in ExperienceIds, NEW score \in GivenScores \cup {NoScore}, AddFeedback(id, score)
      PROVE  TrackerTypeOK'
  <2> DEFINE e == Given(experiences[id], score)
  <2>1. id \in DOMAIN experiences /\ Put(id, e) /\ logged' = logged
    BY <1>2 DEF AddFeedback
  <2>2. experiences[id] \in Experiences
    BY <2>1 DEF TrackerTypeOK
  <2>3. score # NoScore /\ InRange(score) => score \in 0..10
    BY ScoresAssumption DEF InRange
  <2>4. e \in Experiences
    BY <2>2, <2>3 DEF Given, Experiences
  <2> HIDE DEF e
  <2>5. /\ DOMAIN experiences' = DOMAIN experiences
        /\ DOMAIN experiences' \subseteq ExperienceIds
        /\ experiences' \in [DOMAIN experiences' -> Experiences]
    BY <2>1, <2>4, PutKeeps
  <2>6. QED
    BY <2>1, <2>5 DEF TrackerTypeOK
<1>3. CASE UNCHANGED trackerVars
  BY <1>3 DEF trackerVars, TrackerTypeOK
<1>4. QED
  BY <1>1, <1>2, <1>3 DEF TrackerNext

\* The experiences in the order they were logged.
LEMMA TimelineIs ==
  ASSUME TrackerTypeOK
  PROVE  Timeline \in Seq(Experiences) /\ Len(Timeline) = Len(logged) /\ Len(logged) \in Nat
<1>1. logged \in Seq(DOMAIN experiences) /\ Len(logged) \in Nat
  BY DEF TrackerTypeOK
<1>2. \A i \in 1..Len(logged) : experiences[logged[i]] \in Experiences
  BY <1>1 DEF TrackerTypeOK
<1>3. QED
  BY <1>1, <1>2 DEF Timeline

\* The places of an action's experiences.
PlacesOf(action) == {i \in 1..Len(logged) : Timeline[i].action = action}

\* The total of a lesson is their number, and by_action lists them in order.
LEMMA ByActionIs ==
  ASSUME TrackerTypeOK, NEW a \in Actions
  PROVE  /\ ByAction(a) \in Seq(Experiences)
         /\ Lesson(a).total = Cardinality(PlacesOf(a))
         /\ Lesson(a).total \in Nat
         /\ Ascending(PlacesOf(a)) \in [1..Lesson(a).total -> PlacesOf(a)]
         /\ \A j, k \in 1..Lesson(a).total :
              j < k => Ascending(PlacesOf(a))[j] < Ascending(PlacesOf(a))[k]
         /\ \A i \in PlacesOf(a) : \E k \in 1..Lesson(a).total : Ascending(PlacesOf(a))[k] = i
<1>1. Timeline \in Seq(Experiences) /\ PlacesOf(a) \in SUBSET (1..Len(Timeline))
  BY TimelineIs DEF PlacesOf
<1>2. ByAction(a) = AtPlaces(Timeline, PlacesOf(a)) /\ Lesson(a).total = Len(ByAction(a))
  BY DEF ByAction, PlacesOf, Lesson
<1> DEFINE c == Cardinality(PlacesOf(a))
<1>3. /\ c \in Nat
      /\ AtPlaces(Timeline, PlacesOf(a)) \in Seq(Experiences)
      /\ Len(AtPlaces(Timeline, PlacesOf(a))) = c
      /\ Ascending(PlacesOf(a)) \in [1..c -> PlacesOf(a)]
      /\ \A j, k \in 1..c : j < k => Ascending(PlacesOf(a))[j] < Ascending(PlacesOf(a))[k]
      /\ \A i \in PlacesOf(a) : \E k \in 1..c : Ascending(PlacesOf(a))[k] = i
  BY <1>1, AtPlacesIs
<1>4. Lesson(a).total = c
  BY <1>2, <1>3
<1> HIDE DEF c
<1>5. QED
  BY <1>2, <1>3, <1>4 DEF c

\* Each place of the timeline is that of one number of one lesson.
LEMMA LessonsCover == TrackerTypeOK => LessonsCoverExperiences
<1> SUFFICES ASSUME TrackerTypeOK PROVE LessonsCoverExperiences
  OBVIOUS
<1> DEFINE n == Len(logged)
           U == UNION {{a} \X (1..Lesson(a).total) : a \in Actions}
           At(u) == Ascending(PlacesOf(u[1]))[u[2]]
           f == [i \in 1..n |-> CHOOSE u \in U : At(u) = i]
<1>1. n \in Nat /\ Timeline \in Seq(Experiences) /\ Len(Timeline) = n
  BY TimelineIs
<1>2. ASSUME NEW u \in U
      PROVE  /\ u[1] \in Actions /\ u[2] \in 1..Lesson(u[1]).total /\ u = <<u[1], u[2]>>
             /\ At(u) \in 1..n /\ Timeline[At(u)].action = u[1]
  <2>1. PICK a \in Actions : u \in {a} \X (1..Lesson(a).total)
    OBVIOUS
  <2>2. u[1] = a /\ u[2] \in 1..Lesson(a).total /\ u = <<u[1], u[2]>>
    BY <2>1
  <2>3. At(u) \in PlacesOf(a)
    BY <2>2, ByActionIs
  <2> HIDE DEF At
  <2>4. QED
    BY <2>2, <2>3 DEF PlacesOf
<1>3. ASSUME NEW i \in 1..n PROVE \E u \in U : At(u) = i
  <2> DEFINE a == Timeline[i].action
  <2>1. Timeline[i] \in Experiences
    BY <1>1
  <2>2. a \in Actions /\ i \in PlacesOf(a)
    BY <2>1 DEF Experiences, PlacesOf
  <2> HIDE DEF a
  <2>3. PICK k \in 1..Lesson(a).total : Ascending(PlacesOf(a))[k] = i
    BY <2>2, ByActionIs
  <2>4. <<a, k>> \in U /\ At(<<a, k>>) = i
    BY <2>2, <2>3
  <2> HIDE DEF U, At
  <2>5. QED
    BY <2>4
<1>4. ASSUME NEW u \in U, NEW v \in U, At(u) = At(v) PROVE u = v
  <2>1. u[1] = v[1]
    BY <1>2, <1>4
  <2> DEFINE a == u[1]
             s == Ascending(PlacesOf(a))
  <2>2. a \in Actions /\ u[2] \in 1..Lesson(a).total /\ v[2] \in 1..Lesson(a).total
    BY <1>2, <2>1
  <2>3. s[u[2]] = s[v[2]]
    BY <1>4, <2>1
  <2>4. /\ Lesson(a).total \in Nat
        /\ \A j, k \in 1..Lesson(a).total : j < k => s[j] < s[k]
        /\ \A j \in 1..Lesson(a).total : s[j] \in Nat
    <3>1. /\ Lesson(a).total \in Nat
          /\ s \in [1..Lesson(a).total -> PlacesOf(a)]
          /\ \A j, k \in 1..Lesson(a).total : j < k => s[j] < s[k]
      BY <2>2, ByActionIs
    <3>2. PlacesOf(a) \subseteq Nat
      BY DEF PlacesOf
    <3> HIDE DEF s
    <3>3. QED
      BY <3>1, <3>2
  <2> HIDE DEF s
  <2>5. u[2] = v[2]
    BY <2>2, <2>3, <2>4
  <2>6. QED
    BY <1>2, <2>1, <2>5
<1> HIDE DEF U, At
<1>5. \A i \in 1..n : f[i] \in U /\ At(f[i]) = i
  BY <1>3
<1>6. f \in [1..n -> U]
  BY <1>5
<1>7. \A i, j \in 1..n : f[i] = f[j] => i = j
  BY <1>5
<1>8. \A u \in U : \E i \in 1..n : f[i] = u
  <2> SUFFICES ASSUME NEW u \in U PROVE \E i \in 1..n : f[i] = u
    OBVIOUS
  <2>1. At(u) \in 1..n /\ f[At(u)] \in U /\ At(f[At(u)]) = At(u)
    BY <1>2, <1>5
  <2>2. f[At(u)] = u
    BY <1>4, <2>1
  <2>3. QED
    BY <2>1, <2>2
<1> HIDE DEF f
<1>9. f \in Bijection(1..n, U)
  BY <1>6, <1>7, <1>8 DEF Bijection, Injection, IsInjective, Surjection
<1>10. IsFiniteSet(1..n) /\ Cardinality(1..n) = n
  <2>1. 1 \in Int /\ n \in Int
    BY <1>1
  <2>2. IsFiniteSet(1..n) /\ Cardinality(1..n) = IF 1 > n THEN 0 ELSE n - 1 + 1
    BY <2>1, FS_Interval
  <2>3. QED
    BY <1>1, <2>2
<1>11. Cardinality(U) = n
  BY <1>9, <1>10, FS_Bijection DEF ExistsBijection
<1>12. QED
  BY <1>11 DEF U, LessonsCoverExperiences

\* The scores of a list of experiences are a list.
LEMMA TrendIs ==
  ASSUME NEW exps \in Seq(Experiences)
  PROVE  ScoreTrend(exps) \in Seq(0..10 \cup {NoScore})
<1> DEFINE I == {i \in 1..Len(exps) : exps[i].score # NoScore}
           scored == AtPlaces(exps, I)
<1>1. I \in SUBSET (1..Len(exps))
  OBVIOUS
<1> HIDE DEF I
<1>2. scored \in Seq(Experiences)
  BY <1>1, AtPlacesIs
<1> HIDE DEF scored
<1>3. \A i \in 1..Len(scored) : scored[i].score \in 0..10 \cup {NoScore}
  <2> SUFFICES ASSUME NEW i \in 1..Len(scored) PROVE scored[i].score \in 0..10 \cup {NoScore}
    OBVIOUS
  <2>1. scored[i] \in Experiences
    BY <1>2
  <2>2. QED
    BY <2>1 DEF Experiences
<1>4. Len(scored) \in Nat
  BY <1>2
<1>5. [i \in 1..Len(scored) |-> scored[i].score] \in Seq(0..10 \cup {NoScore})
  BY <1>3, <1>4
<1>6. QED
  BY <1>5 DEF ScoreTrend, scored, I

\* The last two windows of the end that holds them are the same two windows.
LEMMA WindowsAtEnd ==
  ASSUME NEW S, NEW s \in Seq(S), NEW w \in Nat \ {0}, 2 * w <= Len(s)
  PROVE  IsImproving(s, w) = IsImproving(SubSeq(s, Len(s) - 2 * w + 1, Len(s)), w)
<1> DEFINE n == Len(s)
           t == SubSeq(s, n - 2 * w + 1, n)
<1>1. n \in Nat /\ n - 2 * w + 1 \in 1..n /\ n \in n - 2 * w + 1..n
  OBVIOUS
<1>2. Len(t) = 2 * w
  <2>1. Len(t) = n - (n - 2 * w + 1) + 1
    BY <1>1, SubSeqAt
  <2>2. QED
    BY <1>1, <2>1
<1>3. SubSeq(t, Len(t) - w + 1, Len(t)) = SubSeq(s, n - w + 1, n)
  <2> DEFINE i == n - 2 * w + 1
  <2>1. /\ i \in 1..n /\ w + 1 \in 1..n - i + 1 /\ 2 * w \in w + 1..n - i + 1
        /\ i + (w + 1) - 1 = n - w + 1 /\ i + 2 * w - 1 = n
    BY <1>1
  <2>2. SubSeq(SubSeq(s, i, n), w + 1, 2 * w) = SubSeq(s, i + (w + 1) - 1, i + 2 * w - 1)
    <3> HIDE DEF i
    <3>1. QED
      BY <2>1, PartOfEnd
  <2>3. 2 * w - w + 1 = w + 1
    OBVIOUS
  <2>4. QED
    BY <1>2, <2>1, <2>2, <2>3
<1>4. SubSeq(t, Len(t) - 2 * w + 1, Len(t) - w) = SubSeq(s, n - 2 * w + 1, n - w)
  <2> DEFINE i == n - 2 * w + 1
  <2>1. /\ i \in 1..n /\ 1 \in 1..n - i + 1 /\ w \in 1..n - i + 1
        /\ i + 1 - 1 = i /\ i + w - 1 = n - w
    BY <1>1
  <2>2. SubSeq(SubSeq(s, i, n), 1, w) = SubSeq(s, i + 1 - 1, i + w - 1)
    <3> HIDE DEF i
    <3>1. QED
      BY <2>1, PartOfEnd
  <2>3. 2 * w - 2 * w + 1 = 1 /\ 2 * w - w = w
    OBVIOUS
  <2>4. QED
    BY <1>2, <2>1, <2>2, <2>3
<1>5. ~(n < 2 * w) /\ ~(Len(t) < 2 * w)
  BY <1>1, <1>2
<1> HIDE DEF t
<1>6. IsImproving(s, w) = IsImproving(t, w)
  BY <1>3, <1>4, <1>5 DEF IsImproving
<1>7. QED
  BY <1>6 DEF t

\* Of one action or of all, the scores are a list, whose end decides.
LEMMA OlderScores == TrackerTypeOK => OlderScoresDoNotMatter
<1> SUFFICES ASSUME TrackerTypeOK, NEW exps \in Asked, NEW window \in 1..Len(ScoreTrend(exps))
             PROVE  LET trend == ScoreTrend(exps)
                        n == Len(trend)
                    IN  IF n < 2 * window THEN IsImproving(trend, window) = NoScore
                        ELSE IsImproving(trend, window)
                               = IsImproving(SubSeq(trend, n - 2 * window + 1, n), window)
  BY DEF OlderScoresDoNotMatter
<1> DEFINE trend == ScoreTrend(exps)
           S == 0..10 \cup {NoScore}
<1>1. exps \in Seq(Experiences)
  BY TimelineIs, ByActionIs DEF Asked
<1>2. trend \in Seq(S) /\ Len(trend) \in Nat /\ window \in Nat \ {0}
  <2>1. trend \in Seq(S)
    BY <1>1, TrendIs
  <2>2. QED
    BY <2>1
<1> HIDE DEF trend, S
<1>3. CASE Len(trend) < 2 * window
  <2>1. IsImproving(trend, window) = NoScore
    BY <1>3 DEF IsImproving
  <2>2. QED
    BY <1>3, <2>1 DEF trend
<1>4. CASE ~(Len(trend) < 2 * window)
  <2>1. IsImproving(trend, window)
          = IsImproving(SubSeq(trend, Len(trend) - 2 * window + 1, Len(trend)), window)
    BY <1>2, <1>4, WindowsAtEnd
  <2>2. QED
    BY <1>4, <2>1 DEF trend
<1>5. QED
  BY <1>3, <1>4

\* However experiences are logged and scored: every one of them counts in the
\* lesson of its action and in no other, and whether trend improve is a matter
\* of the last two windows alone, or open when there are fewer.
THEOREM LearningAlwaysSound == TrackerSpec => [](TrackerTypeOK /\ LearningSound)
<1>1. TrackerInit => TrackerTypeOK
  BY DEF TrackerInit, TrackerTypeOK
<1>2. TrackerTypeOK => LearningSound
  BY LessonsCover, OlderScores DEF LearningSound
<1>3. QED
  BY <1>1, <1>2, TrackerTypes, PTL DEF TrackerSpec
=============================================================================
