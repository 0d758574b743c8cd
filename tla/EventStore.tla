----------------------------- MODULE EventStore -----------------------------
(***************************************************************************)
(* day_49/event_store.py: events with a timestamp, a timeline of their ids *)
(* kept in temporal order by binary insertion, and a relation between      *)
(* events held as one set of ids in each event object.  Type, participants,*)
(* context and data of an event, which only filter the timeline, are left  *)
(* out.  The sets passed as related_event_ids are fresh ones: store keeps  *)
(* the caller's set object, and callers that share one are not modelled.   *)
(***************************************************************************)
EXTENDS Naturals, Sequences

CONSTANTS EventIds,
          MaxTime,  \* timestamps are 1..MaxTime; equal ones are allowed
          None      \* an id without an event

ASSUME MaxTimeAssumption == MaxTime \in Nat
ASSUME NoneAssumption == None \notin 1..MaxTime

VARIABLES events,    \* _events: id -> timestamp, or None
          timeline,  \* _timeline: ids in temporal order
          related,   \* related_event_ids of each event
          failed     \* history: events whose delete raised an error

vars == <<events, timeline, related, failed>>

Stored == {e \in EventIds : events[e] # None}

TypeOK == /\ events \in [EventIds -> 1..MaxTime \cup {None}]
          /\ timeline \in Seq(EventIds)
          /\ related \in [EventIds -> SUBSET EventIds]
          /\ failed \subseteq EventIds

Init == /\ events = [e \in EventIds |-> None]
        /\ timeline = <<>>
        /\ related = [e \in EventIds |-> {}]
        /\ failed = {}

-----------------------------------------------------------------------------
\* Seeded fault: the place before the ids with the same timestamp.
InsertionPointLeft(ts) ==
  LET n == Len(timeline)
      search[part \in (0..n) \X (0..n)] ==
        LET lo == part[1]
            hi == part[2]
            mid == (lo + hi) \div 2
        IN  IF lo >= hi THEN lo
            ELSE IF events[timeline[mid + 1]] < ts THEN search[<<mid + 1, hi>>]
            ELSE search[<<lo, mid>>]
  IN  search[<<0, n>>]

\* _insert_in_order: the binary search for the place of a timestamp, after
\* the ids with the same timestamp.
InsertionPoint(ts) ==
  LET n == Len(timeline)
      search[part \in (0..n) \X (0..n)] ==
        LET lo == part[1]
            hi == part[2]
            mid == (lo + hi) \div 2
        IN  IF lo >= hi THEN lo
            ELSE IF events[timeline[mid + 1]] <= ts THEN search[<<mid + 1, hi>>]
            ELSE search[<<lo, mid>>]
  IN  search[<<0, n>>]

\* Seeded fault: the id at the end.
InsertedLast(e, ts) == Append(timeline, e)

Inserted(e, ts) ==
  LET at == InsertionPoint(ts) IN
  SubSeq(timeline, 1, at) \o <<e>> \o SubSeq(timeline, at + 1, Len(timeline))

\* The related ids must name events; the new event is not one of them yet.
Store(e, ts, others) ==
  /\ events[e] = None
  /\ others \subseteq Stored
  /\ events' = [events EXCEPT ![e] = ts]
  /\ timeline' = Inserted(e, ts)
  /\ related' = [x \in EventIds |-> IF x = e THEN others
                                    ELSE IF x \in others THEN related[x] \cup {e}
                                    ELSE related[x]]
  /\ UNCHANGED failed

\* Seeded fault: only the first event learns of the other.
LinkOneWay(a, b) ==
  /\ a \in Stored /\ b \in Stored
  /\ related' = [related EXCEPT ![a] = @ \cup {b}]
  /\ UNCHANGED <<events, timeline, failed>>

\* link(e, e) is accepted: the event then names itself.
Link(a, b) ==
  /\ a \in Stored /\ b \in Stored
  /\ related' = [x \in EventIds |-> related[x] \cup (IF x = a THEN {b} ELSE {})
                                               \cup (IF x = b THEN {a} ELSE {})]
  /\ UNCHANGED <<events, timeline, failed>>

\* The sets of the events in others, after delete has discarded e from them.
Discarded(e, others) ==
  [x \in EventIds |-> IF x \in others \cap Stored THEN related[x] \ {e}
                      ELSE related[x]]

\* A list without its i-th element.
Without(list, i) == SubSeq(list, 1, i - 1) \o SubSeq(list, i + 1, Len(list))

Delete(e) ==
  /\ e \in Stored
  /\ e \notin related[e]
  /\ related' = [Discarded(e, related[e]) EXCEPT ![e] = {}]
  /\ timeline' = Without(timeline, CHOOSE i \in 1..Len(timeline) : timeline[i] = e)
  /\ events' = [events EXCEPT ![e] = None]
  /\ failed' = failed \ {e}

\* The loop of delete discards the event from its own set while it iterates
\* over that set: RuntimeError, after the ids that came before it in the
\* set's iteration order, which may be any, have been cleaned.
DeleteSelfLinked(e) ==
  /\ e \in Stored
  /\ e \in related[e]
  /\ \E before \in SUBSET (related[e] \ {e}) :
        related' = Discarded(e, before \cup {e})
  /\ failed' = failed \cup {e}
  /\ UNCHANGED <<events, timeline>>

Next ==
  \/ \E e \in EventIds, ts \in 1..MaxTime, others \in SUBSET EventIds :
        Store(e, ts, others)
  \/ \E a, b \in EventIds : Link(a, b)
  \/ \E e \in EventIds : Delete(e)
  \/ \E e \in EventIds : DeleteSelfLinked(e)

Spec == Init /\ [][Next]_vars

-----------------------------------------------------------------------------
(* Properties.                                                             *)

\* The timeline lists every event once, in the order of the timestamps, so
\* that the range, type and participant queries, which filter it, are
\* complete and ordered.
TimelineSound ==
  /\ \A e \in EventIds : e \in Stored <=> \E i \in 1..Len(timeline) : timeline[i] = e
  /\ \A i, j \in 1..Len(timeline) :
       i < j => timeline[i] # timeline[j] /\ events[timeline[i]] <= events[timeline[j]]

\* Inserting an event never changes the order of the others, and puts it
\* after the events of the same time: events logged at one instant stay in
\* the order of their arrival.
ArrivalOrderKept ==
  [][\A e \in EventIds :
       events[e] = None /\ events'[e] # None
       => \E i \in 1..Len(timeline') :
            /\ timeline'[i] = e
            /\ Without(timeline', i) = timeline
            /\ \A j \in i + 1..Len(timeline') : events'[timeline'[j]] > events'[e]]_vars

\* The relation goes both ways and joins stored events, except from an event
\* whose delete has failed half-way.
OneWayOnlyAfterFailedDelete ==
  \A x \in Stored : \A y \in related[x] :
    \/ y \in Stored /\ x \in related[y]
    \/ x \in failed

\* event_store.py:109 and 172, README.md of day_49: relationships are
\* bidirectional, and deleting an event cleans them up.  The self-linked
\* event refutes this.
RelationshipsBidirectional ==
  \A x \in Stored : \A y \in related[x] : y \in Stored /\ x \in related[y]
=============================================================================
