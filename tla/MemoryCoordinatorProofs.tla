----------------------- MODULE MemoryCoordinatorProofs ----------------------
(***************************************************************************)
(* The coordinator, for every number of threads, set of layers and number  *)
(* of events: an event is accepted at most twice, and a conflict is found  *)
(* only in a layer that changed while it was read for its record or since. *)
(*                                                                         *)
(* The memory it coordinates, for every max_messages and number of         *)
(* messages: the history is sound and its strategies keep what they are    *)
(* there to keep, and the ids of messages hold until it is truncated.  And *)
(* for all components and all budgets: the context built fits and wastes   *)
(* no room, and what a BudgetTracker says of its spenders is true.         *)
(***************************************************************************)
EXTENDS MemoryCoordinator, UnifiedMemory, ContextSelection, TokenBudget, DataLemmas

\* How many acceptances of an event are still possible: one by its emitter,
\* before the handler has returned, and one by process_events, until the event
\* is marked and out of the batch being processed.
Emitting(e) == \E t \in Threads : call[t].event = e
Processable(e) == e \notin handled \/ \E t \in Threads : e \in call[t].batch
Possible(e) == (IF Emitting(e) THEN 1 ELSE 0) + (IF Processable(e) THEN 1 ELSE 0)

AtMostTwice == \A e \in Events : successes[e] + Possible(e) <= 2

\* An event is one emitter's, until its handler returns.
EmittersApart ==
  /\ \A t \in Threads : call[t].event # None <=> call[t].step = "handle"
  /\ \A t, s \in Threads : t # s /\ call[t].event # None => call[t].event # call[s].event

\* Only process_events has a batch, all of it in the queue, and holds the lock.
BatchLocked ==
  \A t \in Threads :
    /\ call[t].batch # {} <=> call[t].step = "process"
    /\ call[t].step = "process" => eventLock = t /\ call[t].batch \subseteq Range1(queue)

\* A call that is reading a layer has read the first counters: each has the
\* value read, unless it changed since; then the layer's record is behind too.
InOrder(c, values, behind) ==
  /\ c.step = "next" => c.read = <<>> /\ c.moved = {}
  /\ c.step \in {"read", "judge"} =>
       /\ c.op = "sync" /\ c.layer \in Layers
       /\ IF c.step = "read" THEN Len(c.read) < Len(PartsOf(c.layer))
                             ELSE Len(c.read) = Len(PartsOf(c.layer))
       /\ c.moved \subseteq behind[c.layer]
       /\ \A i \in 1..Len(c.read) :
            PartsOf(c.layer)[i] \in c.moved \/ c.read[i] = values[PartsOf(c.layer)[i]]

ReadInOrder == \A t \in Threads : InOrder(call[t], counts, drifted)

\* Who synchronises holds the lock.
Syncing(c) == c.op = "sync" /\ c.step \notin {"idle", "process"}
SyncLocked == \A t \in Threads : Syncing(call[t]) <=> syncLock = t

Inv == /\ TypeOK /\ EmittersApart /\ BatchLocked /\ AtMostTwice
       /\ SyncLocked /\ ReadInOrder /\ RecordedIsCurrent

\* Nothing is emitted, read or recorded at the start.
LEMMA InitInv == Init => Inv
<1> SUFFICES ASSUME Init PROVE Inv
  OBVIOUS
<1> USE MaxCountAssumption, NoneAssumption DEF Init, NoCall
<1>1. TypeOK
  BY DEF TypeOK, Calls
<1>2. EmittersApart /\ BatchLocked /\ SyncLocked /\ ReadInOrder /\ RecordedIsCurrent
  BY DEF EmittersApart, BatchLocked, SyncLocked, Syncing, ReadInOrder, InOrder, RecordedIsCurrent
<1>3. AtMostTwice
  BY DEF AtMostTwice, Possible, Emitting, Processable
<1>4. QED
  BY <1>1, <1>2, <1>3 DEF Inv

-----------------------------------------------------------------------------
(* Types.                                                                  *)

\* The counters of a layer are a sequence of counters.
LEMMA CountersOf ==
  ASSUME NEW l \in Layers
  PROVE  /\ PartsOf(l) \in Seq(Moving) /\ Len(PartsOf(l)) \in Nat
         /\ \A i \in 1..Len(PartsOf(l)) : PartsOf(l)[i] \in Moving
BY PartsAssumption

\* No handler takes a counter or a mark out of its type.
LEMMA HandledTypes ==
  ASSUME TypeOK, NEW e \in Events, NEW outcome, NEW marking, Handled(e, outcome, marking)
  PROVE  handled' \subseteq Events /\ successes' \in [Events -> Nat]
BY DEF TypeOK, Handled

\* Every operation keeps the types: an emission finds a free event object, a
\* reader has a counter left to read.
LEMMA TypesNext == TypeOK /\ EmittersApart /\ BatchLocked /\ ReadInOrder /\ [Next]_vars => TypeOK'
<1> SUFFICES ASSUME TypeOK, EmittersApart, BatchLocked, ReadInOrder, [Next]_vars PROVE TypeOK'
  OBVIOUS
<1> USE MaxCountAssumption, NoneAssumption DEF TypeOK, memory, syncs, events
<1> NoCall \in Calls
  BY DEF NoCall, Calls
<1>a. ASSUME NEW p \in Moving PROVE Overtaken(p) \in [Threads -> Calls]
  <2>1. \A t \in Threads : call[t] \in Calls
    OBVIOUS
  <2> HIDE DEF TypeOK
  <2>2. \A c \in Calls : [c EXCEPT !.moved = @ \cup {p}] \in Calls
    BY DEF Calls
  <2>3. QED
    BY <2>1, <2>2 DEF Overtaken
<1>b. ASSUME NEW t \in Threads, GoOn(t)
      PROVE  call' \in [Threads -> Calls] /\ syncLock' \in Threads \cup {None}
  <2> DEFINE goes == [NoCall EXCEPT !.step = "next", !.op = call[t].op,
                                    !.left = call[t].left, !.dest = call[t].dest]
  <2>1. call[t] \in Calls
    OBVIOUS
  <2>2. goes \in Calls
    BY <2>1 DEF NoCall, Calls
  <2>3. call' = [call EXCEPT ![t] = IF call[t].left = {} THEN NoCall ELSE goes]
    BY <1>b DEF GoOn
  <2> HIDE DEF goes
  <2>4. QED
    BY <1>b, <2>2, <2>3 DEF GoOn
<1>1. ASSUME NEW p \in Moving, ChangeDirectly(p) PROVE TypeOK'
  BY <1>1, <1>a DEF ChangeDirectly, Change
<1>2. CASE ClearEvents
  BY <1>2 DEF ClearEvents
<1>3. ASSUME NEW t \in Threads, BeginEmit(t) PROVE TypeOK'
  BY <1>3 DEF BeginEmit, NoCall, Calls
<1>4. ASSUME NEW t \in Threads, BeginStore(t) PROVE TypeOK'
  <2>1. PICK L \in SUBSET Layers, dest \in Destinations :
          call' = [call EXCEPT ![t] = [NoCall EXCEPT
                     !.step = "next", !.op = "store", !.left = L, !.dest = dest]]
    BY <1>4 DEF BeginStore
  <2>2. [NoCall EXCEPT !.step = "next", !.op = "store", !.left = L, !.dest = dest] \in Calls
    BY DEF NoCall, Calls
  <2>3. QED
    BY <1>4, <2>1, <2>2 DEF BeginStore
<1>5. ASSUME NEW t \in Threads, BeginSync(t) PROVE TypeOK'
  <2>1. PICK L \in SUBSET Layers :
          call' = [call EXCEPT ![t] = [NoCall EXCEPT !.step = "next", !.op = "sync", !.left = L]]
    BY <1>5 DEF BeginSync
  <2>2. [NoCall EXCEPT !.step = "next", !.op = "sync", !.left = L] \in Calls
    BY DEF NoCall, Calls
  <2>3. QED
    BY <1>5, <2>1, <2>2 DEF BeginSync
<1>6. ASSUME NEW t \in Threads, BeginProcess(t) PROVE TypeOK'
  <2>1. Range1(queue) \ handled \subseteq Events
    BY DEF Range1
  <2>2. [NoCall EXCEPT !.step = "process", !.op = "process",
                       !.batch = Range1(queue) \ handled] \in Calls
    BY <2>1 DEF NoCall, Calls
  <2>3. QED
    BY <1>6, <2>2 DEF BeginProcess
<1>7. ASSUME NEW t \in Threads, AppendEvent(t) PROVE TypeOK'
  <2> DEFINE e == CHOOSE e \in Events \ Alive : TRUE
  <2>1. e \in Events /\ Append(queue, e) \in Seq(Events)
    BY <1>7 DEF AppendEvent
  <2>2. [call[t] EXCEPT !.event = e, !.step = "handle"] \in Calls
    BY <2>1 DEF Calls
  <2>3. /\ call' = [call EXCEPT ![t] = [call[t] EXCEPT !.event = e, !.step = "handle"]]
        /\ queue' = Append(queue, e) /\ handled' = handled \ {e}
        /\ successes' = [successes EXCEPT ![e] = 0]
        /\ UNCHANGED <<memory, syncs, eventLock>>
    BY <1>7 DEF AppendEvent
  <2> HIDE DEF e
  <2>4. QED
    BY <2>1, <2>2, <2>3
<1>8. ASSUME NEW t \in Threads, HandleEmitted(t) PROVE TypeOK'
  <2>1. call[t].event \in Events
    BY <1>8 DEF HandleEmitted, EmittersApart, Calls
  <2>2. handled' \subseteq Events /\ successes' \in [Events -> Nat]
    BY <1>8, <2>1, HandledTypes DEF HandleEmitted
  <2>3. QED
    BY <1>8, <1>b, <2>2 DEF HandleEmitted
<1>9. ASSUME NEW t \in Threads, ProcessEvent(t) PROVE TypeOK'
  <2>1. PICK i \in 1..Len(queue) :
          /\ \E outcome \in Outcomes : Handled(queue[i], outcome, TRUE)
          /\ call' = [call EXCEPT ![t] = IF call[t].batch = {queue[i]} THEN NoCall
                                         ELSE [call[t] EXCEPT !.batch = @ \ {queue[i]}]]
          /\ eventLock' = IF call[t].batch = {queue[i]} THEN None ELSE t
    BY <1>9 DEF ProcessEvent
  <2>2. handled' \subseteq Events /\ successes' \in [Events -> Nat]
    <3>1. queue[i] \in Events
      OBVIOUS
    <3>2. PICK outcome \in Outcomes : Handled(queue[i], outcome, TRUE)
      BY <2>1
    <3>3. QED
      BY <3>1, <3>2, HandledTypes
  <2>3. [call[t] EXCEPT !.batch = @ \ {queue[i]}] \in Calls
    BY DEF Calls
  <2>4. QED
    BY <1>9, <2>1, <2>2, <2>3 DEF ProcessEvent
<1>10. ASSUME NEW t \in Threads, ReadPart(t) PROVE TypeOK'
  <2> DEFINE parts == PartsOf(call[t].layer)
  <2>1. Len(call[t].read) + 1 \in 1..Len(parts) /\ call[t].read \in Seq(0..MaxCount)
    BY <1>10, CountersOf DEF ReadPart, ReadInOrder, InOrder, Calls
  <2>2. parts[Len(call[t].read) + 1] \in Moving
    BY <1>10, <2>1, CountersOf DEF ReadPart, ReadInOrder, InOrder
  <2>3. Append(call[t].read, counts[parts[Len(call[t].read) + 1]]) \in Seq(0..MaxCount)
    BY <2>1, <2>2
  <2>4. \A step \in {"judge", "read"} :
          [call[t] EXCEPT !.read = Append(call[t].read, counts[parts[Len(call[t].read) + 1]]),
                          !.step = step] \in Calls
    BY <2>3 DEF Calls
  <2>5. QED
    BY <1>10, <2>4 DEF ReadPart
<1>11. ASSUME NEW t \in Threads, Record(t) PROVE TypeOK'
  <2>1. call[t].layer \in Layers /\ call[t].read \in Seq(0..MaxCount)
    BY <1>11 DEF Record, ReadInOrder, InOrder, Calls
  <2>2. version' \in [Layers -> 0..1] /\ checksum' \in [Layers -> Seq(0..MaxCount)]
    BY <1>11, <2>1 DEF Record
  <2>3. drifted' \in [Layers -> SUBSET Moving]
    <3>1. call[t].moved \in SUBSET Moving
      BY DEF Calls
    <3>2. QED
      BY <1>11, <2>1, <3>1 DEF Record
  <2>4. QED
    BY <1>11, <1>b, <2>2, <2>3 DEF Record
<1>12. ASSUME NEW t \in Threads, ReportConflict(t) PROVE TypeOK'
  <2>1. [call[t] EXCEPT !.step = "append"] \in Calls
    BY DEF Calls
  <2>2. QED
    BY <1>12, <2>1 DEF ReportConflict
<1>13. ASSUME NEW t \in Threads, NEW l \in Layers, StoreIn(t, l) PROVE TypeOK'
  <2> DEFINE p == DestinationOf(l, call[t].dest)
             over == Overtaken(p)
  <2>1. p \in Moving /\ over \in [Threads -> Calls] /\ counts[p] + 1 \in 0..MaxCount
    BY <1>13, <1>a DEF StoreIn
  <2>2. [over[t] EXCEPT !.step = "append", !.left = @ \ {l}, !.layer = l] \in Calls
    <3>1. \A c \in Calls : [c EXCEPT !.step = "append", !.left = @ \ {l}, !.layer = l] \in Calls
      BY DEF Calls
    <3>2. QED
      BY <2>1, <3>1
  <2>3. call' = [over EXCEPT ![t] = [over[t] EXCEPT !.step = "append", !.left = @ \ {l},
                                                    !.layer = l]]
    BY <1>13 DEF StoreIn
  <2> HIDE DEF over
  <2>4. call' \in [Threads -> Calls]
    BY <2>1, <2>2, <2>3
  <2>5. QED
    BY <1>13, <2>1, <2>4 DEF StoreIn, Change
<1>14. ASSUME NEW t \in Threads, NEW l \in Layers, StoreFails(t, l) PROVE TypeOK'
  <2>1. [call[t] EXCEPT !.left = @ \ {l}] \in Calls
    BY DEF Calls
  <2>2. QED
    BY <1>14, <2>1 DEF StoreFails
<1>15. ASSUME NEW t \in Threads, NEW l \in Layers, SyncLayer(t, l) PROVE TypeOK'
  <2>1. \A step \in {"judge", "read"} :
          [call[t] EXCEPT !.step = step, !.layer = l, !.left = @ \ {l}] \in Calls
    BY DEF Calls
  <2>2. QED
    BY <1>15, <2>1 DEF SyncLayer
<1>16. CASE UNCHANGED vars
  BY <1>16 DEF vars
<1>17. QED
  BY <1>1, <1>2, <1>3, <1>4, <1>5, <1>6, <1>7, <1>8, <1>9, <1>10, <1>11, <1>12, <1>13, <1>14,
     <1>15, <1>16 DEF Next, Step

-----------------------------------------------------------------------------
(* Events.                                                                 *)

EventInv == EmittersApart /\ BatchLocked /\ AtMostTwice

\* A step that leaves the events, the emitters and the batches alone.
LEMMA EventsQuiet ==
  ASSUME TypeOK, EventInv, UNCHANGED events,
         \A s \in Threads : /\ call'[s].event = call[s].event
                            /\ call'[s].batch = call[s].batch
                            /\ call'[s].step = "handle" <=> call[s].step = "handle"
                            /\ call'[s].step = "process" <=> call[s].step = "process"
  PROVE  EventInv'
<1>1. EmittersApart'
  BY DEF EventInv, EmittersApart
<1>2. BatchLocked'
  BY DEF EventInv, BatchLocked, events
<1>3. AtMostTwice'
  BY DEF EventInv, AtMostTwice, Possible, Emitting, Processable, events
<1>4. QED
  BY <1>1, <1>2, <1>3 DEF EventInv

\* The call of one thread goes on, neither emitting nor processing before and
\* after.
LEMMA CallQuiet ==
  ASSUME TypeOK, EventInv, UNCHANGED events, NEW t \in Threads,
         \A s \in Threads \ {t} : call'[s] = call[s],
         call[t].step \notin {"handle", "process"}, call'[t].step \notin {"handle", "process"},
         call'[t].event = None, call'[t].batch = {}
  PROVE  EventInv'
<1>1. call[t].event = None /\ call[t].batch = {}
  BY DEF EventInv, EmittersApart, BatchLocked
<1>2. QED
  BY <1>1, EventsQuiet DEF TypeOK

\* Overtaking a call adds the counter to those that changed, if it was read.
LEMMA OvertakenKeeps ==
  ASSUME TypeOK, NEW p \in Moving
  PROVE  /\ Overtaken(p) \in [Threads -> Calls]
         /\ \A s \in Threads :
              /\ Overtaken(p)[s].step = call[s].step /\ Overtaken(p)[s].event = call[s].event
              /\ Overtaken(p)[s].batch = call[s].batch /\ Overtaken(p)[s].read = call[s].read
              /\ Overtaken(p)[s].layer = call[s].layer /\ Overtaken(p)[s].op = call[s].op
              /\ Overtaken(p)[s].moved =
                   IF call[s].step \in {"read", "judge"} /\ p \in AlreadyRead(call[s])
                   THEN call[s].moved \cup {p} ELSE call[s].moved
<1> SUFFICES ASSUME NEW s \in Threads
             PROVE  /\ Overtaken(p)[s] \in Calls
                    /\ Overtaken(p)[s].step = call[s].step
                    /\ Overtaken(p)[s].event = call[s].event
                    /\ Overtaken(p)[s].batch = call[s].batch
                    /\ Overtaken(p)[s].read = call[s].read
                    /\ Overtaken(p)[s].layer = call[s].layer
                    /\ Overtaken(p)[s].op = call[s].op
                    /\ Overtaken(p)[s].moved =
                         IF call[s].step \in {"read", "judge"} /\ p \in AlreadyRead(call[s])
                         THEN call[s].moved \cup {p} ELSE call[s].moved
  BY DEF Overtaken
<1>1. call[s] \in Calls
  BY DEF TypeOK
<1>2. CASE call[s].step \in {"read", "judge"} /\ p \in AlreadyRead(call[s])
  <2>1. Overtaken(p)[s] = [call[s] EXCEPT !.moved = @ \cup {p}]
    BY <1>2 DEF Overtaken
  <2>2. QED
    BY <1>1, <1>2, <2>1 DEF Calls
<1>3. CASE ~(call[s].step \in {"read", "judge"} /\ p \in AlreadyRead(call[s]))
  <2>1. Overtaken(p)[s] = call[s]
    BY <1>3 DEF Overtaken
  <2>2. QED
    BY <1>1, <1>3, <2>1
<1>4. QED
  BY <1>2, <1>3

\* Acceptances use up what is still possible: the emitter's once its handler
\* has returned, process_events' once the event is marked or refused.
LEMMA EventsNext == TypeOK /\ EventInv /\ [Next]_vars => EventInv'
<1> SUFFICES ASSUME TypeOK, EventInv, [Next]_vars PROVE EventInv'
  OBVIOUS
<1> USE NoneAssumption
<1>0. \A t \in Threads : /\ call[t] \in Calls
                         /\ call[t].step # "handle" => call[t].event = None
                         /\ call[t].step # "process" => call[t].batch = {}
  BY DEF TypeOK, EventInv, EmittersApart, BatchLocked
<1>a. ASSUME NEW t \in Threads, call[t].step \notin {"handle", "process"}, GoOn(t),
             UNCHANGED events
      PROVE  EventInv'
  <2>1. call' = [call EXCEPT ![t] =
                   IF call[t].left = {} THEN NoCall
                   ELSE [NoCall EXCEPT !.step = "next", !.op = call[t].op,
                                       !.left = call[t].left, !.dest = call[t].dest]]
    BY <1>a DEF GoOn
  <2>2. /\ \A s \in Threads \ {t} : call'[s] = call[s]
        /\ call'[t].step \notin {"handle", "process"}
        /\ call'[t].event = None /\ call'[t].batch = {}
    BY <2>1 DEF NoCall, TypeOK
  <2>3. QED
    BY <1>a, <2>2, CallQuiet
<1>1. ASSUME NEW p \in Moving, ChangeDirectly(p) PROVE EventInv'
  BY <1>1, <1>0, EventsQuiet DEF ChangeDirectly, Overtaken, Calls
<1>2. ASSUME NEW t \in Threads, BeginEmit(t) \/ BeginStore(t) \/ BeginSync(t) PROVE EventInv'
  <2>1. /\ UNCHANGED events /\ call[t].step = "idle"
        /\ \A s \in Threads \ {t} : call'[s] = call[s]
    BY <1>2 DEF BeginEmit, BeginStore, BeginSync, TypeOK
  <2>2. /\ call'[t].step \in {"append", "next"}
        /\ call'[t].event = None /\ call'[t].batch = {}
    <3>1. CASE BeginEmit(t)
      BY <3>1 DEF BeginEmit, NoCall, TypeOK
    <3>2. CASE BeginStore(t)
      BY <3>2 DEF BeginStore, NoCall, TypeOK
    <3>3. CASE BeginSync(t)
      BY <3>3 DEF BeginSync, NoCall, TypeOK
    <3>4. QED
      BY <1>2, <3>1, <3>2, <3>3
  <2>3. QED
    BY <2>1, <2>2, CallQuiet
<1>3. ASSUME NEW t \in Threads, ReadPart(t) PROVE EventInv'
  <2> DEFINE parts == PartsOf(call[t].layer)
             read == Append(call[t].read, counts[parts[Len(call[t].read) + 1]])
             step == IF Len(read) = Len(parts) THEN "judge" ELSE "read"
  <2>1. /\ call[t].step = "read" /\ UNCHANGED events
        /\ call' = [call EXCEPT ![t].read = read, ![t].step = step]
    BY <1>3 DEF ReadPart
  <2>2. step \in {"judge", "read"}
    OBVIOUS
  <2> HIDE DEF step, read
  <2>3. \A s \in Threads \ {t} : call'[s] = call[s]
    BY <2>1 DEF TypeOK
  <2>4. /\ call'[t].step = step
        /\ call'[t].event = call[t].event /\ call'[t].batch = call[t].batch
    BY <1>0, <2>1 DEF TypeOK, Calls
  <2>5. call'[t].event = None /\ call'[t].batch = {}
    BY <1>0, <2>1, <2>4
  <2>6. QED
    BY <2>1, <2>2, <2>3, <2>4, <2>5, CallQuiet
<1>4. ASSUME NEW t \in Threads, ReportConflict(t) PROVE EventInv'
  BY <1>4, <1>0, EventsQuiet DEF ReportConflict, TypeOK, Calls
<1>5. ASSUME NEW t \in Threads, Record(t) PROVE EventInv'
  BY <1>5, <1>a DEF Record
<1>6. ASSUME NEW t \in Threads, NEW l \in Layers, StoreIn(t, l) PROVE EventInv'
  <2> DEFINE over == Overtaken(DestinationOf(l, call[t].dest))
  <2>1. /\ call' = [over EXCEPT ![t].step = "append", ![t].left = @ \ {l}, ![t].layer = l]
        /\ UNCHANGED events /\ call[t].step = "next"
        /\ DestinationOf(l, call[t].dest) \in Moving
    BY <1>6 DEF StoreIn
  <2>2. /\ over \in [Threads -> Calls]
        /\ \A s \in Threads : /\ over[s].step = call[s].step /\ over[s].event = call[s].event
                              /\ over[s].batch = call[s].batch
    BY <1>0, <2>1, OvertakenKeeps
  <2> HIDE DEF over
  <2>3. \A s \in Threads \ {t} : call'[s] = over[s]
    BY <2>1, <2>2
  <2>4. /\ call'[t].step = "append" /\ call'[t].event = over[t].event
        /\ call'[t].batch = over[t].batch
    BY <2>1, <2>2 DEF Calls
  <2>5. QED
    BY <2>1, <2>2, <2>3, <2>4, EventsQuiet
<1>7. ASSUME NEW t \in Threads, NEW l \in Layers, StoreFails(t, l) PROVE EventInv'
  <2>1. /\ UNCHANGED events /\ call[t].step = "next"
        /\ \A s \in Threads \ {t} : call'[s] = call[s]
    BY <1>7 DEF StoreFails, TypeOK
  <2>2. call'[t] \in {NoCall, [call[t] EXCEPT !.left = @ \ {l}]}
    BY <1>7 DEF StoreFails, TypeOK
  <2>3. /\ call'[t].step \in {"idle", "next"}
        /\ call'[t].event = None /\ call'[t].batch = {}
    BY <1>0, <2>1, <2>2 DEF NoCall, Calls
  <2>4. QED
    BY <2>1, <2>3, CallQuiet
<1>8. ASSUME NEW t \in Threads, NEW l \in Layers, SyncLayer(t, l) PROVE EventInv'
  <2>1. /\ call[t].step = "next" /\ UNCHANGED events
        /\ \A s \in Threads \ {t} : call'[s] = call[s]
        /\ call'[t].step \in {"judge", "read"}
        /\ call'[t].event = call[t].event /\ call'[t].batch = call[t].batch
    BY <1>8, <1>0 DEF SyncLayer, TypeOK, Calls
  <2>2. QED
    BY <2>1, EventsQuiet
<1>9. ASSUME NEW t \in Threads, AppendEvent(t) PROVE EventInv'
  <2> DEFINE e == CHOOSE e \in Events \ Alive : TRUE
  <2>1. e \in Events /\ e \notin Alive
    BY <1>9 DEF AppendEvent
  <2>2. /\ call' = [call EXCEPT ![t] = [call[t] EXCEPT !.event = e, !.step = "handle"]]
        /\ queue' = Append(queue, e) /\ handled' = handled \ {e}
        /\ successes' = [successes EXCEPT ![e] = 0]
        /\ eventLock = None /\ eventLock' = None /\ call[t].step = "append"
    BY <1>9 DEF AppendEvent
  <2>3. \A s \in Threads : call[s].event # e /\ e \notin call[s].batch
    BY <2>1 DEF Alive
  <2> HIDE DEF e
  <2>4. /\ \A s \in Threads \ {t} : call'[s] = call[s]
        /\ call'[t].event = e /\ call'[t].step = "handle" /\ call'[t].batch = {}
    <3>1. call[t] \in Calls /\ call \in [Threads -> Calls] /\ call[t].batch = {}
      BY <1>0, <2>2 DEF TypeOK
    <3> DEFINE c == [call[t] EXCEPT !.event = e, !.step = "handle"]
    <3>2. c.event = e /\ c.step = "handle" /\ c.batch = call[t].batch
      BY <3>1 DEF Calls
    <3> HIDE DEF c
    <3>3. call' = [call EXCEPT ![t] = c]
      BY <2>2 DEF c
    <3>4. QED
      BY <3>1, <3>2, <3>3
  <2>5. EmittersApart'
    BY <2>1, <2>3, <2>4 DEF EventInv, EmittersApart
  <2>6. BatchLocked'
    BY <2>2, <2>4 DEF EventInv, BatchLocked
  <2>7. \A f \in Events \ {e} : /\ Emitting(f)' <=> Emitting(f)
                                /\ Processable(f)' <=> Processable(f)
    BY <1>0, <2>2, <2>4 DEF Emitting, Processable
  <2>8. \A f \in Events \ {e} : successes'[f] = successes[f]
    BY <2>2 DEF TypeOK
  <2>9. successes'[e] = 0
    BY <2>1, <2>2 DEF TypeOK
  <2>10. AtMostTwice'
    BY <2>7, <2>8, <2>9 DEF EventInv, AtMostTwice, Possible
  <2>11. QED
    BY <2>5, <2>6, <2>10 DEF EventInv
<1>10. ASSUME NEW t \in Threads, HandleEmitted(t) PROVE EventInv'
  <2>0. PICK e \in Events : e = call[t].event
    BY <1>10, <1>0 DEF HandleEmitted, EventInv, EmittersApart, Calls
  <2>1. call[t].step = "handle" /\ call[t].batch = {}
    BY <1>10, <1>0 DEF HandleEmitted
  <2>2. PICK outcome \in Outcomes : Handled(e, outcome, FALSE)
    BY <1>10, <2>0 DEF HandleEmitted
  <2>3. queue' = queue /\ eventLock' = eventLock
    BY <1>10 DEF HandleEmitted
  <2>4. /\ \A s \in Threads \ {t} : call'[s] = call[s]
        /\ call'[t].event = None /\ call'[t].step \notin {"handle", "process"}
        /\ call'[t].batch = {}
    BY <1>10 DEF HandleEmitted, GoOn, NoCall, TypeOK
  <2>5. EmittersApart'
    BY <2>4 DEF EventInv, EmittersApart
  <2>6. BatchLocked'
    BY <2>3, <2>4 DEF EventInv, BatchLocked
  <2>7. \A f \in Events \ {e} : /\ Emitting(f)' <=> Emitting(f)
                                /\ Processable(f)' <=> Processable(f)
                                /\ successes'[f] = successes[f]
    BY <2>0, <2>1, <2>2, <2>4 DEF Handled, TypeOK, Emitting, Processable
  <2>8. Emitting(e) /\ ~Emitting(e)'
    BY <2>0, <2>1, <2>4 DEF Emitting, EventInv, EmittersApart
  <2>9. /\ Processable(e)' => Processable(e)
        /\ successes'[e] \in {successes[e], successes[e] + 1}
    BY <2>1, <2>2, <2>4 DEF Handled, TypeOK, Processable
  <2>10. AtMostTwice'
    <3>1. \A f \in Events \ {e} : successes'[f] + Possible(f)' <= 2
      BY <2>7 DEF EventInv, AtMostTwice, Possible
    <3>2. successes[e] \in Nat /\ successes[e] + Possible(e) <= 2
      BY <2>1 DEF EventInv, AtMostTwice, TypeOK
    <3>3. successes'[e] + Possible(e)' <= 2
      BY <2>8, <2>9, <3>2 DEF Possible
    <3>4. QED
      BY <3>1, <3>3 DEF AtMostTwice
  <2>11. QED
    BY <2>5, <2>6, <2>10 DEF EventInv
<1>11. ASSUME NEW t \in Threads, BeginProcess(t) PROVE EventInv'
  <2> DEFINE batch == Range1(queue) \ handled
  <2>1. /\ call[t].event = None /\ call[t].batch = {}
        /\ eventLock = None /\ eventLock' = t /\ batch # {}
        /\ UNCHANGED <<queue, handled, successes>>
    BY <1>11, <1>0 DEF BeginProcess
  <2>2. /\ \A s \in Threads \ {t} : call'[s] = call[s]
        /\ call'[t].event = None /\ call'[t].step = "process" /\ call'[t].batch = batch
    BY <1>11 DEF BeginProcess, NoCall, TypeOK
  <2>3. call[t].step # "handle"
    BY <1>11 DEF BeginProcess
  <2>4. EmittersApart'
    BY <2>1, <2>2, <2>3 DEF EventInv, EmittersApart
  <2>5. \A s \in Threads : call[s].step # "process"
    BY <2>1 DEF EventInv, BatchLocked
  <2>6. BatchLocked'
    BY <2>1, <2>2, <2>5 DEF EventInv, BatchLocked, Range1
  <2>7. \A f \in Events : /\ Emitting(f)' <=> Emitting(f)
                          /\ Processable(f)' <=> Processable(f)
    BY <2>1, <2>2 DEF Emitting, Processable
  <2>8. AtMostTwice'
    BY <2>1, <2>7 DEF EventInv, AtMostTwice, Possible
  <2>9. QED
    BY <2>4, <2>6, <2>8 DEF EventInv
<1>12. ASSUME NEW t \in Threads, ProcessEvent(t) PROVE EventInv'
  <2>1. PICK i \in 1..Len(queue) :
          /\ queue[i] \in call[t].batch
          /\ \E outcome \in Outcomes : Handled(queue[i], outcome, TRUE)
          /\ call' = [call EXCEPT ![t] = IF call[t].batch = {queue[i]} THEN NoCall
                                         ELSE [call[t] EXCEPT !.batch = @ \ {queue[i]}]]
          /\ eventLock' = IF call[t].batch = {queue[i]} THEN None ELSE t
    BY <1>12 DEF ProcessEvent
  <2>0. PICK e \in Events : e = queue[i]
    BY DEF TypeOK
  <2>2. e \in call[t].batch
    BY <2>0, <2>1
  <2>3. PICK outcome \in Outcomes : Handled(e, outcome, TRUE)
    BY <2>0, <2>1
  <2>4. call[t].step = "process" /\ call[t].event = None /\ eventLock = t /\ queue' = queue
    BY <1>12, <1>0 DEF ProcessEvent, EventInv, BatchLocked
  <2>5. /\ \A s \in Threads \ {t} : call'[s] = call[s]
        /\ call'[t].event = None /\ call'[t].step # "handle"
        /\ call'[t].batch = call[t].batch \ {e}
        /\ call'[t].step = "process" <=> call[t].batch # {e}
    BY <1>0, <2>0, <2>1, <2>4 DEF NoCall, TypeOK, Calls
  <2>6. EmittersApart'
    BY <2>4, <2>5 DEF EventInv, EmittersApart
  <2>7. \A s \in Threads \ {t} : call[s].step # "process" /\ call[s].batch = {}
    BY <2>4 DEF EventInv, BatchLocked
  <2>8. BatchLocked'
    <3>1. \A s \in Threads \ {t} : call'[s].step # "process" /\ call'[s].batch = {}
      BY <2>5, <2>7
    <3>2. call'[t].batch # {} <=> call[t].batch # {e}
      BY <2>2, <2>5
    <3>3. call'[t].step = "process" => eventLock' = t
      BY <2>0, <2>1, <2>5
    <3>4. call'[t].batch \subseteq Range1(queue)'
      BY <2>4, <2>5 DEF EventInv, BatchLocked, Range1
    <3>5. QED
      BY <2>5, <3>1, <3>2, <3>3, <3>4 DEF BatchLocked
  <2>9. \A f \in Events \ {e} : /\ Emitting(f)' <=> Emitting(f)
                                /\ Processable(f)' <=> Processable(f)
                                /\ successes'[f] = successes[f]
    BY <2>2, <2>3, <2>4, <2>5 DEF Handled, TypeOK, Emitting, Processable
  <2>10. Emitting(e)' <=> Emitting(e)
    BY <2>4, <2>5 DEF Emitting
  <2>11. Processable(e)
    BY <2>2 DEF Processable
  <2>12. Processable(e)' <=> e \notin handled'
    BY <2>5, <2>7 DEF Processable
  <2>13. AtMostTwice'
    <3>1. \A f \in Events \ {e} : successes'[f] + Possible(f)' <= 2
      BY <2>9 DEF EventInv, AtMostTwice, Possible
    <3>2. successes[e] \in Nat /\ successes[e] + Possible(e) <= 2
      BY <2>2 DEF EventInv, AtMostTwice, TypeOK
    <3>3. \/ successes'[e] = successes[e] + 1 /\ e \in handled'
          \/ successes'[e] = successes[e]
      BY <2>3 DEF Handled, TypeOK
    <3>4. successes'[e] + Possible(e)' <= 2
      BY <2>10, <2>11, <2>12, <3>2, <3>3 DEF Possible
    <3>5. QED
      BY <3>1, <3>4 DEF AtMostTwice
  <2>14. QED
    BY <2>6, <2>8, <2>13 DEF EventInv
<1>13. CASE ClearEvents
  <2>1. UNCHANGED <<call, eventLock, handled, successes>> /\ eventLock = None
    BY <1>13 DEF ClearEvents
  <2>2. \A t \in Threads : call[t].step # "process"
    BY <2>1 DEF EventInv, BatchLocked
  <2>3. QED
    BY <2>1, <2>2 DEF EventInv, EmittersApart, BatchLocked, AtMostTwice, Possible, Emitting, Processable
<1>14. CASE UNCHANGED vars
  BY <1>14, EventsQuiet DEF vars, events
<1>15. QED
  BY <1>1, <1>2, <1>3, <1>4, <1>5, <1>6, <1>7, <1>8, <1>9, <1>10, <1>11, <1>12, <1>13, <1>14
     DEF Next, Step

-----------------------------------------------------------------------------
(* Synchronisation.                                                        *)

SyncInv == ReadInOrder /\ RecordedIsCurrent

\* Only BeginSync takes the lock, and only GoOn gives it back, with the last
\* layer of the call that holds it.
LEMMA LockNext == TypeOK /\ SyncLocked /\ [Next]_vars => SyncLocked'
<1> SUFFICES ASSUME TypeOK, SyncLocked, [Next]_vars PROVE SyncLocked'
  OBVIOUS
<1> USE NoneAssumption DEF memory, syncs
<1>0. \A t \in Threads : call[t] \in Calls /\ t # None
  BY DEF TypeOK
<1>q. ASSUME UNCHANGED syncLock, NEW t \in Threads,
             \A s \in Threads \ {t} : call'[s] = call[s],
             Syncing(call'[t]) <=> Syncing(call[t])
      PROVE  SyncLocked'
  BY <1>q DEF SyncLocked
<1>g. ASSUME NEW t \in Threads, GoOn(t), call[t].step \in {"handle", "judge"}
      PROVE  SyncLocked'
  <2>1. \A s \in Threads \ {t} : call'[s] = call[s]
    BY <1>g DEF GoOn, TypeOK
  <2>2. CASE call[t].left = {}
    <3>1. call'[t].step = "idle" /\ syncLock' = IF syncLock = t THEN None ELSE syncLock
      BY <1>g, <2>2 DEF GoOn, NoCall, TypeOK
    <3>2. QED
      BY <1>0, <2>1, <3>1 DEF SyncLocked, Syncing
  <2>3. CASE call[t].left # {}
    <3>1. call'[t].op = call[t].op /\ call'[t].step = "next" /\ syncLock' = syncLock
      BY <1>g, <2>3 DEF GoOn, NoCall, TypeOK
    <3>2. QED
      BY <1>g, <1>q, <2>1, <3>1 DEF Syncing
  <2>4. QED
    BY <2>2, <2>3
<1>1. ASSUME NEW p \in Moving, ChangeDirectly(p) PROVE SyncLocked'
  <2>1. \A s \in Threads : Syncing(call'[s]) <=> Syncing(call[s])
    BY <1>1, OvertakenKeeps DEF ChangeDirectly, Syncing
  <2>2. QED
    BY <1>1, <2>1 DEF ChangeDirectly, SyncLocked
<1>2. CASE ClearEvents
  BY <1>2 DEF ClearEvents, SyncLocked
<1>3. ASSUME NEW t \in Threads, BeginEmit(t) \/ BeginStore(t) \/ BeginProcess(t)
      PROVE  SyncLocked'
  <2>1. /\ \A s \in Threads \ {t} : call'[s] = call[s]
        /\ UNCHANGED syncLock /\ call[t].step = "idle"
    BY <1>3 DEF BeginEmit, BeginStore, BeginProcess, TypeOK
  <2>2. call'[t].op \in {"emit", "store", "process"}
    <3>1. CASE BeginEmit(t)
      BY <3>1 DEF BeginEmit, NoCall, TypeOK
    <3>2. CASE BeginStore(t)
      BY <3>2 DEF BeginStore, NoCall, TypeOK
    <3>3. CASE BeginProcess(t)
      BY <3>3 DEF BeginProcess, NoCall, TypeOK
    <3>4. QED
      BY <1>3, <3>1, <3>2, <3>3
  <2>3. QED
    BY <1>q, <2>1, <2>2 DEF Syncing
<1>4. ASSUME NEW t \in Threads, BeginSync(t) PROVE SyncLocked'
  <2>1. /\ \A s \in Threads \ {t} : call'[s] = call[s]
        /\ syncLock = None /\ syncLock' = t
        /\ call'[t].op = "sync" /\ call'[t].step = "next"
    BY <1>4 DEF BeginSync, NoCall, TypeOK
  <2>2. QED
    BY <1>0, <2>1 DEF SyncLocked, Syncing
<1>5. ASSUME NEW t \in Threads, AppendEvent(t) \/ ReadPart(t) \/ ReportConflict(t) PROVE SyncLocked'
  <2>1. /\ \A s \in Threads \ {t} : call'[s] = call[s] /\ UNCHANGED syncLock
        /\ call[t].step \in {"append", "read", "judge"}
    BY <1>5 DEF AppendEvent, ReadPart, ReportConflict, TypeOK
  <2>2. call'[t].op = call[t].op /\ call'[t].step \in {"handle", "read", "judge", "append"}
    <3>1. CASE AppendEvent(t)
      BY <1>0, <3>1 DEF AppendEvent, TypeOK, Calls
    <3>2. CASE ReadPart(t)
      BY <1>0, <3>2 DEF ReadPart, TypeOK, Calls
    <3>3. CASE ReportConflict(t)
      BY <1>0, <3>3 DEF ReportConflict, TypeOK, Calls
    <3>4. QED
      BY <1>5, <3>1, <3>2, <3>3
  <2>3. UNCHANGED syncLock
    BY <1>5 DEF AppendEvent, ReadPart, ReportConflict
  <2>4. QED
    BY <1>q, <2>1, <2>2, <2>3 DEF Syncing
<1>6. ASSUME NEW t \in Threads, HandleEmitted(t) \/ Record(t) PROVE SyncLocked'
  BY <1>6, <1>g DEF HandleEmitted, Record
<1>7. ASSUME NEW t \in Threads, ProcessEvent(t) PROVE SyncLocked'
  <2>1. /\ \A s \in Threads \ {t} : call'[s] = call[s]
        /\ UNCHANGED syncLock /\ call[t].step = "process"
    BY <1>7 DEF ProcessEvent, TypeOK
  <2>2. PICK e : call'[t] \in {NoCall, [call[t] EXCEPT !.batch = @ \ {e}]}
    BY <1>7 DEF ProcessEvent, TypeOK
  <2>3. call'[t].step \in {"idle", "process"}
    BY <1>0, <2>1, <2>2 DEF NoCall, Calls
  <2>4. QED
    BY <1>q, <2>1, <2>3 DEF Syncing
<1>8. ASSUME NEW t \in Threads, NEW l \in Layers, StoreFails(t, l) PROVE SyncLocked'
  <2>1. /\ UNCHANGED syncLock /\ call[t].op = "store"
        /\ \A s \in Threads \ {t} : call'[s] = call[s]
        /\ call'[t] \in {NoCall, [call[t] EXCEPT !.left = @ \ {l}]}
    BY <1>8 DEF StoreFails, TypeOK
  <2>2. call'[t].step = "idle" \/ call'[t].op = "store"
    <3>1. CASE call'[t] = NoCall
      BY <3>1 DEF NoCall
    <3>2. CASE call'[t] = [call[t] EXCEPT !.left = @ \ {l}]
      BY <1>0, <2>1, <3>2 DEF Calls
    <3>3. QED
      BY <2>1, <3>1, <3>2
  <2>3. QED
    BY <1>q, <2>1, <2>2 DEF Syncing
<1>9. ASSUME NEW t \in Threads, NEW l \in Layers, StoreIn(t, l) PROVE SyncLocked'
  <2> DEFINE p == DestinationOf(l, call[t].dest)
  <2>1. /\ p \in Moving /\ UNCHANGED syncLock /\ call[t].step = "next"
        /\ call' = [Overtaken(p) EXCEPT ![t].step = "append", ![t].left = @ \ {l}, ![t].layer = l]
    BY <1>9 DEF StoreIn
  <2> HIDE DEF p
  <2>2. /\ Overtaken(p) \in [Threads -> Calls]
        /\ \A s \in Threads : /\ Overtaken(p)[s].step = call[s].step
                              /\ Overtaken(p)[s].op = call[s].op
    BY <2>1, OvertakenKeeps
  <2>3. \A s \in Threads \ {t} : call'[s] = Overtaken(p)[s]
    BY <2>1, <2>2
  <2>4. call'[t].step = "append" /\ call'[t].op = call[t].op
    BY <2>1, <2>2 DEF Calls
  <2>5. QED
    BY <2>1, <2>2, <2>3, <2>4 DEF SyncLocked, Syncing
<1>10. ASSUME NEW t \in Threads, NEW l \in Layers, SyncLayer(t, l) PROVE SyncLocked'
  <2>1. /\ UNCHANGED syncLock /\ call[t].step = "next"
        /\ \A s \in Threads \ {t} : call'[s] = call[s]
    BY <1>10 DEF SyncLayer, TypeOK
  <2>2. call'[t].op = call[t].op /\ call'[t].step \in {"judge", "read"}
    BY <1>0, <1>10 DEF SyncLayer, TypeOK, Calls
  <2>3. QED
    BY <1>q, <2>1, <2>2 DEF Syncing
<1>11. CASE UNCHANGED vars
  BY <1>11 DEF vars, SyncLocked
<1>12. QED
  BY <1>1, <1>2, <1>3, <1>4, <1>5, <1>6, <1>7, <1>8, <1>9, <1>10, <1>11 DEF Next, Step

\* A counter is of the layers that list it: the others do not change with it.
LEMMA ValueKept ==
  ASSUME TypeOK, NEW p \in Moving, NEW value, Change(p, value), NEW q \in Moving, q # p
  PROVE  counts'[q] = counts[q]
BY DEF Change, TypeOK

LEMMA DriftedGrows ==
  ASSUME TypeOK, NEW p \in Moving, NEW value, Change(p, value), NEW l \in Layers
  PROVE  /\ drifted[l] \subseteq drifted'[l]
         /\ p \in Range1(PartsOf(l)) => p \in drifted'[l]
BY DEF Change

\* A change of a counter leaves the records that have it behind, and overtakes
\* the calls that have read it.
LEMMA ChangeKeeps ==
  ASSUME TypeOK, SyncInv, NEW p \in Moving, NEW value, Change(p, value),
         UNCHANGED <<version, checksum>>,
         \A s \in Threads : \/ call'[s] = Overtaken(p)[s]
                            \/ call'[s].step \notin {"next", "read", "judge"}
  PROVE  SyncInv'
<1>1. ReadInOrder'
  <2> SUFFICES ASSUME NEW s \in Threads, call'[s].step \in {"next", "read", "judge"}
               PROVE  InOrder(call'[s], counts', drifted')
    BY DEF ReadInOrder, InOrder
  <2> DEFINE c == call[s]
             d == call'[s]
             parts == PartsOf(call[s].layer)
  <2>1. /\ d.step = c.step /\ d.read = c.read /\ d.layer = c.layer /\ d.op = c.op
        /\ d.moved = IF c.step \in {"read", "judge"} /\ p \in AlreadyRead(c)
                     THEN c.moved \cup {p} ELSE c.moved
    <3>1. d = Overtaken(p)[s]
      <4>1. /\ Overtaken(p)[s].step = c.step
            /\ d = Overtaken(p)[s] \/ d.step \notin {"next", "read", "judge"}
        BY OvertakenKeeps
      <4>2. QED
        BY <4>1
    <3>2. QED
      BY <3>1, OvertakenKeeps
  <2>2. InOrder(c, counts, drifted)
    BY DEF SyncInv, ReadInOrder
  <2>3. CASE c.step = "next"
    BY <2>1, <2>2, <2>3 DEF InOrder
  <2>4. CASE c.step \in {"read", "judge"}
    <3>1. /\ c.op = "sync" /\ c.layer \in Layers /\ c.moved \subseteq drifted[c.layer]
          /\ IF c.step = "read" THEN Len(c.read) < Len(parts) ELSE Len(c.read) = Len(parts)
          /\ \A i \in 1..Len(c.read) : parts[i] \in c.moved \/ c.read[i] = counts[parts[i]]
      BY <2>2, <2>4 DEF InOrder
    <3>2. Len(c.read) \in Nat /\ Len(parts) \in Nat /\ \A i \in 1..Len(parts) : parts[i] \in Moving
      BY <3>1, CountersOf DEF TypeOK, Calls
    <3>3. 1..Len(c.read) \subseteq 1..Len(parts)
      BY <3>1, <3>2
    <3>4. p \in AlreadyRead(c) => p \in Range1(parts)
      BY <3>3 DEF AlreadyRead, Range1
    <3>5. d.moved \subseteq drifted'[c.layer]
      BY <2>1, <3>1, <3>4, DriftedGrows
    <3>6. ASSUME NEW i \in 1..Len(c.read)
          PROVE  parts[i] \in d.moved \/ c.read[i] = counts'[parts[i]]
      <4>1. CASE parts[i] = p
        BY <2>1, <2>4, <4>1 DEF AlreadyRead
      <4>2. CASE parts[i] # p
        <5>1. counts'[parts[i]] = counts[parts[i]]
          BY <3>2, <3>3, <4>2, ValueKept
        <5>2. QED
          BY <2>1, <3>1, <5>1
      <4>3. QED
        BY <4>1, <4>2
    <3>7. QED
      BY <2>1, <2>4, <3>1, <3>5, <3>6 DEF InOrder
  <2>5. QED
    BY <2>1, <2>3, <2>4
<1>2. RecordedIsCurrent'
  <2> SUFFICES ASSUME NEW l \in Layers, version'[l] > 0
               PROVE  /\ Len(checksum'[l]) = Len(PartsOf(l))
                      /\ \A i \in 1..Len(PartsOf(l)) :
                           \/ PartsOf(l)[i] \in drifted'[l]
                           \/ checksum'[l][i] = counts'[PartsOf(l)[i]]
    BY DEF RecordedIsCurrent
  <2>1. /\ Len(checksum[l]) = Len(PartsOf(l))
        /\ \A i \in 1..Len(PartsOf(l)) :
             PartsOf(l)[i] \in drifted[l] \/ checksum[l][i] = counts[PartsOf(l)[i]]
    BY DEF SyncInv, RecordedIsCurrent
  <2>2. ASSUME NEW i \in 1..Len(PartsOf(l)), PartsOf(l)[i] \notin drifted'[l]
        PROVE  checksum[l][i] = counts'[PartsOf(l)[i]]
    <3>1. PartsOf(l)[i] \in Moving /\ PartsOf(l)[i] \in Range1(PartsOf(l))
      BY CountersOf DEF Range1
    <3>2. PartsOf(l)[i] # p /\ PartsOf(l)[i] \notin drifted[l]
      BY <2>2, <3>1, DriftedGrows
    <3>3. QED
      BY <2>1, <3>1, <3>2, ValueKept
  <2>3. QED
    BY <2>1, <2>2
<1>3. QED
  BY <1>1, <1>2 DEF SyncInv

\* A step that leaves memory and records alone and in which no call reads.
LEMMA SyncQuiet ==
  ASSUME SyncInv, UNCHANGED <<counts, drifted, version, checksum>>,
         \A s \in Threads :
           \/ call'[s] = call[s]
           \/ call'[s].step \notin {"next", "read", "judge"}
           \/ call'[s].step = "next" /\ call'[s].read = <<>> /\ call'[s].moved = {}
  PROVE  SyncInv'
<1>1. ReadInOrder'
  <2> SUFFICES ASSUME NEW s \in Threads PROVE InOrder(call'[s], counts, drifted)
    BY DEF ReadInOrder
  <2>1. InOrder(call[s], counts, drifted)
    BY DEF SyncInv, ReadInOrder
  <2>2. CASE call'[s] = call[s]
    BY <2>1, <2>2
  <2>3. CASE call'[s].step \notin {"next", "read", "judge"}
    BY <2>3 DEF InOrder
  <2>4. CASE call'[s].step = "next" /\ call'[s].read = <<>> /\ call'[s].moved = {}
    BY <2>4 DEF InOrder
  <2>5. QED
    BY <2>2, <2>3, <2>4
<1>2. RecordedIsCurrent'
  BY DEF SyncInv, RecordedIsCurrent
<1>3. QED
  BY <1>1, <1>2 DEF SyncInv

\* A synchronisation records what it has read in full, and the counters that
\* changed since each was read.
LEMMA SyncNext == TypeOK /\ SyncLocked /\ SyncInv /\ [Next]_vars => SyncInv'
<1> SUFFICES ASSUME TypeOK, SyncLocked, SyncInv, [Next]_vars PROVE SyncInv'
  OBVIOUS
<1> USE DEF memory, syncs
<1>0. \A t \in Threads : call[t] \in Calls
  BY DEF TypeOK
<1>a. ASSUME NEW t \in Threads, GoOn(t)
      PROVE  /\ \A s \in Threads \ {t} : call'[s] = call[s]
             /\ \/ call'[t].step = "idle"
                \/ call'[t].step = "next" /\ call'[t].read = <<>> /\ call'[t].moved = {}
  BY <1>a DEF GoOn, NoCall, TypeOK
<1>1. ASSUME NEW p \in Moving, ChangeDirectly(p) PROVE SyncInv'
  BY <1>1, ChangeKeeps DEF ChangeDirectly
<1>2. CASE ClearEvents
  BY <1>2, SyncQuiet DEF ClearEvents
<1>3. ASSUME NEW t \in Threads, BeginEmit(t) \/ BeginStore(t) \/ BeginSync(t) \/ BeginProcess(t)
      PROVE  SyncInv'
  <2>1. UNCHANGED <<counts, drifted, version, checksum>>
    BY <1>3 DEF BeginEmit, BeginStore, BeginSync, BeginProcess
  <2>2. /\ \A s \in Threads \ {t} : call'[s] = call[s]
        /\ \/ call'[t].step \notin {"next", "read", "judge"}
           \/ call'[t].step = "next" /\ call'[t].read = <<>> /\ call'[t].moved = {}
    <3>1. CASE BeginEmit(t)
      BY <3>1 DEF BeginEmit, NoCall, TypeOK
    <3>2. CASE BeginStore(t)
      BY <3>2 DEF BeginStore, NoCall, TypeOK
    <3>3. CASE BeginSync(t)
      BY <3>3 DEF BeginSync, NoCall, TypeOK
    <3>4. CASE BeginProcess(t)
      BY <3>4 DEF BeginProcess, NoCall, TypeOK
    <3>5. QED
      BY <1>3, <3>1, <3>2, <3>3, <3>4
  <2>3. QED
    BY <2>1, <2>2, SyncQuiet
<1>4. ASSUME NEW t \in Threads, AppendEvent(t) \/ ReportConflict(t) PROVE SyncInv'
  <2>1. /\ UNCHANGED <<counts, drifted, version, checksum>>
        /\ \A s \in Threads \ {t} : call'[s] = call[s]
        /\ call'[t].step \in {"handle", "append"}
    <3>1. CASE AppendEvent(t)
      BY <1>0, <3>1 DEF AppendEvent, TypeOK, Calls
    <3>2. CASE ReportConflict(t)
      BY <1>0, <3>2 DEF ReportConflict, TypeOK, Calls
    <3>3. QED
      BY <1>4, <3>1, <3>2
  <2>2. QED
    BY <2>1, SyncQuiet
<1>5. ASSUME NEW t \in Threads, HandleEmitted(t) PROVE SyncInv'
  <2>1. UNCHANGED <<counts, drifted, version, checksum>>
    BY <1>5 DEF HandleEmitted
  <2>2. QED
    BY <1>5, <1>a, <2>1, SyncQuiet DEF HandleEmitted
<1>6. ASSUME NEW t \in Threads, ProcessEvent(t) PROVE SyncInv'
  <2>1. /\ UNCHANGED <<counts, drifted, version, checksum>>
        /\ \A s \in Threads \ {t} : call'[s] = call[s]
    BY <1>6 DEF ProcessEvent, TypeOK
  <2>2. PICK e : call'[t] \in {NoCall, [call[t] EXCEPT !.batch = @ \ {e}]}
    BY <1>6 DEF ProcessEvent, TypeOK
  <2>3. call'[t].step \in {"idle", "process"}
    BY <1>0, <1>6, <2>2 DEF ProcessEvent, NoCall, Calls
  <2>4. QED
    BY <2>1, <2>3, SyncQuiet
<1>7. ASSUME NEW t \in Threads, NEW l \in Layers, StoreFails(t, l) PROVE SyncInv'
  <2>1. /\ UNCHANGED <<counts, drifted, version, checksum>> /\ call[t].step = "next"
        /\ \A s \in Threads \ {t} : call'[s] = call[s]
        /\ call'[t] \in {NoCall, [call[t] EXCEPT !.left = @ \ {l}]}
    BY <1>7 DEF StoreFails, TypeOK
  <2>2. \/ call'[t].step = "idle"
        \/ /\ call'[t].step = "next" /\ call'[t].read = call[t].read
           /\ call'[t].moved = call[t].moved
    <3>1. CASE call'[t] = NoCall
      BY <3>1 DEF NoCall
    <3>2. CASE call'[t] = [call[t] EXCEPT !.left = @ \ {l}]
      BY <1>0, <2>1, <3>2 DEF Calls
    <3>3. QED
      BY <2>1, <3>1, <3>2
  <2>3. call[t].read = <<>> /\ call[t].moved = {}
    BY <2>1 DEF SyncInv, ReadInOrder, InOrder
  <2>4. QED
    BY <2>1, <2>2, <2>3, SyncQuiet
<1>8. ASSUME NEW t \in Threads, NEW l \in Layers, StoreIn(t, l) PROVE SyncInv'
  <2> DEFINE p == DestinationOf(l, call[t].dest)
  <2>1. /\ p \in Moving /\ Change(p, counts[p] + 1) /\ UNCHANGED <<version, checksum>>
        /\ call' = [Overtaken(p) EXCEPT ![t].step = "append", ![t].left = @ \ {l}, ![t].layer = l]
    BY <1>8 DEF StoreIn
  <2>2. Overtaken(p) \in [Threads -> Calls]
    BY <2>1, OvertakenKeeps
  <2> HIDE DEF p
  <2>3. \A s \in Threads \ {t} : call'[s] = Overtaken(p)[s]
    BY <2>1, <2>2
  <2>4. call'[t].step = "append"
    BY <2>1, <2>2 DEF Calls
  <2>5. QED
    BY <2>1, <2>3, <2>4, ChangeKeeps
<1>9. ASSUME NEW t \in Threads, NEW l \in Layers, SyncLayer(t, l) PROVE SyncInv'
  <2>1. /\ UNCHANGED <<counts, drifted, version, checksum>>
        /\ call[t].step = "next" /\ call[t].op = "sync"
        /\ \A s \in Threads \ {t} : call'[s] = call[s]
    BY <1>9 DEF SyncLayer, TypeOK
  <2>2. /\ call'[t].step = IF PartsOf(l) = <<>> THEN "judge" ELSE "read"
        /\ call'[t].layer = l /\ call'[t].read = call[t].read /\ call'[t].moved = call[t].moved
        /\ call'[t].op = call[t].op
    BY <1>0, <1>9 DEF SyncLayer, TypeOK, Calls
  <2>3. call[t].read = <<>> /\ call[t].moved = {}
    BY <2>1 DEF SyncInv, ReadInOrder, InOrder
  <2>4. /\ PartsOf(l) \in Seq(Moving) /\ Len(PartsOf(l)) \in Nat
        /\ PartsOf(l) = <<>> <=> Len(PartsOf(l)) = 0
    BY CountersOf
  <2>5. InOrder(call'[t], counts, drifted)
    BY <2>1, <2>2, <2>3, <2>4 DEF InOrder
  <2>6. ReadInOrder'
    BY <2>1, <2>5 DEF SyncInv, ReadInOrder
  <2>7. QED
    BY <2>1, <2>6 DEF SyncInv, RecordedIsCurrent
<1>10. ASSUME NEW t \in Threads, ReadPart(t) PROVE SyncInv'
  <2> DEFINE parts == PartsOf(call[t].layer)
             next == counts[parts[Len(call[t].read) + 1]]
             read == Append(call[t].read, next)
             moved == call[t].moved
  <2>1. /\ UNCHANGED <<counts, drifted, version, checksum>> /\ call[t].step = "read"
        /\ \A s \in Threads \ {t} : call'[s] = call[s]
    BY <1>10 DEF ReadPart, TypeOK
  <2>2. /\ call'[t].step = IF Len(read) = Len(parts) THEN "judge" ELSE "read"
        /\ call'[t].read = read /\ call'[t].op = call[t].op
        /\ call'[t].layer = call[t].layer /\ call'[t].moved = moved
    BY <1>0, <1>10 DEF ReadPart, TypeOK, Calls
  <2>3. /\ call[t].op = "sync" /\ call[t].layer \in Layers /\ moved \subseteq drifted[call[t].layer]
        /\ Len(call[t].read) < Len(parts)
        /\ \A i \in 1..Len(call[t].read) : parts[i] \in moved \/ call[t].read[i] = counts[parts[i]]
    BY <2>1 DEF SyncInv, ReadInOrder, InOrder
  <2>4. /\ Len(parts) \in Nat /\ Len(call[t].read) \in Nat /\ call[t].read \in Seq(0..MaxCount)
        /\ Len(read) = Len(call[t].read) + 1
        /\ \A i \in 1..Len(call[t].read) : read[i] = call[t].read[i]
        /\ read[Len(read)] = next
    <3>1. call[t].read \in Seq(0..MaxCount) /\ Len(call[t].read) \in Nat
      BY <1>0 DEF Calls
    <3>2. Len(parts) \in Nat
      BY <2>3, CountersOf
    <3> HIDE DEF next
    <3>3. QED
      BY <3>1, <3>2
  <2>5. /\ IF call'[t].step = "read" THEN Len(read) < Len(parts) ELSE Len(read) = Len(parts)
        /\ \A i \in 1..Len(read) : parts[i] \in moved \/ read[i] = counts[parts[i]]
    <3> HIDE DEF read, parts, moved
    <3>1. IF call'[t].step = "read" THEN Len(read) < Len(parts) ELSE Len(read) = Len(parts)
      BY <2>2, <2>3, <2>4
    <3>2. ASSUME NEW i \in 1..Len(read), parts[i] \notin moved PROVE read[i] = counts[parts[i]]
      <4>1. CASE i \in 1..Len(call[t].read)
        BY <2>3, <2>4, <3>2, <4>1
      <4>2. CASE i = Len(read)
        BY <2>4, <4>2
      <4>3. QED
        BY SMTT(30), <2>4, <3>2, <4>1, <4>2
    <3>3. QED
      BY <3>1, <3>2
  <2>6. ReadInOrder'
    <3> HIDE DEF read, parts, moved
    <3>1. InOrder(call'[t], counts, drifted)
      BY <2>2, <2>3, <2>5 DEF parts, InOrder
    <3>2. QED
      BY <2>1, <3>1 DEF SyncInv, ReadInOrder
  <2>7. QED
    BY <2>1, <2>6 DEF SyncInv, RecordedIsCurrent
<1>11. ASSUME NEW t \in Threads, Record(t) PROVE SyncInv'
  <2> DEFINE l == call[t].layer
             read == call[t].read
  <2>1. /\ call[t].step = "judge" /\ counts' = counts /\ GoOn(t)
        /\ version' = [version EXCEPT ![l] = 1]
        /\ checksum' = [checksum EXCEPT ![l] = read]
        /\ drifted' = [drifted EXCEPT ![l] = call[t].moved]
    BY <1>11 DEF Record
  <2>2. /\ call[t].op = "sync" /\ l \in Layers /\ Len(read) = Len(PartsOf(l))
        /\ \A i \in 1..Len(read) :
             PartsOf(l)[i] \in call[t].moved \/ read[i] = counts[PartsOf(l)[i]]
    BY <2>1 DEF SyncInv, ReadInOrder, InOrder
  <2>3. RecordedIsCurrent'
    <3> SUFFICES ASSUME NEW k \in Layers, version'[k] > 0
                 PROVE  /\ Len(checksum'[k]) = Len(PartsOf(k))
                        /\ \A i \in 1..Len(PartsOf(k)) :
                             \/ PartsOf(k)[i] \in drifted'[k]
                             \/ checksum'[k][i] = counts[PartsOf(k)[i]]
      BY <2>1 DEF RecordedIsCurrent
    <3>1. CASE k = l
      <4>1. checksum'[k] = read /\ drifted'[k] = call[t].moved
        BY <2>1, <3>1 DEF TypeOK
      <4>2. QED
        BY <2>2, <3>1, <4>1
    <3>2. CASE k # l
      BY <2>1, <3>2 DEF TypeOK, SyncInv, RecordedIsCurrent
    <3>3. QED
      BY <3>1, <3>2
  \* No other call is reading: this one holds the lock.
  <2>4. \A s \in Threads \ {t} : call[s].step \notin {"read", "judge"}
    <3> SUFFICES ASSUME NEW s \in Threads \ {t}, call[s].step \in {"read", "judge"} PROVE FALSE
      OBVIOUS
    <3>1. Syncing(call[t])
      BY <2>1, <2>2 DEF Syncing
    <3>2. Syncing(call[s])
      BY DEF SyncInv, ReadInOrder, InOrder, Syncing
    <3>3. QED
      BY <3>1, <3>2 DEF SyncLocked
  <2>5. ReadInOrder'
    <3> SUFFICES ASSUME NEW s \in Threads PROVE InOrder(call'[s], counts', drifted')
      BY DEF ReadInOrder
    <3>1. CASE s = t
      BY <1>a, <2>1, <3>1 DEF InOrder
    <3>2. CASE s # t
      <4>1. call'[s] = call[s] /\ call[s].step \notin {"read", "judge"}
        BY <1>a, <2>1, <2>4, <3>2
      <4>2. InOrder(call[s], counts, drifted)
        BY DEF SyncInv, ReadInOrder
      <4>3. QED
        BY <4>1, <4>2 DEF InOrder
    <3>3. QED
      BY <3>1, <3>2
  <2>6. QED
    BY <2>3, <2>5 DEF SyncInv
<1>12. CASE UNCHANGED vars
  BY <1>12, SyncQuiet DEF vars
<1>13. QED
  BY <1>1, <1>2, <1>3, <1>4, <1>5, <1>6, <1>7, <1>8, <1>9, <1>10, <1>11, <1>12 DEF Next, Step

-----------------------------------------------------------------------------
\* The types, the emitters, the batches, the readers and the records together
\* are inductive.
LEMMA NextInv == Inv /\ [Next]_vars => Inv'
BY TypesNext, EventsNext, LockNext, SyncNext DEF Inv, EventInv, SyncInv

\* An event is accepted by its emitter and by one process_events at most.
THEOREM EventsAcceptedAtMostTwice == Spec => []AcceptedAtMostTwice
<1>1. Inv => AcceptedAtMostTwice
  <2> SUFFICES ASSUME Inv, NEW e \in Events PROVE successes[e] <= 2
    BY DEF AcceptedAtMostTwice
  <2>1. successes[e] \in Nat /\ successes[e] + Possible(e) <= 2
    BY DEF Inv, TypeOK, AtMostTwice
  <2>2. Possible(e) \in 0..2
    BY DEF Possible
  <2>3. QED
    BY <2>1, <2>2
<1>2. QED
  BY <1>1, InitInv, NextInv, PTL DEF Spec

\* A conflict is found only in a layer of which a counter changed since it was
\* read for the record, and the other counters have the values recorded: while
\* one thread reads a layer, the lock keeps the others from replacing the
\* record that it will be compared with.
THEOREM ConflictsAlwaysExplained == Spec => []ConflictsExplained
<1>1. ASSUME Inv PROVE NoConflictWithoutCause
  <2> SUFFICES ASSUME NEW t \in Threads, call[t].step = "judge", Conflicting(t),
                      drifted[call[t].layer] = {}
               PROVE  FALSE
    BY DEF NoConflictWithoutCause
  <2> DEFINE l == call[t].layer
             read == call[t].read
  <2>1. /\ l \in Layers /\ Len(read) = Len(PartsOf(l))
        /\ \A i \in 1..Len(read) : read[i] = counts[PartsOf(l)[i]]
    BY <1>1 DEF Inv, ReadInOrder, InOrder
  <2>2. version[l] > 0 /\ checksum[l] # read
    BY DEF Conflicting
  <2>3. /\ Len(checksum[l]) = Len(PartsOf(l))
        /\ \A i \in 1..Len(PartsOf(l)) : checksum[l][i] = counts[PartsOf(l)[i]]
    BY <1>1, <2>1, <2>2 DEF Inv, RecordedIsCurrent
  <2>4. read \in Seq(0..MaxCount) /\ checksum[l] \in Seq(0..MaxCount)
    BY <1>1, <2>1 DEF Inv, TypeOK, Calls
  <2> HIDE DEF l, read
  <2>5. \A i \in 1..Len(read) : checksum[l][i] = read[i]
    BY <2>1, <2>3
  <2>6. Len(checksum[l]) = Len(read)
    BY <2>1, <2>3
  <2>7. checksum[l] = read
    BY <2>4, <2>5, <2>6
  <2>8. QED
    BY <2>2, <2>7
<1>2. Inv => ConflictsExplained
  BY <1>1 DEF Inv, ConflictsExplained
<1>3. QED
  BY <1>2, InitInv, NextInv, PTL DEF Spec

-----------------------------------------------------------------------------
(* The history of a conversation.                                          *)

\* What Python's s[-k:] returns, whatever the sign of k.
LEMMA LastOfIs ==
  ASSUME NEW S, NEW s \in Seq(S), NEW k \in Int
  PROVE  /\ From(s, k) \in Nat \ {0}
         /\ LastOf(s, k) \in Seq(S)
         /\ Len(LastOf(s, k)) = IF From(s, k) <= Len(s) THEN Len(s) - From(s, k) + 1 ELSE 0
         /\ \A i \in 1..Len(LastOf(s, k)) :
              /\ From(s, k) - 1 + i \in 1..Len(s)
              /\ LastOf(s, k)[i] = s[From(s, k) - 1 + i]
<1>1. From(s, k) \in Nat \ {0}
  BY DEF From
<1> DEFINE a == From(s, k)
<1> HIDE DEF a
<1>2. a \in Nat \ {0}
  BY <1>1 DEF a
<1> DEFINE r == SubSeq(s, a, Len(s))
<1>3. r \in Seq(S) /\ Len(r) = IF a <= Len(s) THEN Len(s) - a + 1 ELSE 0
  BY <1>2
<1>4. \A i \in 1..Len(r) : a - 1 + i \in 1..Len(s) /\ r[i] = s[a - 1 + i]
  BY <1>2
<1>5. QED
  BY <1>2, <1>3, <1>4 DEF a, LastOf

\* What s[:k] returns.
LEMMA FirstOfIs ==
  ASSUME NEW S, NEW s \in Seq(S), NEW k \in Nat
  PROVE  /\ FirstOf(s, k) \in Seq(S)
         /\ Len(FirstOf(s, k)) = IF k < Len(s) THEN k ELSE Len(s)
         /\ \A i \in 1..Len(FirstOf(s, k)) : FirstOf(s, k)[i] = s[i]
BY DEF FirstOf

\* One history is part of another: what stands at some of its places, in their
\* order.
PartOf(r, s) == \E f \in [1..Len(r) -> 1..Len(s)] :
                  /\ \A i \in 1..Len(r) : r[i] = s[f[i]]
                  /\ \A i, j \in 1..Len(r) : i < j => f[i] < f[j]

\* The end of a history is part of it.
LEMMA LastIsPart ==
  ASSUME NEW s \in Seq(Messages), NEW k \in Int
  PROVE  PartOf(LastOf(s, k), s)
<1> DEFINE f == [i \in 1..Len(LastOf(s, k)) |-> From(s, k) - 1 + i]
<1>1. /\ From(s, k) \in Nat \ {0}
      /\ Len(LastOf(s, k)) \in Nat
      /\ \A i \in 1..Len(LastOf(s, k)) : /\ From(s, k) - 1 + i \in 1..Len(s)
                                         /\ LastOf(s, k)[i] = s[From(s, k) - 1 + i]
  BY LastOfIs
<1>2. f \in [1..Len(LastOf(s, k)) -> 1..Len(s)]
  BY <1>1
<1>3. \A i \in 1..Len(LastOf(s, k)) : LastOf(s, k)[i] = s[f[i]]
  BY <1>1
<1>4. \A i, j \in 1..Len(LastOf(s, k)) : i < j => f[i] < f[j]
  BY <1>1
<1>5. QED
  BY <1>2, <1>3, <1>4 DEF PartOf

\* The places that selective truncation keeps: the important ones and those of
\* the slice, which is never empty; they are no more than max_messages when the
\* important messages are fewer.
KeptPlaces(s) == Important(s) \cup (From(s, MaxMessages - Cardinality(Important(s)))..Len(s))

LEMMA KeptPlacesAre ==
  ASSUME NEW s \in Seq(Messages), Len(s) > 0
  PROVE  /\ Cardinality(Important(s)) \in Nat /\ Cardinality(Important(s)) <= Len(s)
         /\ KeptPlaces(s) \in SUBSET (1..Len(s))
         /\ Important(s) \subseteq KeptPlaces(s)
         /\ Len(s) \in KeptPlaces(s)
         /\ Cardinality(Important(s)) < MaxMessages => Cardinality(KeptPlaces(s)) <= MaxMessages
<1> DEFINE c == Cardinality(Important(s))
           a == From(s, MaxMessages - c)
<1>1. Important(s) \in SUBSET (1..Len(s))
  BY DEF Important
<1>2. c \in Nat /\ c <= Len(s) /\ IsFiniteSet(Important(s))
  BY <1>1, AtPlacesIs
<1>3. MaxMessages \in Nat \ {0} /\ Len(s) \in Nat
  BY MaxMessagesAssumption
<1> HIDE DEF c
<1>4. a \in 1..Len(s) /\ (c < MaxMessages => Len(s) - a + 1 <= MaxMessages - c)
  BY <1>2, <1>3 DEF From
<1> HIDE DEF a
<1>5. KeptPlaces(s) = Important(s) \cup (a..Len(s))
  BY DEF KeptPlaces, a, c
<1>6. ASSUME c < MaxMessages PROVE Cardinality(KeptPlaces(s)) <= MaxMessages
  <2>1. a \in Int /\ Len(s) \in Int /\ ~(a > Len(s))
    BY <1>3, <1>4
  <2>2. IsFiniteSet(a..Len(s)) /\ Cardinality(a..Len(s)) = Len(s) - a + 1
    BY <2>1, FS_Interval
  <2>3. IsFiniteSet(Important(s) \cap (a..Len(s)))
    BY <2>2, FS_Subset
  <2>4. /\ Cardinality(KeptPlaces(s))
             = c + Cardinality(a..Len(s)) - Cardinality(Important(s) \cap (a..Len(s)))
        /\ Cardinality(Important(s) \cap (a..Len(s))) \in Nat
    BY <1>2, <1>5, <2>2, <2>3, FS_Union, FS_CardinalityType DEF c
  <2>5. QED
    BY <1>2, <1>3, <1>4, <1>6, <2>1, <2>2, <2>4
<1>7. QED
  BY <1>1, <1>2, <1>3, <1>4, <1>5, <1>6 DEF c

\* What selective truncation returns.
LEMMA SelectiveIs ==
  ASSUME NEW s \in Seq(Messages), Len(s) > 0
  PROVE  LET I == KeptPlaces(s)
             n == IF MaxMessages < Cardinality(I) THEN MaxMessages ELSE Cardinality(I)
         IN  /\ n \in Nat \ {0} /\ Ascending(I) \in [1..Cardinality(I) -> I]
             /\ Selective(s) \in Seq(Messages) /\ Len(Selective(s)) = n
             /\ \A j \in 1..n : Selective(s)[j] = s[Ascending(I)[j]]
<1> DEFINE I == KeptPlaces(s)
           c == Cardinality(I)
<1>1. I \in SUBSET (1..Len(s)) /\ Len(s) \in I
  BY KeptPlacesAre
<1>2. MaxMessages \in Nat \ {0}
  BY MaxMessagesAssumption
<1>3. Selective(s) = FirstOf(AtPlaces(s, I), MaxMessages)
  BY DEF Selective, KeptPlaces
<1> HIDE DEF I
<1>4. /\ c \in Nat /\ AtPlaces(s, I) \in Seq(Messages) /\ Len(AtPlaces(s, I)) = c
      /\ Ascending(I) \in [1..c -> I]
      /\ \A j \in 1..c : AtPlaces(s, I)[j] = s[Ascending(I)[j]]
      /\ \A i \in I : \E k \in 1..c : Ascending(I)[k] = i
  BY <1>1, AtPlacesIs
<1> HIDE DEF c
<1>5. c # 0
  BY <1>1, <1>4
<1>6. /\ Selective(s) \in Seq(Messages)
      /\ Len(Selective(s)) = IF MaxMessages < c THEN MaxMessages ELSE c
      /\ \A i \in 1..Len(Selective(s)) : Selective(s)[i] = AtPlaces(s, I)[i]
  BY <1>2, <1>3, <1>4, FirstOfIs
<1> DEFINE n == IF MaxMessages < c THEN MaxMessages ELSE c
<1>7. n \in Nat \ {0} /\ n <= c
  BY <1>2, <1>4, <1>5
<1> HIDE DEF n
<1>8. \A j \in 1..n : Selective(s)[j] = s[Ascending(I)[j]]
  BY <1>4, <1>6, <1>7 DEF n
<1>9. QED
  BY <1>4, <1>6, <1>7, <1>8 DEF I, c, n

LEMMA SelectiveIsPart ==
  ASSUME NEW s \in Seq(Messages), Len(s) > 0
  PROVE  PartOf(Selective(s), s)
<1> DEFINE I == KeptPlaces(s)
           c == Cardinality(I)
           n == IF MaxMessages < c THEN MaxMessages ELSE c
           f == [j \in 1..n |-> Ascending(I)[j]]
<1>1. /\ n \in Nat \ {0} /\ Ascending(I) \in [1..c -> I]
      /\ Len(Selective(s)) = n
      /\ \A j \in 1..n : Selective(s)[j] = s[Ascending(I)[j]]
  BY SelectiveIs
<1>2. I \in SUBSET (1..Len(s))
  BY KeptPlacesAre
<1> HIDE DEF I
<1>3. c \in Nat /\ \A j, k \in 1..c : j < k => Ascending(I)[j] < Ascending(I)[k]
  BY <1>2, AtPlacesIs
<1> HIDE DEF c
<1>4. \A j \in 1..n : j \in 1..c
  BY <1>3, MaxMessagesAssumption
<1> HIDE DEF n
<1>5. \A j \in 1..n : Ascending(I)[j] \in 1..Len(s)
  BY <1>1, <1>2, <1>4
<1>6. f \in [1..n -> 1..Len(s)]
  BY <1>5
<1>7. \A i, j \in 1..n : i < j => f[i] < f[j]
  BY <1>3, <1>4
<1>8. \A i \in 1..n : Selective(s)[i] = s[f[i]]
  BY <1>1
<1> HIDE DEF f
<1>9. QED
  BY <1>1, <1>6, <1>7, <1>8 DEF PartOf

\* What summary-based truncation returns when the history opens with a system
\* prompt: the prompt, then the end of the history.
LEMMA SummaryIs ==
  ASSUME NEW s \in Seq(Messages), Len(s) > MaxMessages, s[1].system
  PROVE  LET r == LastOf(s, MaxMessages - 1) IN
         /\ r \in Seq(Messages) /\ SummaryBased(s) = <<s[1]>> \o r
         /\ SummaryBased(s) \in Seq(Messages) /\ Len(SummaryBased(s)) = Len(r) + 1
         /\ SummaryBased(s)[1] = s[1]
         /\ \A i \in 1..Len(r) : SummaryBased(s)[i + 1] = r[i]
         /\ Len(r) = IF MaxMessages > 1 THEN MaxMessages - 1 ELSE Len(s)
         /\ \A i \in 1..Len(r) : /\ Len(s) - Len(r) + i \in 1..Len(s)
                                 /\ r[i] = s[Len(s) - Len(r) + i]
<1> DEFINE r == LastOf(s, MaxMessages - 1)
           a == From(s, MaxMessages - 1)
<1>1. MaxMessages \in Nat \ {0} /\ Len(s) \in Nat /\ s[1] \in Messages
  BY MaxMessagesAssumption
<1>2. a = IF MaxMessages > 1 THEN Len(s) - MaxMessages + 2 ELSE 1
  BY <1>1 DEF From
<1>3. /\ r \in Seq(Messages)
      /\ Len(r) = IF a <= Len(s) THEN Len(s) - a + 1 ELSE 0
      /\ \A i \in 1..Len(r) : a - 1 + i \in 1..Len(s) /\ r[i] = s[a - 1 + i]
  BY <1>1, LastOfIs
<1> HIDE DEF a, r
<1>4. Len(r) = (IF MaxMessages > 1 THEN MaxMessages - 1 ELSE Len(s)) /\ a - 1 = Len(s) - Len(r)
  <2>1. CASE MaxMessages > 1
    <3>1. a = Len(s) - MaxMessages + 2 /\ a <= Len(s)
      BY <1>1, <1>2, <2>1
    <3>2. QED
      BY <1>1, <1>3, <2>1, <3>1
  <2>2. CASE ~(MaxMessages > 1)
    <3>1. a = 1 /\ a <= Len(s)
      BY <1>1, <1>2, <2>2
    <3>2. QED
      BY <1>1, <1>3, <2>2, <3>1
  <2>3. QED
    BY <2>1, <2>2
<1>5. \A i \in 1..Len(r) : Len(s) - Len(r) + i \in 1..Len(s) /\ r[i] = s[Len(s) - Len(r) + i]
  BY <1>3, <1>4
<1>6. SummaryBased(s) = <<s[1]>> \o r
  BY DEF SummaryBased, r
<1> DEFINE p == <<s[1]>> \o r
<1>7. p \in Seq(Messages) /\ Len(p) = Len(r) + 1 /\ p[1] = s[1]
  BY <1>1, <1>3
<1>8. \A i \in 1..Len(r) : p[i + 1] = r[i]
  BY <1>3
<1>9. QED
  BY <1>3, <1>4, <1>5, <1>6, <1>7, <1>8 DEF r

LEMMA SummaryIsPart ==
  ASSUME NEW s \in Seq(Messages), Len(s) > MaxMessages, MaxMessages > 1, s[1].system
  PROVE  PartOf(SummaryBased(s), s)
<1> DEFINE r == LastOf(s, MaxMessages - 1)
           f == [i \in 1..Len(r) + 1 |-> IF i = 1 THEN 1 ELSE Len(s) - Len(r) + i - 1]
<1>1. /\ r \in Seq(Messages) /\ Len(SummaryBased(s)) = Len(r) + 1
      /\ SummaryBased(s)[1] = s[1]
      /\ \A i \in 1..Len(r) : SummaryBased(s)[i + 1] = r[i]
      /\ Len(r) = MaxMessages - 1
      /\ \A i \in 1..Len(r) : r[i] = s[Len(s) - Len(r) + i]
  BY SummaryIs
<1> HIDE DEF r
<1>2. MaxMessages \in Nat /\ Len(s) \in Nat /\ Len(r) \in Nat
  BY <1>1, MaxMessagesAssumption
<1>3. f \in [1..Len(r) + 1 -> 1..Len(s)]
  BY <1>1, <1>2
<1>4. \A i, j \in 1..Len(r) + 1 : i < j => f[i] < f[j]
  BY <1>1, <1>2
<1>5. ASSUME NEW i \in 1..Len(r) + 1 PROVE SummaryBased(s)[i] = s[f[i]]
  <2>1. CASE i = 1
    BY <1>1, <1>2, <2>1
  <2>2. CASE i # 1
    <3>1. i - 1 \in 1..Len(r) /\ (i - 1) + 1 = i
      BY <1>2, <2>2
    <3>2. SummaryBased(s)[i] = r[i - 1]
      BY <1>1, <3>1
    <3>3. r[i - 1] = s[Len(s) - Len(r) + (i - 1)]
      BY <1>1, <3>1
    <3>4. f[i] = Len(s) - Len(r) + (i - 1)
      BY <1>2, <2>2
    <3>5. QED
      BY <3>2, <3>3, <3>4
  <2>3. QED
    BY <2>1, <2>2
<1> HIDE DEF f
<1>6. QED
  BY <1>1, <1>3, <1>4, <1>5 DEF PartOf

\* A short history is returned as it is.
LEMMA UntouchedIsPart ==
  ASSUME NEW s \in Seq(Messages) PROVE PartOf(s, s)
<1> DEFINE f == [i \in 1..Len(s) |-> i]
<1>1. f \in [1..Len(s) -> 1..Len(s)]
  OBVIOUS
<1>2. \A i \in 1..Len(s) : s[i] = s[f[i]]
  OBVIOUS
<1>3. \A i, j \in 1..Len(s) : i < j => f[i] < f[j]
  OBVIOUS
<1> HIDE DEF f
<1>4. QED
  BY <1>1, <1>2, <1>3 DEF PartOf

\* Truncation, by whatever strategy, returns messages of the history; when
\* max_messages is more than 1, each once and in their order; and it returns
\* no more than max_messages of them, unless max_messages is 1 and the history
\* opens with a system prompt.
LEMMA TruncatedIs ==
  ASSUME NEW s \in Seq(Messages), NEW how \in Strategies
  PROVE  LET r == Truncated(s, how) IN
         /\ r \in Seq(Messages)
         /\ \A i \in 1..Len(r) : \E j \in 1..Len(s) : r[i] = s[j]
         /\ MaxMessages > 1 => PartOf(r, s)
         /\ Len(s) > 0 => Len(r) > 0
         /\ MaxMessages > 1 \/ how # "summary_based" \/ (Len(s) > 0 /\ ~s[1].system)
            => Len(r) <= MaxMessages
         /\ Len(s) <= MaxMessages => r = s
<1> DEFINE r == Truncated(s, how)
<1>1. MaxMessages \in Nat \ {0} /\ Len(s) \in Nat
  BY MaxMessagesAssumption
<1>2. \A q \in Seq(Messages) : PartOf(q, s) => \A i \in 1..Len(q) : \E j \in 1..Len(s) : q[i] = s[j]
  BY DEF PartOf
<1>3. CASE Len(s) <= MaxMessages
  <2>1. r = s
    BY <1>3 DEF Truncated
  <2>2. QED
    BY <1>1, <1>2, <1>3, <2>1, UntouchedIsPart
<1>4. CASE Len(s) > MaxMessages
  <2>1. ASSUME r = LastOf(s, MaxMessages)
        PROVE  r \in Seq(Messages) /\ PartOf(r, s) /\ Len(r) = MaxMessages
    <3>1. From(s, MaxMessages) = Len(s) - MaxMessages + 1
      BY <1>1, <1>4 DEF From
    <3> DEFINE e == LastOf(s, MaxMessages)
    <3>2. /\ e \in Seq(Messages)
          /\ Len(e) = IF From(s, MaxMessages) <= Len(s) THEN Len(s) - From(s, MaxMessages) + 1 ELSE 0
      BY <1>1, LastOfIs
    <3>3. PartOf(e, s)
      BY <1>1, LastIsPart
    <3> HIDE DEF e
    <3>4. Len(e) = MaxMessages
      BY <1>1, <1>4, <3>1, <3>2
    <3>5. QED
      BY <2>1, <3>2, <3>3, <3>4 DEF e
  <2>2. CASE how = "sliding_window"
    <3>1. r = LastOf(s, MaxMessages)
      BY <1>1, <1>4, <2>2 DEF Truncated, SlidingWindow
    <3>2. QED
      BY <1>1, <1>2, <1>4, <2>1, <3>1
  <2>3. CASE how = "summary_based"
    <3>1. r = SummaryBased(s)
      BY <1>1, <1>4, <2>3 DEF Truncated
    <3>2. CASE ~s[1].system
      <4>1. r = LastOf(s, MaxMessages)
        BY <3>1, <3>2 DEF SummaryBased
      <4>2. QED
        BY <1>1, <1>2, <1>4, <2>1, <3>2, <4>1
    <3>3. CASE s[1].system
      <4> DEFINE e == LastOf(s, MaxMessages - 1)
      <4>1. /\ r \in Seq(Messages) /\ e \in Seq(Messages) /\ Len(r) = Len(e) + 1
            /\ r[1] = s[1]
            /\ \A i \in 1..Len(e) : r[i + 1] = e[i]
            /\ \A i \in 1..Len(e) : /\ Len(s) - Len(e) + i \in 1..Len(s)
                                    /\ e[i] = s[Len(s) - Len(e) + i]
            /\ Len(e) = IF MaxMessages > 1 THEN MaxMessages - 1 ELSE Len(s)
        <5> HIDE DEF r
        <5>1. QED
          BY <1>4, <3>1, <3>3, SummaryIs
      <4> HIDE DEF e, r
      <4>2. ASSUME NEW i \in 1..Len(r) PROVE \E j \in 1..Len(s) : r[i] = s[j]
        <5>1. CASE i = 1
          <6>1. 1 \in 1..Len(s) /\ r[i] = s[1]
            BY <1>1, <1>4, <4>1, <5>1
          <6>2. QED
            BY <6>1
        <5>2. CASE i # 1
          <6>1. i - 1 \in 1..Len(e) /\ (i - 1) + 1 = i
            <7>1. Len(e) \in Nat /\ Len(r) = Len(e) + 1
              BY <4>1
            <7>2. QED
              BY <5>2, <7>1
          <6>2. r[i] = e[i - 1]
            BY <4>1, <6>1
          <6>3. QED
            BY <4>1, <6>1, <6>2
        <5>3. QED
          BY <5>1, <5>2
      <4>3. MaxMessages > 1 => PartOf(r, s)
        BY <1>4, <3>1, <3>3, SummaryIsPart DEF r
      <4>4. Len(r) > 0 /\ (MaxMessages > 1 => Len(r) <= MaxMessages)
        BY <1>1, <1>4, <4>1
      <4>5. QED
        BY <1>1, <1>4, <2>3, <3>3, <4>1, <4>2, <4>3, <4>4 DEF r
    <3>4. QED
      BY <3>2, <3>3
  <2>4. CASE how = "selective"
    <3>1. r = Selective(s)
      BY <1>1, <1>4, <2>4 DEF Truncated
    <3>2. Len(s) > 0
      BY <1>1, <1>4
    <3>3. PartOf(r, s) /\ r \in Seq(Messages)
      BY <3>1, <3>2, SelectiveIsPart, SelectiveIs
    <3>4. Len(r) > 0 /\ Len(r) <= MaxMessages
      <4> DEFINE c == Cardinality(KeptPlaces(s))
                 n == IF MaxMessages < c THEN MaxMessages ELSE c
      <4>1. n \in Nat \ {0} /\ Len(r) = n
        BY <3>1, <3>2, SelectiveIs
      <4>2. c \in Nat
        BY <3>2, KeptPlacesAre, AtPlacesIs
      <4> HIDE DEF c
      <4>3. n <= MaxMessages
        BY <1>1, <4>2
      <4>4. QED
        BY <1>1, <4>1, <4>3
    <3>5. QED
      BY <1>1, <1>2, <1>4, <3>2, <3>3, <3>4
  <2>5. QED
    BY <2>2, <2>3, <2>4 DEF Strategies
<1>5. QED
  BY <1>1, <1>3, <1>4

\* The inductive invariant of a conversation: its messages are numbered up to
\* the count of those added, and in their order; there are no more of them
\* than max_messages, but when that is 1 and the strategy keeps a prompt.
HistoryOK(ms, n, how) ==
  /\ ms \in Seq(Messages) /\ n \in 0..MaxAdded
  /\ \A i \in 1..Len(ms) : ms[i].n <= n
  /\ MaxMessages > 1 => \A i, j \in 1..Len(ms) : i < j => ms[i].n < ms[j].n
  /\ MaxMessages > 1 \/ how # "summary_based" => Len(ms) <= MaxMessages

ConversationInv == strategy \in Strategies /\ HistoryOK(messages, added, strategy)

\* Truncation keeps what the invariant says of the numbers.
LEMMA TruncatedOK ==
  ASSUME NEW s \in Seq(Messages), NEW n \in 0..MaxAdded, NEW how \in Strategies,
         \A i \in 1..Len(s) : s[i].n <= n,
         MaxMessages > 1 => \A i, j \in 1..Len(s) : i < j => s[i].n < s[j].n
  PROVE  HistoryOK(Truncated(s, how), n, how)
<1> DEFINE r == Truncated(s, how)
<1>1. /\ r \in Seq(Messages)
      /\ \A i \in 1..Len(r) : \E j \in 1..Len(s) : r[i] = s[j]
      /\ MaxMessages > 1 => PartOf(r, s)
      /\ MaxMessages > 1 \/ how # "summary_based" => Len(r) <= MaxMessages
  BY TruncatedIs
<1> HIDE DEF r
<1>2. \A i \in 1..Len(r) : r[i].n <= n
  BY <1>1
<1>3. ASSUME MaxMessages > 1, NEW i \in 1..Len(r), NEW j \in 1..Len(r), i < j
      PROVE  r[i].n < r[j].n
  <2>1. PICK f \in [1..Len(r) -> 1..Len(s)] :
               /\ \A k \in 1..Len(r) : r[k] = s[f[k]]
               /\ \A k, l \in 1..Len(r) : k < l => f[k] < f[l]
    BY <1>1, <1>3 DEF PartOf
  <2>2. f[i] \in 1..Len(s) /\ f[j] \in 1..Len(s) /\ f[i] < f[j]
    BY <1>3, <2>1
  <2>3. s[f[i]].n < s[f[j]].n
    BY <1>3, <2>2
  <2>4. QED
    BY <2>1, <2>3
<1>4. QED
  BY <1>1, <1>2, <1>3 DEF HistoryOK, r

\* A message added, with the next number.
LEMMA AppendedOK ==
  ASSUME NEW ms, NEW n, NEW how \in Strategies, NEW m \in Messages,
         HistoryOK(ms, n, how), n + 1 <= MaxAdded, m.n = n + 1
  PROVE  /\ Append(ms, m) \in Seq(Messages) /\ n + 1 \in 0..MaxAdded
         /\ HistoryOK(Truncated(Append(ms, m), how), n + 1, how)
<1> DEFINE s == Append(ms, m)
<1>1. /\ ms \in Seq(Messages) /\ n \in 0..MaxAdded /\ MaxAdded \in Nat
      /\ \A i \in 1..Len(ms) : ms[i].n <= n
      /\ MaxMessages > 1 => \A i, j \in 1..Len(ms) : i < j => ms[i].n < ms[j].n
  BY MaxAddedAssumption DEF HistoryOK
<1>2. /\ s \in Seq(Messages) /\ Len(s) = Len(ms) + 1 /\ s[Len(s)] = m
      /\ \A i \in 1..Len(ms) : s[i] = ms[i]
  BY <1>1
<1> HIDE DEF s
<1>3. n + 1 \in 0..MaxAdded
  BY <1>1
<1>4. \A i \in 1..Len(ms) : ms[i].n \in Int
  <2>1. \A x \in Messages : x.n \in Int
    BY DEF Messages
  <2>2. QED
    BY <1>1, <2>1
<1>5. \A i \in 1..Len(s) : i \in 1..Len(ms) \/ (i = Len(s) /\ s[i].n = n + 1)
  BY <1>1, <1>2
<1>6. \A i \in 1..Len(s) : s[i].n <= n + 1
  BY <1>1, <1>2, <1>4, <1>5
<1>7. ASSUME MaxMessages > 1, NEW i \in 1..Len(s), NEW j \in 1..Len(s), i < j
      PROVE  s[i].n < s[j].n
  <2>1. i \in 1..Len(ms) /\ s[i] = ms[i]
    BY <1>1, <1>2, <1>7
  <2>2. CASE j \in 1..Len(ms)
    BY <1>1, <1>2, <1>7, <2>1, <2>2
  <2>3. CASE s[j].n = n + 1
    BY <1>1, <1>4, <2>1, <2>3
  <2>4. QED
    BY <1>5, <2>2, <2>3
<1>8. HistoryOK(Truncated(s, how), n + 1, how)
  BY <1>2, <1>3, <1>6, <1>7, TruncatedOK
<1>9. QED
  BY <1>2, <1>3, <1>8 DEF s

\* The strategy changed.
LEMMA RetruncatedOK ==
  ASSUME NEW ms, NEW n, NEW was, NEW how \in Strategies, HistoryOK(ms, n, was)
  PROVE  HistoryOK(Truncated(ms, how), n, how)
<1>1. /\ ms \in Seq(Messages) /\ n \in 0..MaxAdded
      /\ \A i \in 1..Len(ms) : ms[i].n <= n
      /\ MaxMessages > 1 => \A i, j \in 1..Len(ms) : i < j => ms[i].n < ms[j].n
  BY DEF HistoryOK
<1>2. QED
  BY <1>1, TruncatedOK

LEMMA ConversationInductive ==
  ASSUME ConversationInv, [ConversationNext]_conversation
  PROVE  ConversationInv'
<1>1. CASE UNCHANGED conversation
  BY <1>1 DEF conversation, ConversationInv
<1>2. ASSUME NEW role \in Roles, AddMessage(role.system, role.important)
      PROVE  ConversationInv'
  <2> DEFINE m == [n |-> added + 1, system |-> role.system, important |-> role.important]
  <2>1. /\ HistoryOK(messages, added, strategy) /\ strategy \in Strategies
        /\ added \in 0..MaxAdded /\ MaxAdded \in Nat /\ added + 1 <= MaxAdded
    BY <1>2, MaxAddedAssumption DEF ConversationInv, HistoryOK, AddMessage
  <2>2. m \in Messages
    BY <2>1, RolesAssumption DEF Messages
  <2>3. m.n = added + 1
    OBVIOUS
  <2> HIDE DEF m
  <2>4. HistoryOK(Truncated(Append(messages, m), strategy), added + 1, strategy)
    BY <2>1, <2>2, <2>3, AppendedOK
  <2>5. /\ messages' = Truncated(Append(messages, m), strategy)
        /\ added' = added + 1 /\ strategy' = strategy
    BY <1>2 DEF AddMessage, m
  <2>6. QED
    BY <2>1, <2>4, <2>5 DEF ConversationInv
<1>3. ASSUME NEW how \in Strategies, SetStrategy(how) PROVE ConversationInv'
  <2>1. HistoryOK(Truncated(messages, how), added, how)
    BY RetruncatedOK DEF ConversationInv
  <2>2. QED
    BY <1>3, <2>1 DEF SetStrategy, ConversationInv
<1>4. CASE ClearMessages
  BY <1>4, MaxMessagesAssumption DEF ClearMessages, ConversationInv, HistoryOK
<1>5. QED
  BY <1>1, <1>2, <1>3, <1>4 DEF ConversationNext

LEMMA ConversationStarts == ConversationInit => ConversationInv
BY MaxMessagesAssumption, MaxAddedAssumption DEF ConversationInit, ConversationInv, HistoryOK

LEMMA ConversationAlways == ConversationSpec => []ConversationInv
BY ConversationStarts, ConversationInductive, PTL DEF ConversationSpec

\* The history is never longer than max_messages, holds no message twice and
\* keeps the order of arrival, whatever is added and however the strategy
\* changes.
THEOREM HistoryAlwaysSound == ConversationSpec => []HistorySound
<1>1. ConversationInv => HistorySound
  BY DEF ConversationInv, HistoryOK, HistorySound
<1>2. QED
  BY <1>1, ConversationAlways, PTL

\* What selective truncation keeps of a full history to which one message was
\* added: the important ones, the one added and the newest of the rest, when
\* there is room; else all but the one added.
HeldIn(r, m) == \E j \in 1..Len(r) : r[j] = m

SelectiveKept(s, m, r) ==
  LET crowded == Cardinality(Important(Append(s, m))) >= MaxMessages
  IN  /\ \A i \in 1..Len(s) : s[i].important \/ crowded => HeldIn(r, s[i])
      /\ HeldIn(r, m) <=> ~crowded
      /\ \A i, k \in 1..Len(s) : i < k /\ HeldIn(r, s[i]) => s[i].important \/ HeldIn(r, s[k])

\* No room: every place is one of those kept.
LEMMA CrowdedKeepsAll ==
  ASSUME NEW t \in Seq(Messages), Len(t) = MaxMessages + 1,
         Cardinality(Important(t)) >= MaxMessages
  PROVE  KeptPlaces(t) = 1..Len(t) /\ Cardinality(KeptPlaces(t)) = Len(t)
<1> DEFINE c == Cardinality(Important(t))
<1>1. MaxMessages \in Nat \ {0} /\ Len(t) \in Nat /\ Len(t) > 0
  BY MaxMessagesAssumption
<1>2. /\ c \in Nat /\ c <= Len(t)
      /\ KeptPlaces(t) \in SUBSET (1..Len(t)) /\ Important(t) \subseteq KeptPlaces(t)
  BY <1>1, KeptPlacesAre
<1>3. 1 \in Int /\ Len(t) \in Int /\ ~(1 > Len(t))
  BY <1>1
<1>4. IsFiniteSet(1..Len(t)) /\ Cardinality(1..Len(t)) = Len(t) - 1 + 1
  BY <1>3, FS_Interval
<1>5. Cardinality(1..Len(t)) = Len(t)
  BY <1>1, <1>4
<1>6. 1..Len(t) \subseteq KeptPlaces(t)
  <2> HIDE DEF c
  <2>1. CASE c = MaxMessages
    <3>1. From(t, MaxMessages - c) = 1
      BY <1>1, <2>1 DEF From
    <3>2. QED
      BY <3>1 DEF KeptPlaces, c
  <2>2. CASE c # MaxMessages
    <3>1. c = Len(t)
      BY <1>1, <1>2, <2>2 DEF c
    <3>2. Important(t) \in SUBSET (1..Len(t))
      BY DEF Important
    <3>3. Important(t) = 1..Len(t)
      BY <1>4, <1>5, <3>1, <3>2, FS_Subset DEF c
    <3>4. QED
      BY <1>2, <3>3
  <2>3. QED
    BY <2>1, <2>2
<1>7. KeptPlaces(t) = 1..Len(t)
  BY <1>2, <1>6
<1>8. QED
  BY <1>5, <1>7

LEMMA SelectiveKeeps ==
  ASSUME NEW s \in Seq(Messages), Len(s) <= MaxMessages, NEW m \in Messages,
         Len(Append(s, m)) > MaxMessages,
         \A i, j \in 1..Len(s) : i < j => s[i].n < s[j].n,
         \A i \in 1..Len(s) : s[i].n < m.n
  PROVE  SelectiveKept(s, m, Selective(Append(s, m)))
<1> DEFINE t == Append(s, m)
           r == Selective(t)
           I == KeptPlaces(t)
           c == Cardinality(I)
           n == IF MaxMessages < c THEN MaxMessages ELSE c
           crowded == Cardinality(Important(t)) >= MaxMessages
<1>1. /\ t \in Seq(Messages) /\ Len(t) = Len(s) + 1 /\ t[Len(t)] = m
      /\ \A i \in 1..Len(s) : t[i] = s[i]
  OBVIOUS
<1>2. Len(t) > MaxMessages
  OBVIOUS
<1> HIDE DEF t
<1>3. MaxMessages \in Nat \ {0} /\ Len(s) \in Nat /\ Len(t) = MaxMessages + 1 /\ Len(s) = MaxMessages
  BY <1>1, <1>2, MaxMessagesAssumption
<1>4. /\ I \in SUBSET (1..Len(t)) /\ Important(t) \subseteq I /\ Len(t) \in I
      /\ Cardinality(Important(t)) \in Nat
      /\ Cardinality(Important(t)) < MaxMessages => c <= MaxMessages
  BY <1>1, <1>3, KeptPlacesAre
<1>5. crowded => I = 1..Len(t) /\ c = Len(t)
  BY <1>1, <1>3, CrowdedKeepsAll
<1>6. n \in Nat \ {0} /\ Len(r) = n /\ \A j \in 1..n : r[j] = t[Ascending(I)[j]]
  BY <1>1, <1>3, SelectiveIs
<1>7. \A i \in 1..Len(t) : i \in I /\ i # Len(t) /\ ~(t[i].important) =>
        \A k \in i..Len(t) : k \in I
  <2>1. From(t, MaxMessages - Cardinality(Important(t))) \in Int
    BY <1>3, <1>4 DEF From
  <2>2. \A i \in 1..Len(t) : ~t[i].important => i \notin Important(t)
    BY DEF Important
  <2>3. QED
    BY <1>3, <2>1, <2>2 DEF KeptPlaces
<1>8. \A i \in 1..Len(t) : t[i].important => i \in I
  BY <1>4 DEF Important
<1> HIDE DEF I, r
<1>9. /\ c \in Nat /\ c <= Len(t) /\ Ascending(I) \in [1..c -> I]
      /\ \A j, k \in 1..c : j < k => Ascending(I)[j] < Ascending(I)[k]
      /\ \A i \in I : \E k \in 1..c : Ascending(I)[k] = i
  BY <1>1, <1>4, AtPlacesIs
<1> HIDE DEF c
<1>10. ASSUME NEW i \in I, i # Len(t) \/ c <= MaxMessages PROVE HeldIn(r, t[i])
  <2>1. PICK k \in 1..c : Ascending(I)[k] = i
    BY <1>9
  <2>2. PICK l \in 1..c : Ascending(I)[l] = Len(t)
    BY <1>4, <1>9
  <2>3. i \in 1..Len(t)
    BY <1>4
  <2>4. k <= MaxMessages
    <3>1. CASE c <= MaxMessages
      BY <1>3, <1>9, <2>1, <3>1
    <3>2. CASE i # Len(t)
      <4>1. ~(k > l)
        <5>1. ASSUME l < k PROVE FALSE
          <6>1. Ascending(I)[l] < Ascending(I)[k]
            BY <1>9, <5>1
          <6>2. QED
            BY <1>3, <2>1, <2>2, <2>3, <6>1
        <5>2. QED
          BY <5>1
      <4>2. k # l
        BY <2>1, <2>2, <3>2
      <4>3. QED
        BY <1>3, <1>9, <4>1, <4>2
    <3>3. QED
      BY <1>10, <3>1, <3>2
  <2>5. k \in 1..n
    BY <1>3, <1>9, <2>4
  <2>6. QED
    BY <1>6, <2>1, <2>5 DEF HeldIn
\* The messages are told apart by their numbers.
<1>11. \A i, j \in 1..Len(t) : t[i] = t[j] => i = j
  <2>1. \A x \in Messages : x.n \in Int
    BY DEF Messages
  <2>2. \A i \in 1..Len(t) : (i \in 1..Len(s) \/ i = Len(t)) /\ t[i].n \in Int
    BY <1>1, <1>3, <2>1
  <2>3. \A i, j \in 1..Len(t) : i < j => t[i].n < t[j].n
    <3> SUFFICES ASSUME NEW i \in 1..Len(t), NEW j \in 1..Len(t), i < j PROVE t[i].n < t[j].n
      OBVIOUS
    <3>1. i \in 1..Len(s) /\ t[i] = s[i]
      BY <1>1, <1>3
    <3>2. CASE j \in 1..Len(s)
      BY <1>1, <3>1, <3>2
    <3>3. CASE j = Len(t)
      BY <1>1, <3>1, <3>3
    <3>4. QED
      BY <2>2, <3>2, <3>3
  <2>4. SUFFICES ASSUME NEW i \in 1..Len(t), NEW j \in 1..Len(t), t[i] = t[j], i # j
                 PROVE  FALSE
    OBVIOUS
  <2>5. i < j \/ j < i
    BY <1>3, <2>4
  <2>6. QED
    BY <2>2, <2>3, <2>4, <2>5
<1>12. ASSUME NEW i \in 1..Len(t), HeldIn(r, t[i])
       PROVE  i \in I /\ (i = Len(t) => c <= MaxMessages)
  <2>1. PICK j \in 1..n : r[j] = t[i]
    BY <1>6, <1>12 DEF HeldIn
  <2>2. j \in 1..c /\ j <= MaxMessages /\ c \in Nat
    BY <1>3, <1>9
  <2>3. Ascending(I)[j] \in I /\ Ascending(I)[j] = i
    <3>1. Ascending(I)[j] \in I /\ t[Ascending(I)[j]] = t[i]
      BY <1>6, <1>9, <2>1, <2>2
    <3>2. QED
      BY <1>4, <1>11, <3>1
  <2>4. ASSUME i = Len(t), c > MaxMessages PROVE FALSE
    <3>1. c \in 1..c /\ j < c
      BY <1>3, <2>2, <2>4
    <3>2. Ascending(I)[j] < Ascending(I)[c] /\ Ascending(I)[c] \in 1..Len(t)
      BY <1>4, <1>9, <2>2, <3>1
    <3>3. QED
      BY <1>3, <2>3, <2>4, <3>2
  <2>5. QED
    BY <1>3, <2>2, <2>3, <2>4
<1>13. \A i \in 1..Len(s) : i \in 1..Len(t) /\ t[i] = s[i] /\ i # Len(t)
  BY <1>1, <1>3
<1>14. ASSUME NEW i \in 1..Len(s), s[i].important \/ crowded PROVE HeldIn(r, s[i])
  <2>1. i \in I
    BY <1>5, <1>8, <1>13, <1>14
  <2>2. QED
    BY <1>10, <1>13, <2>1
<1>15. HeldIn(r, m) <=> ~crowded
  <2>1. Len(t) \in 1..Len(t)
    BY <1>3
  <2>2. ASSUME ~crowded PROVE HeldIn(r, m)
    BY <1>1, <1>3, <1>4, <1>10, <2>2
  <2>3. ASSUME crowded PROVE ~HeldIn(r, m)
    BY <1>1, <1>3, <1>5, <1>12, <2>1, <2>3
  <2>4. QED
    BY <2>2, <2>3
<1>16. ASSUME NEW i \in 1..Len(s), NEW k \in 1..Len(s), i < k, HeldIn(r, s[i])
       PROVE  s[i].important \/ HeldIn(r, s[k])
  <2>1. i \in 1..Len(t) /\ i \in I /\ t[i] = s[i] /\ i # Len(t)
    BY <1>12, <1>13, <1>16
  <2>2. CASE ~s[i].important
    <3>1. k \in i..Len(t)
      BY <1>3, <1>13, <1>16
    <3>2. k \in I /\ k # Len(t) /\ t[k] = s[k]
      BY <1>7, <1>13, <2>1, <2>2, <3>1
    <3>3. QED
      BY <1>10, <3>2
  <2>3. QED
    BY <2>2
<1>17. QED
  BY <1>14, <1>15, <1>16 DEF r, t, SelectiveKept

\* What the other strategies keep: the newest message, and summary_based the
\* prompt.
LEMMA OthersKeep ==
  ASSUME NEW s \in Seq(Messages), Len(s) > 0, NEW how \in Strategies, how # "selective"
  PROVE  LET r == Truncated(s, how) IN
         /\ r[Len(r)] = s[Len(s)]
         /\ how = "summary_based" /\ s[1].system => r[1] = s[1]
<1> DEFINE r == Truncated(s, how)
           e == LastOf(s, MaxMessages)
<1>1. MaxMessages \in Nat \ {0} /\ Len(s) \in Nat
  BY MaxMessagesAssumption
<1>2. CASE Len(s) <= MaxMessages
  BY <1>2 DEF Truncated
<1>3. CASE Len(s) > MaxMessages
  <2>1. e[Len(e)] = s[Len(s)]
    <3>1. From(s, MaxMessages) = Len(s) - MaxMessages + 1
      BY <1>1, <1>3 DEF From
    <3>2. /\ Len(e) = IF From(s, MaxMessages) <= Len(s) THEN Len(s) - From(s, MaxMessages) + 1 ELSE 0
          /\ \A i \in 1..Len(e) : e[i] = s[From(s, MaxMessages) - 1 + i]
      BY <1>1, LastOfIs
    <3> HIDE DEF e
    <3>3. Len(e) = MaxMessages
      BY <1>1, <1>3, <3>1, <3>2
    <3>4. e[Len(e)] = s[From(s, MaxMessages) - 1 + Len(e)]
      BY <1>1, <3>2, <3>3
    <3>5. QED
      BY <1>1, <3>1, <3>3, <3>4
  <2> HIDE DEF e
  <2>2. CASE how = "sliding_window"
    <3>1. r = e
      BY <1>1, <1>3, <2>2 DEF Truncated, SlidingWindow, e
    <3>2. QED
      BY <2>1, <2>2, <3>1
  <2>3. CASE how = "summary_based"
    <3>1. r = SummaryBased(s)
      BY <1>1, <1>3, <2>3 DEF Truncated
    <3>2. CASE ~s[1].system
      <4>1. r = e
        BY <3>1, <3>2 DEF SummaryBased, e
      <4>2. QED
        BY <2>1, <3>2, <4>1
    <3>3. CASE s[1].system
      <4> DEFINE f == LastOf(s, MaxMessages - 1)
      <4> HIDE DEF r
      <4>1. /\ f \in Seq(Messages) /\ Len(r) = Len(f) + 1 /\ r[1] = s[1]
            /\ \A i \in 1..Len(f) : r[i + 1] = f[i]
            /\ Len(f) = IF MaxMessages > 1 THEN MaxMessages - 1 ELSE Len(s)
            /\ \A i \in 1..Len(f) : f[i] = s[Len(s) - Len(f) + i]
        BY <1>3, <3>1, <3>3, SummaryIs
      <4> HIDE DEF f
      <4>2. Len(f) \in 1..Len(f) /\ Len(s) - Len(f) + Len(f) = Len(s)
        BY <1>1, <1>3, <4>1
      <4>3. r[Len(r)] = f[Len(f)] /\ f[Len(f)] = s[Len(s) - Len(f) + Len(f)]
        BY <4>1, <4>2
      <4>4. QED
        BY <4>1, <4>2, <4>3 DEF r
    <3>4. QED
      BY <3>2, <3>3
  <2>4. QED
    BY <2>2, <2>3 DEF Strategies
<1>4. QED
  BY <1>1, <1>2, <1>3

\* Only add_message adds to the count; what it then does.
LEMMA AddedOnly ==
  ASSUME ConversationInv, [ConversationNext]_conversation, added' > added
  PROVE  \E role \in Roles : AddMessage(role.system, role.important)
<1>1. added \in Int /\ added' # added
  BY DEF ConversationInv, HistoryOK
<1>2. QED
  BY <1>1 DEF ConversationNext, conversation, SetStrategy, ClearMessages

LEMMA AddedIs ==
  ASSUME ConversationInv, NEW role \in Roles, AddMessage(role.system, role.important)
  PROVE  LET m == [n |-> added + 1, system |-> role.system, important |-> role.important] IN
         /\ messages \in Seq(Messages) /\ m \in Messages /\ strategy \in Strategies
         /\ strategy # "summary_based" => Len(messages) <= MaxMessages
         /\ m.n = added'
         /\ messages' = Truncated(Append(messages, m), strategy)
<1>1. added + 1 \in 1..MaxAdded
  BY MaxAddedAssumption DEF ConversationInv, HistoryOK, AddMessage
<1>2. QED
  BY <1>1, RolesAssumption DEF ConversationInv, HistoryOK, AddMessage, Messages

\* What each strategy is there to keep is kept by every step: importance by
\* selective truncation, as far as ImportantKept says, the newest message and
\* the prompt by the others.
THEOREM StrategiesAlwaysKeep == ConversationSpec => KeptByStrategy
<1>1. ASSUME ConversationInv, NEW role \in Roles,
             strategy = "selective", AddMessage(role.system, role.important)
      PROVE  KeepsImportant([n |-> added + 1, system |-> role.system, important |-> role.important])
  <2> DEFINE m == [n |-> added + 1, system |-> role.system, important |-> role.important]
  <2>1. /\ messages \in Seq(Messages) /\ Len(messages) <= MaxMessages /\ m \in Messages
        /\ messages' = Truncated(Append(messages, m), "selective")
    BY <1>1, AddedIs
  <2>2. m.n = added + 1
    OBVIOUS
  <2> HIDE DEF m
  <2>3. CASE Len(Append(messages, m)) <= MaxMessages
    <3>1. messages' = Append(messages, m)
      BY <2>1, <2>3 DEF Truncated
    <3>2. /\ \A i \in 1..Len(messages) : i \in 1..Len(messages') /\ messages'[i] = messages[i]
          /\ Len(messages') \in 1..Len(messages') /\ messages'[Len(messages')] = m
      BY <2>1, <3>1
    <3>3. ~(Len(Append(messages, m)) > MaxMessages)
      BY <2>1, <2>3, MaxMessagesAssumption
    <3>4. ~Crowds(m)
      BY <3>3 DEF Crowds
    <3>5. StillHeld(m) /\ \A i \in 1..Len(messages) : StillHeld(messages[i])
      BY <3>2 DEF StillHeld
    <3>6. QED
      BY <3>4, <3>5 DEF KeepsImportant, m
  <2>4. CASE ~(Len(Append(messages, m)) <= MaxMessages)
    <3>1. Len(Append(messages, m)) > MaxMessages
      BY <2>1, <2>4, MaxMessagesAssumption
    <3>2. messages' = Selective(Append(messages, m))
      BY <2>1, <2>4 DEF Truncated
    <3>3. /\ \A i, j \in 1..Len(messages) : i < j => messages[i].n < messages[j].n
          /\ \A i \in 1..Len(messages) : messages[i].n < m.n
      <4>1. /\ MaxMessages \in Nat \ {0} /\ Len(messages) \in Nat /\ added \in Nat
            /\ \A i \in 1..Len(messages) : messages[i].n <= added
            /\ MaxMessages > 1 => \A i, j \in 1..Len(messages) : i < j => messages[i].n < messages[j].n
        BY <1>1, <2>1, MaxMessagesAssumption, MaxAddedAssumption DEF ConversationInv, HistoryOK
      <4>2. \A i \in 1..Len(messages) : messages[i].n \in Int
        <5>1. \A x \in Messages : x.n \in Int
          BY DEF Messages
        <5>2. QED
          BY <2>1, <5>1
      <4>3. CASE MaxMessages > 1
        BY <2>2, <4>1, <4>2, <4>3
      <4>4. CASE MaxMessages = 1
        BY <2>1, <2>2, <4>1, <4>2, <4>4
      <4>5. QED
        BY <4>1, <4>3, <4>4
    <3>4. SelectiveKept(messages, m, messages')
      BY <2>1, <3>1, <3>2, <3>3, SelectiveKeeps
    <3>5. \A x : StillHeld(x) <=> HeldIn(messages', x)
      BY DEF StillHeld, HeldIn
    <3>6. Crowds(m) <=> Cardinality(Important(Append(messages, m))) >= MaxMessages
      BY <3>1 DEF Crowds
    <3>7. KeepsImportant(m)
      BY <3>4, <3>5, <3>6 DEF KeepsImportant, SelectiveKept
    <3>8. QED
      BY <3>7 DEF m
  <2>5. QED
    BY <2>3, <2>4
<1>2. ASSUME ConversationInv, [ConversationNext]_conversation
      PROVE  [strategy # "selective" /\ added' > added
              => /\ messages'[Len(messages')].n = added'
                 /\ strategy = "summary_based" /\ messages # <<>> /\ messages[1].system
                    => messages'[1] = messages[1]]_conversation
  <2> SUFFICES ASSUME strategy # "selective", added' > added
               PROVE  /\ messages'[Len(messages')].n = added'
                      /\ strategy = "summary_based" /\ messages # <<>> /\ messages[1].system
                         => messages'[1] = messages[1]
    OBVIOUS
  <2>1. PICK role \in Roles : AddMessage(role.system, role.important)
    BY <1>2, AddedOnly
  <2> DEFINE m == [n |-> added + 1, system |-> role.system, important |-> role.important]
  <2> DEFINE s == Append(messages, m)
  <2>2. /\ messages \in Seq(Messages) /\ m \in Messages /\ strategy \in Strategies
        /\ m.n = added'
        /\ messages' = Truncated(s, strategy)
    BY <1>2, <2>1, AddedIs
  <2> HIDE DEF m
  <2>3. /\ s \in Seq(Messages) /\ Len(s) > 0 /\ s[Len(s)] = m
        /\ messages # <<>> => s[1] = messages[1]
    BY <2>2
  <2> HIDE DEF s
  <2>4. /\ messages'[Len(messages')] = s[Len(s)]
        /\ strategy = "summary_based" /\ s[1].system => messages'[1] = s[1]
    BY <2>2, <2>3, OthersKeep
  <2>5. QED
    BY <2>2, <2>3, <2>4
<1>3. ASSUME ConversationInv, [ConversationNext]_conversation
      PROVE  [\A role \in Roles :
                strategy = "selective" /\ AddMessage(role.system, role.important)
                => KeepsImportant([n |-> added + 1, system |-> role.system,
                                   important |-> role.important])]_conversation
  BY <1>1, <1>3
<1>4. QED
  BY <1>2, <1>3, ConversationAlways, PTL
  DEF ConversationSpec, KeptByStrategy, ImportantKept, NewestKept

-----------------------------------------------------------------------------
(* Unified memory.  What store and coordinate_store change is a record; the *)
(* invariant is stated of such a record, so that it holds between the two   *)
(* layers that one call stores to.                                          *)

AnyRole == [system : BOOLEAN, important : BOOLEAN]

StateTypes == [messages : Seq(Messages), added : 0..MaxAdded, handed : Seq(Nat \ {0}),
               items : SUBSET [n : 1..MaxItems, kind : ItemKinds], stored : 0..MaxItems]

\* Until the history is truncated it holds the messages added since it was last
\* cleared, and the place in each one's id is its own.
Untruncated(s, since) ==
  /\ Len(s.messages) = s.added - since
  /\ \A i \in 1..Len(s.messages) : s.messages[i].n = since + i
  /\ \A n \in 1..Len(s.handed) : n > since => s.handed[n] = n - since

StateOK(s, how, since) ==
  /\ s \in StateTypes
  /\ HistoryOK(s.messages, s.added, how)
  /\ Len(s.handed) = s.added
  /\ since \in 0..s.added
  /\ s.added - since <= MaxMessages => Untruncated(s, since)

UnifiedInv == /\ strategy \in Strategies /\ components \in Seq(Components)
              /\ StateOK(State, strategy, cleared)

\* A message stored: it joins the history, which is then truncated, and its id
\* is the length of what is left.
LEMMA MessageStored ==
  ASSUME NEW s, NEW since, StateOK(s, strategy, since), strategy \in Strategies,
         NEW role \in AnyRole, s.added + 1 <= MaxAdded
  PROVE  StateOK(WithMessage(s, role), strategy, since)
<1> DEFINE m == Message(s.added + 1, role)
           t == Append(s.messages, m)
           h == Truncated(t, strategy)
           g == Append(s.handed, Len(h))
           r == WithMessage(s, role)
<1>1. /\ s \in StateTypes /\ HistoryOK(s.messages, s.added, strategy)
      /\ Len(s.handed) = s.added
      /\ since \in 0..s.added
      /\ s.added - since <= MaxMessages => Untruncated(s, since)
  BY DEF StateOK
<1>2. /\ s.messages \in Seq(Messages) /\ s.added \in Nat /\ s.handed \in Seq(Nat \ {0})
      /\ s.added + 1 \in 0..MaxAdded /\ since \in Nat
      /\ MaxMessages \in Nat \ {0} /\ MaxAdded \in Nat
  BY <1>1, MaxMessagesAssumption, MaxAddedAssumption DEF StateTypes
<1>3. /\ r = [s EXCEPT !.messages = h, !.added = s.added + 1, !.handed = g]
  BY DEF WithMessage
<1>4. m \in Messages /\ m.n = s.added + 1
  BY <1>2 DEF Messages, Message, AnyRole
<1> HIDE DEF m
<1>5. /\ t \in Seq(Messages) /\ Len(t) = Len(s.messages) + 1 /\ t[Len(t)] = m
      /\ \A i \in 1..Len(s.messages) : t[i] = s.messages[i]
  BY <1>2, <1>4
<1>6. HistoryOK(h, s.added + 1, strategy)
  BY <1>1, <1>2, <1>4, AppendedOK
<1> HIDE DEF t
<1>9. /\ h \in Seq(Messages) /\ Len(h) > 0
      /\ Len(t) <= MaxMessages => h = t
  <2>1. Len(t) > 0
    BY <1>2, <1>5
  <2>2. QED
    BY <1>5, <2>1, TruncatedIs
<1> HIDE DEF h, r
<1>11. Len(h) \in Nat \ {0}
  BY <1>9
<1>12. /\ g \in Seq(Nat \ {0}) /\ Len(g) = s.added + 1
       /\ g[s.added + 1] = Len(h)
       /\ \A n \in 1..s.added : g[n] = s.handed[n]
  <2>1. \A q \in Seq(Nat \ {0}), x \in Nat \ {0} :
          /\ Append(q, x) \in Seq(Nat \ {0}) /\ Len(Append(q, x)) = Len(q) + 1
          /\ Append(q, x)[Len(q) + 1] = x
          /\ \A n \in 1..Len(q) : Append(q, x)[n] = q[n]
    OBVIOUS
  <2>2. QED
    BY <1>1, <1>2, <1>11, <2>1
<1> HIDE DEF g
<1>13. /\ r \in StateTypes /\ r.messages = h /\ r.added = s.added + 1
       /\ r.handed = g
  BY <1>1, <1>2, <1>3, <1>9, <1>12 DEF StateTypes
<1>14. ASSUME r.added - since <= MaxMessages PROVE Untruncated(r, since)
  <2>1. Untruncated(s, since)
    BY <1>1, <1>2, <1>13, <1>14
  <2>2. h = t /\ Len(t) = s.added + 1 - since
    BY <1>2, <1>5, <1>9, <1>13, <1>14, <2>1 DEF Untruncated
  <2>3. ASSUME NEW i \in 1..Len(h) PROVE h[i].n = since + i
    <3>1. CASE i \in 1..Len(s.messages)
      BY <1>5, <2>1, <2>2, <3>1 DEF Untruncated
    <3>2. CASE i = Len(t)
      <4>1. i \in Int /\ i = s.added + 1 - since
        BY <1>1, <2>2, <3>2
      <4>2. since + i = s.added + 1
        BY <1>1, <1>2, <4>1
      <4>3. h[i] = m
        BY <1>5, <2>2, <3>2
      <4>4. QED
        BY <1>4, <4>2, <4>3
    <3>3. QED
      BY <1>2, <1>5, <2>2, <3>1, <3>2
  <2>4. ASSUME NEW n \in 1..s.added + 1, n > since
        PROVE  g[n] = n - since
    <3>1. CASE n \in 1..s.added
      BY <1>1, <1>12, <2>1, <2>4, <3>1 DEF Untruncated
    <3>2. CASE n = s.added + 1
      <4>1. g[n] = Len(t)
        BY <1>12, <2>2, <3>2
      <4>2. Len(t) = n - since
        <5>1. s.added \in Int /\ since \in Int
          BY <1>1, <1>2
        <5>2. QED
          BY <2>2, <3>2, <5>1
      <4>3. QED
        BY <4>1, <4>2
    <3>3. QED
      BY <1>2, <3>1, <3>2
  <2>5. QED
    <3>1. Len(r.messages) = r.added - since
      BY <1>2, <1>13, <2>2
    <3>2. \A i \in 1..Len(r.messages) : r.messages[i].n = since + i
      BY <1>13, <2>3
    <3>3. \A n \in 1..Len(r.handed) : n > since => r.handed[n] = n - since
      BY <1>12, <1>13, <2>4
    <3>4. QED
      BY <3>1, <3>2, <3>3 DEF Untruncated
<1>15. since \in 0..r.added
  BY <1>1, <1>2, <1>13
<1>16. QED
  BY <1>6, <1>9, <1>12, <1>13, <1>14, <1>15 DEF StateOK, r

\* An item stored: the history is not touched.
LEMMA ItemStored ==
  ASSUME NEW s, NEW since, StateOK(s, strategy, since),
         NEW shape \in Shapes, shape # "message", NEW role, Within(Stores(s, shape, role))
  PROVE  StateOK(Stores(s, shape, role), strategy, since)
<1> DEFINE r == Stores(s, shape, role)
<1>1. s \in StateTypes /\ MaxItems \in Nat
  BY UnifiedAssumption DEF StateOK
<1>2. r = [s EXCEPT !.items = s.items \cup {[n |-> s.stored + 1, kind |-> KindOf(shape)]},
                    !.stored = s.stored + 1]
  BY DEF Stores
<1>3. s.stored + 1 <= MaxItems
  BY <1>1, <1>2 DEF Within, StateTypes
<1>4. KindOf(shape) \in ItemKinds
  BY DEF KindOf, Shapes, ItemKinds
<1>5. [n |-> s.stored + 1, kind |-> KindOf(shape)] \in [n : 1..MaxItems, kind : ItemKinds]
  BY <1>1, <1>3, <1>4 DEF StateTypes
<1>6. r \in StateTypes
  <2>1. r = [messages |-> s.messages, added |-> s.added, handed |-> s.handed,
             items |-> s.items \cup {[n |-> s.stored + 1, kind |-> KindOf(shape)]},
             stored |-> s.stored + 1]
    BY <1>1, <1>2 DEF StateTypes
  <2> HIDE DEF r
  <2>2. s.stored + 1 \in 0..MaxItems
    BY <1>1, <1>3 DEF StateTypes
  <2>3. (s.items \cup {[n |-> s.stored + 1, kind |-> KindOf(shape)]})
          \in SUBSET [n : 1..MaxItems, kind : ItemKinds]
    BY <1>1, <1>5 DEF StateTypes
  <2>4. QED
    BY <1>1, <2>1, <2>2, <2>3 DEF StateTypes
<1>7. r.messages = s.messages /\ r.added = s.added /\ r.handed = s.handed
  BY <1>1, <1>2 DEF StateTypes
<1> HIDE DEF r
<1>8. StateOK(r, strategy, since)
  BY <1>6, <1>7 DEF StateOK, Untruncated
<1>9. QED
  BY <1>8 DEF r

LEMMA StoresOK ==
  ASSUME NEW s, NEW since, StateOK(s, strategy, since), strategy \in Strategies,
         NEW shape \in Shapes, NEW role \in AnyRole, Within(Stores(s, shape, role))
  PROVE  StateOK(Stores(s, shape, role), strategy, since)
<1>1. CASE shape = "message"
  <2>1. Stores(s, shape, role) = WithMessage(s, role)
    BY <1>1 DEF Stores
  <2>2. s \in StateTypes
    BY DEF StateOK
  <2>3. WithMessage(s, role).added = s.added + 1
    BY <2>2 DEF WithMessage, StateTypes
  <2>4. s.added + 1 <= MaxAdded
    BY <2>1, <2>3 DEF Within
  <2>5. QED
    BY <2>1, <2>4, MessageStored
<1>2. CASE shape # "message"
  BY <1>2, ItemStored
<1>3. QED
  BY <1>1, <1>2

\* A call that stores to two layers passes no bound in between.
LEMMA StoresGrow ==
  ASSUME NEW s \in StateTypes, NEW first \in Shapes, NEW second \in Shapes,
         NEW as, NEW then, Within(Stores(Stores(s, first, as), second, then))
  PROVE  Within(Stores(s, first, as))
<1> DEFINE r == Stores(s, first, as)
           q == Stores(r, second, then)
<1>1. /\ DOMAIN r = {"messages", "added", "handed", "items", "stored"}
      /\ r.added \in Nat /\ r.stored \in Nat
  BY DEF Stores, WithMessage, StateTypes
<1> HIDE DEF r
<1>2. q.added \in {r.added, r.added + 1} /\ q.stored \in {r.stored, r.stored + 1}
  BY <1>1 DEF Stores, WithMessage
<1> HIDE DEF q
<1>3. q.added <= MaxAdded /\ q.stored <= MaxItems
  BY DEF Within, q, r
<1>4. r.added <= MaxAdded /\ r.stored <= MaxItems
  BY <1>1, <1>2, <1>3, MaxAddedAssumption, UnifiedAssumption
<1>5. QED
  BY <1>4 DEF Within, r

LEMMA StoresTwiceOK ==
  ASSUME NEW s, NEW since, StateOK(s, strategy, since), strategy \in Strategies,
         NEW layers \in Targets, NEW shape \in Shapes, NEW role \in AnyRole, NEW failing,
         LET first == InLayer(s, layers[1], shape, role, failing)
         IN  Within(IF Len(layers) = 1 THEN first
                    ELSE InLayer(first, layers[2], shape, role, failing))
  PROVE  LET first == InLayer(s, layers[1], shape, role, failing)
         IN  StateOK(IF Len(layers) = 1 THEN first
                     ELSE InLayer(first, layers[2], shape, role, failing),
                     strategy, since)
<1> DEFINE first == InLayer(s, layers[1], shape, role, failing)
           second == InLayer(first, layers[2], shape, role, failing)
           a == ShapeFor(layers[1], shape)
           b == ShapeFor(layers[2], shape)
           as == RoleFor(layers[1], shape, role)
           then == RoleFor(layers[2], shape, role)
<1>1. a \in Shapes /\ b \in Shapes /\ as \in AnyRole /\ then \in AnyRole
  BY DEF ShapeFor, Shapes, RoleFor, AnyRole
<1>2. Len(layers) = 1 \/ Len(layers) = 2
  BY DEF Targets
<1>3. first = s \/ first = Stores(s, a, as)
  BY DEF InLayer
<1>4. second = first \/ second = Stores(first, b, then)
  BY DEF InLayer
<1>5. Within(IF Len(layers) = 1 THEN first ELSE second)
  OBVIOUS
<1> HIDE DEF first, second, a, b, as, then
<1>6. s \in StateTypes /\ Within(s)
  BY MaxAddedAssumption, UnifiedAssumption DEF StateOK, StateTypes, Within
<1>7. Within(first)
  <2>1. CASE Len(layers) = 1
    BY <1>5, <2>1
  <2>2. CASE Len(layers) = 2
    <3>1. Within(second)
      BY <1>5, <2>2
    <3>2. CASE first = s \/ second = first
      BY <1>6, <3>1, <3>2
    <3>3. CASE first = Stores(s, a, as) /\ second = Stores(first, b, then)
      <4>1. Within(Stores(Stores(s, a, as), b, then))
        BY <3>1, <3>3
      <4>2. Within(Stores(s, a, as))
        BY <1>1, <1>6, <4>1, StoresGrow
      <4>3. QED
        BY <3>3, <4>2
    <3>4. QED
      BY <1>3, <1>4, <3>2, <3>3
  <2>3. QED
    BY <1>2, <2>1, <2>2
<1>8. StateOK(first, strategy, since)
  BY <1>1, <1>3, <1>7, StoresOK
<1>9. ASSUME Within(second) PROVE StateOK(second, strategy, since)
  BY <1>1, <1>4, <1>8, <1>9, StoresOK
<1>10. StateOK(IF Len(layers) = 1 THEN first ELSE second, strategy, since)
  BY <1>2, <1>5, <1>8, <1>9
<1>11. QED
  BY <1>10 DEF first, second

LEMMA UnifiedInductive ==
  ASSUME UnifiedInv, [UnifiedNext]_unifiedVars
  PROVE  UnifiedInv'
<1>1. strategy \in Strategies /\ components \in Seq(Components) /\ StateOK(State, strategy, cleared)
  BY DEF UnifiedInv
<1>2. CASE UNCHANGED unifiedVars
  BY <1>2 DEF unifiedVars, contextVars, conversation, UnifiedInv, State
<1>3. ASSUME NEW s, Becomes(s), s \in StateTypes, StateOK(s, strategy, cleared)
      PROVE  UnifiedInv'
  <2>1. State' = [messages |-> s.messages, added |-> s.added, handed |-> s.handed,
                  items |-> s.items, stored |-> s.stored]
    BY <1>3 DEF Becomes, State
  <2>2. s = [messages |-> s.messages, added |-> s.added, handed |-> s.handed,
             items |-> s.items, stored |-> s.stored]
    BY <1>3 DEF StateTypes
  <2>3. strategy' = strategy /\ components' = components /\ cleared' = cleared
    BY <1>3 DEF Becomes
  <2>4. QED
    BY <1>1, <1>3, <2>1, <2>2, <2>3 DEF UnifiedInv
<1>a. Roles \subseteq AnyRole
  BY RolesAssumption DEF AnyRole
<1>4. ASSUME NEW shape \in Shapes, NEW role \in Roles, Store(shape, role) PROVE UnifiedInv'
  <2>1. /\ StateOK(Stores(State, shape, role), strategy, cleared)
        /\ Becomes(Stores(State, shape, role))
    BY <1>1, <1>4, <1>a, StoresOK DEF Store
  <2>2. Stores(State, shape, role) \in StateTypes
    BY <2>1 DEF StateOK
  <2>3. QED
    BY <1>3, <2>1, <2>2
<1>5. ASSUME NEW layers \in Targets, NEW shape \in Shapes, NEW role \in Roles, NEW failing,
             CoordinateStore(layers, shape, role, failing)
      PROVE  UnifiedInv'
  <2> DEFINE first == InLayer(State, layers[1], shape, role, failing)
             after == IF Len(layers) = 1 THEN first
                      ELSE InLayer(first, layers[2], shape, role, failing)
  <2>1. Becomes(after) /\ Within(after)
    BY <1>5 DEF CoordinateStore
  <2>2. StateOK(after, strategy, cleared)
    BY <1>1, <1>a, <2>1, StoresTwiceOK
  <2> HIDE DEF after
  <2>3. after \in StateTypes
    BY <2>2 DEF StateOK
  <2>4. QED
    BY <1>3, <2>1, <2>2, <2>3
<1>6. ASSUME items' \in SUBSET [n : 1..MaxItems, kind : ItemKinds], components' \in Seq(Components),
             UNCHANGED <<messages, added, handed, stored, strategy, cleared>>
      PROVE  UnifiedInv'
  BY <1>1, <1>6 DEF UnifiedInv, StateOK, StateTypes, State, Untruncated
<1>7. ASSUME NEW i \in items, Delete(i) PROVE UnifiedInv'
  <2>1. items \in SUBSET [n : 1..MaxItems, kind : ItemKinds]
    BY <1>1 DEF StateOK, StateTypes, State
  <2>2. QED
    BY <1>1, <1>6, <1>7, <2>1 DEF Delete, contextVars, conversation
<1>8. ASSUME NEW c \in Components, Add(c), UNCHANGED <<items, stored, handed, cleared>>
      PROVE  UnifiedInv'
  <2>1. items \in SUBSET [n : 1..MaxItems, kind : ItemKinds]
    BY <1>1 DEF StateOK, StateTypes, State
  <2>2. components' \in Seq(Components)
    BY <1>1, <1>8 DEF Add
  <2>3. QED
    BY <1>6, <1>8, <2>1, <2>2 DEF Add, conversation
<1>9. CASE BuildContext
  <2>1. PICK n \in TokenCounts : Add(Component("retrieved", "HIGH", n, 0))
    BY <1>9 DEF BuildContext, AddRetrievedContext
  <2>2. Component("retrieved", "HIGH", n, 0) \in Components
    BY TokensAssumption DEF Component, Components, Names, Priorities
  <2>3. UNCHANGED <<items, stored, handed, cleared>>
    BY <1>9 DEF BuildContext
  <2>4. QED
    BY <1>8, <2>1, <2>2, <2>3
<1>10. CASE ClearAll
  BY <1>1, <1>10, MaxMessagesAssumption
  DEF ClearAll, UnifiedInv, StateOK, StateTypes, State, Untruncated, HistoryOK
<1>11. CASE AddComponent /\ UNCHANGED <<items, stored, handed, cleared>>
  <2>1. PICK kind \in Kinds, n \in TokenCounts : Add(Component("other", kind[1], n, kind[2]))
    BY <1>11 DEF AddComponent
  <2>2. Component("other", kind[1], n, kind[2]) \in Components
    BY TokensAssumption, KindsAssumption DEF Component, Components, Names
  <2>3. QED
    BY <1>8, <1>11, <2>1, <2>2
<1>12. ASSUME NEW how \in Strategies, SetStrategy(how), UNCHANGED components,
              UNCHANGED <<items, stored, handed, cleared>>
       PROVE  UnifiedInv'
  <2>1. /\ HistoryOK(messages, added, strategy) /\ messages \in Seq(Messages)
    BY <1>1 DEF StateOK, StateTypes, State
  <2>2. Len(messages) <= MaxMessages => messages' = messages
    BY <1>12, <2>1, TruncatedIs DEF SetStrategy
  <2>a. messages' \in Seq(Messages)
    BY <1>12, <2>1, TruncatedIs DEF SetStrategy
  <2>3. HistoryOK(messages', added', strategy')
    BY <1>12, <2>1, RetruncatedOK DEF SetStrategy
  <2>4. QED
    BY <1>1, <1>12, <2>2, <2>3, <2>a
    DEF SetStrategy, UnifiedInv, StateOK, StateTypes, State, Untruncated
<1>13. CASE Directly
  BY <1>11, <1>12, <1>13 DEF Directly
<1>14. QED
  BY <1>2, <1>4, <1>5, <1>7, <1>9, <1>10, <1>13 DEF UnifiedNext

LEMMA UnifiedStarts == UnifiedInit => UnifiedInv
BY MaxMessagesAssumption, MaxAddedAssumption, UnifiedAssumption
DEF UnifiedInit, ContextInit, ConversationInit, UnifiedInv, StateOK, StateTypes, State,
    Untruncated, HistoryOK, Strategies

LEMMA UnifiedAlways == UnifiedSpec => []UnifiedInv
BY UnifiedStarts, UnifiedInductive, PTL DEF UnifiedSpec

\* The variables of unified memory keep their types, whatever roles the
\* messages have and whichever layers are stored to.
THEOREM UnifiedTypeCorrect == UnifiedSpec => []UnifiedTypeOK
<1>1. UnifiedInv => UnifiedTypeOK
  BY DEF UnifiedInv, StateOK, StateTypes, State, UnifiedTypeOK, ContextTypeOK, ConversationTypeOK
<1>2. QED
  BY <1>1, UnifiedAlways, PTL

\* Until the history is truncated, the id that store returned for a message
\* gets that message, whatever is stored, deleted or cleared in between, in
\* whichever layers.
THEOREM IdsAlwaysHold == UnifiedSpec => []IdsHoldUntilTruncated
<1>1. UnifiedInv => IdsHoldUntilTruncated
  <2> SUFFICES ASSUME UnifiedInv, added - cleared <= MaxMessages,
                      NEW n \in DOMAIN handed, n > cleared
               PROVE  MessageAt(handed[n]) = {n}
    BY DEF IdsHoldUntilTruncated
  <2>1. /\ messages \in Seq(Messages) /\ added \in Nat /\ cleared \in 0..added
        /\ handed \in Seq(Nat \ {0}) /\ Len(handed) = added
        /\ Untruncated(State, cleared)
    BY DEF UnifiedInv, StateOK, StateTypes, State
  <2>2. /\ Len(messages) = added - cleared
        /\ \A i \in 1..Len(messages) : messages[i].n = cleared + i
        /\ \A k \in 1..Len(handed) : k > cleared => handed[k] = k - cleared
    BY <2>1 DEF Untruncated, State
  <2>3. n \in 1..added /\ n \in Nat
    BY <2>1
  <2>4. handed[n] = n - cleared /\ n - cleared \in 1..Len(messages)
    BY <2>1, <2>2, <2>3
  <2>5. messages[n - cleared].n = n /\ n - cleared \in DOMAIN messages
    BY <2>1, <2>2, <2>3, <2>4
  <2>6. QED
    BY <2>4, <2>5 DEF MessageAt
<1>2. QED
  BY <1>1, UnifiedAlways, PTL

\* Unified memory keeps the history sound too, though one call may add two
\* messages to it.
THEOREM UnifiedHistorySound == UnifiedSpec => []HistorySound
<1>1. UnifiedInv => HistorySound
  BY DEF UnifiedInv, StateOK, State, HistoryOK, HistorySound
<1>2. QED
  BY <1>1, UnifiedAlways, PTL

-----------------------------------------------------------------------------
(* The choice of the components that fit.                                  *)

LEMMA ComponentsAre ==
  ASSUME components \in Seq(Components)
  PROVE  /\ IsFiniteSet(Places) /\ Len(components) \in Nat /\ Cardinality(Places) = Len(components)
         /\ \A i \in Places : /\ Tokens(i) \in Nat /\ i \in Nat
                              /\ components[i].priority \in Priorities
                              /\ components[i].bonus \in Nat
<1>1. Len(components) \in Nat
  OBVIOUS
<1>2. IsFiniteSet(1..Len(components)) /\ Cardinality(1..Len(components)) = Len(components)
  <2>1. 1 \in Int /\ Len(components) \in Int
    BY <1>1
  <2>2. /\ IsFiniteSet(1..Len(components))
        /\ Cardinality(1..Len(components)) = IF 1 > Len(components) THEN 0
                                              ELSE Len(components) - 1 + 1
    BY <2>1, FS_Interval
  <2>3. QED
    BY <1>1, <2>2
<1>3. ASSUME NEW i \in Places
      PROVE  /\ Tokens(i) \in Nat /\ i \in Nat
             /\ components[i].priority \in Priorities /\ components[i].bonus \in Nat
  <2>1. components[i] \in Components /\ i \in Nat
    BY DEF Places
  <2>2. QED
    BY <2>1 DEF Tokens, Components
<1>4. QED
  BY <1>1, <1>2, <1>3 DEF Places

\* The tokens of components are finitely many, those of a part no more.
LEMMA TokensInFinite ==
  ASSUME components \in Seq(Components), NEW places \in SUBSET Places
  PROVE  IsFiniteSet(TokensIn(places)) /\ TotalOf(places) \in Nat
<1> DEFINE F == [i \in Places |-> {i} \X (1..Tokens(i))]
<1>1. IsFiniteSet(places)
  BY ComponentsAre, FS_Subset
<1>2. ASSUME NEW i \in places PROVE IsFiniteSet({i} \X (1..Tokens(i)))
  <2>1. Tokens(i) \in Int
    BY ComponentsAre
  <2>2. IsFiniteSet(1..Tokens(i))
    BY <2>1, FS_Interval
  <2>3. IsFiniteSet({i})
    BY FS_Singleton
  <2>4. QED
    BY <2>2, <2>3, FS_Product
<1>3. \A i \in places : F[i] = {i} \X (1..Tokens(i))
  OBVIOUS
<1> HIDE DEF F
<1>4. IsFiniteSet({F[i] : i \in places})
  BY <1>1, FiniteValues
<1>5. \A T \in {F[i] : i \in places} : IsFiniteSet(T)
  BY <1>2, <1>3
<1>6. IsFiniteSet(UNION {F[i] : i \in places})
  BY <1>4, <1>5, FS_UNION
<1>7. TokensIn(places) = UNION {F[i] : i \in places}
  BY <1>3 DEF TokensIn
<1>8. QED
  BY <1>6, <1>7, FS_CardinalityType DEF TotalOf

LEMMA TotalGrows ==
  ASSUME components \in Seq(Components), NEW S \in SUBSET Places, NEW T \in SUBSET S
  PROVE  TotalOf(T) <= TotalOf(S)
<1>1. TokensIn(T) \in SUBSET TokensIn(S)
  BY DEF TokensIn
<1>2. QED
  BY <1>1, TokensInFinite, FS_Subset DEF TotalOf

\* A component more adds its tokens, one that is there adds no more.
LEMMA TotalAdds ==
  ASSUME components \in Seq(Components), NEW S \in SUBSET Places, NEW i \in Places
  PROVE  /\ TotalOf(S \cup {i}) <= TotalOf(S) + Tokens(i)
         /\ i \notin S => TotalOf(S \cup {i}) = TotalOf(S) + Tokens(i)
<1> DEFINE one == {i}
           many == 1..Tokens(i)
           new == one \X many
<1>1. Tokens(i) \in Nat
  BY ComponentsAre
<1>2. /\ IsFiniteSet(one) /\ Cardinality(one) = 1
      /\ IsFiniteSet(many) /\ Cardinality(many) = Tokens(i)
  <2>1. IsFiniteSet({i}) /\ Cardinality({i}) = 1
    BY FS_Singleton
  <2>2. IsFiniteSet(1..Tokens(i)) /\ Cardinality(1..Tokens(i)) = Tokens(i)
    BY <1>1, FS_Interval
  <2>3. QED
    BY <2>1, <2>2
<1>3. /\ TokensIn(S \cup {i}) = TokensIn(S) \cup new
      /\ i \notin S => TokensIn(S) \cap new = {}
  BY DEF TokensIn
<1> HIDE DEF one, many
<1>4. IsFiniteSet(new) /\ Cardinality(new) = Tokens(i)
  <2>1. IsFiniteSet(new) /\ Cardinality(new) = 1 * Tokens(i)
    BY <1>2, FS_Product
  <2>2. QED
    BY <1>1, <2>1
<1> HIDE DEF new
<1>5. IsFiniteSet(TokensIn(S)) /\ TotalOf(S) \in Nat
  BY TokensInFinite
<1>6. Cardinality(TokensIn(S) \cup new)
        = Cardinality(TokensIn(S)) + Cardinality(new) - Cardinality(TokensIn(S) \cap new)
  BY <1>4, <1>5, FS_Union
<1>7. Cardinality(TokensIn(S) \cap new) \in Nat
  <2>1. TokensIn(S) \cap new \in SUBSET new
    OBVIOUS
  <2>2. QED
    BY <1>4, <2>1, FS_Subset, FS_CardinalityType
<1>8. i \notin S => Cardinality(TokensIn(S) \cap new) = 0
  BY <1>3, FS_EmptySet
<1>9. /\ Cardinality(TokensIn(S) \cup new) <= Cardinality(TokensIn(S)) + Tokens(i)
      /\ i \notin S => Cardinality(TokensIn(S) \cup new) = Cardinality(TokensIn(S)) + Tokens(i)
  <2>1. Cardinality(TokensIn(S)) \in Nat
    BY <1>5 DEF TotalOf
  <2>2. QED
    BY <1>1, <1>4, <1>6, <1>7, <1>8, <2>1
<1>10. QED
  BY <1>3, <1>9 DEF TotalOf

LEMMA RanksAre ==
  /\ \A p \in Priorities : Rank[p] \in 1..4
  /\ \A p \in Priorities : p # "CRITICAL" => Rank["CRITICAL"] < Rank[p]
BY DEF Rank, Priorities

\* The orders of importance and of priority are strict and linear.
LEMMA OutscoresOrders ==
  ASSUME components \in Seq(Components)
  PROVE  /\ \A i \in Places : ~Outscores(i, i)
         /\ \A i, j \in Places : i = j \/ Outscores(i, j) \/ Outscores(j, i)
         /\ \A i, j, k \in Places : Outscores(i, j) /\ Outscores(j, k) => Outscores(i, k)
<1>1. \A i \in Places : Score(i) \in Int /\ Tokens(i) \in Nat /\ i \in Nat
  <2>1. ASSUME NEW i \in Places PROVE Score(i) \in Int
    <3>1. Rank[components[i].priority] \in 1..4 /\ components[i].bonus \in Nat
      BY ComponentsAre, RanksAre
    <3> DEFINE r == Rank[components[i].priority]
               penalty == IF Tokens(i) > Large THEN 10 ELSE 0
    <3>2. Score(i) = 100 - 25 * (r - 1) + components[i].bonus - penalty
      BY DEF Score
    <3>3. penalty \in Int /\ r \in Int
      BY <3>1
    <3> HIDE DEF penalty, r
    <3>4. QED
      BY <3>1, <3>2, <3>3
  <2>2. QED
    BY <2>1, ComponentsAre
<1>2. ASSUME NEW i \in Places PROVE ~Outscores(i, i)
  BY <1>1 DEF Outscores
<1>3. ASSUME NEW i \in Places, NEW j \in Places PROVE i = j \/ Outscores(i, j) \/ Outscores(j, i)
  BY <1>1 DEF Outscores
<1>4. ASSUME NEW i \in Places, NEW j \in Places, NEW k \in Places, Outscores(i, j), Outscores(j, k)
      PROVE  Outscores(i, k)
  BY <1>1, <1>4 DEF Outscores
<1>5. QED
  BY <1>2, <1>3, <1>4

LEMMA PrecedesOrders ==
  ASSUME components \in Seq(Components)
  PROVE  /\ \A i \in Places : ~Precedes(i, i)
         /\ \A i, j \in Places : i = j \/ Precedes(i, j) \/ Precedes(j, i)
         /\ \A i, j, k \in Places : Precedes(i, j) /\ Precedes(j, k) => Precedes(i, k)
<1> DEFINE rank(i) == Rank[components[i].priority]
<1>1. \A i \in Places : rank(i) \in Int
  BY ComponentsAre, RanksAre
<1>2. \A i, j : Precedes(i, j) <=> rank(i) < rank(j) \/ (rank(i) = rank(j) /\ Outscores(i, j))
  BY DEF Precedes
<1> HIDE DEF rank
<1>3. ASSUME NEW i \in Places PROVE ~Precedes(i, i)
  BY <1>1, <1>2, OutscoresOrders
<1>4. ASSUME NEW i \in Places, NEW j \in Places PROVE i = j \/ Precedes(i, j) \/ Precedes(j, i)
  BY <1>1, <1>2, OutscoresOrders
<1>5. ASSUME NEW i \in Places, NEW j \in Places, NEW k \in Places, Precedes(i, j), Precedes(j, k)
      PROVE  Precedes(i, k)
  BY <1>1, <1>2, <1>5, OutscoresOrders
<1>6. QED
  BY <1>3, <1>4, <1>5

\* What is sorted by importance is every component, once.
LEMMA ByImportanceLists ==
  ASSUME components \in Seq(Components)
  PROVE  ByImportance \in [Places -> Places] /\ Range(ByImportance) = Places
<1> DEFINE n == Cardinality(Places)
           R == {p \in Places \X Places : Outscores(p[1], p[2])}
           Sorts(s) == \A k, l \in Places : k < l => Outscores(s[k], s[l])
<1>1. IsFiniteSet(Places) /\ n \in Nat /\ Places = 1..n
  BY ComponentsAre DEF Places
<1>2. \A x, y \in Places : <<x, y>> \in R <=> Outscores(x, y)
  OBVIOUS
<1> HIDE DEF R
<1>3. PICK s \in [1..n -> Places] : \A k, l \in 1..n : k < l => <<s[k], s[l]>> \in R
  <2>1. \A x \in Places : <<x, x>> \notin R
    BY <1>2, OutscoresOrders
  <2>2. \A x, y \in Places : x = y \/ <<x, y>> \in R \/ <<y, x>> \in R
    BY <1>2, OutscoresOrders
  <2>3. \A x, y, z \in Places : <<x, y>> \in R /\ <<y, z>> \in R => <<x, z>> \in R
    BY <1>2, OutscoresOrders
  <2>4. QED
    BY <1>1, <2>1, <2>2, <2>3, Sortable
<1> HIDE DEF n
<1>4. s \in [Places -> Places] /\ Sorts(s)
  BY <1>1, <1>2, <1>3
<1> DEFINE t == ByImportance
<1>5. t \in [Places -> Places] /\ Sorts(t)
  <2>1. t = CHOOSE u \in [Places -> Places] : Sorts(u)
    BY DEF ByImportance
  <2> HIDE DEF t, Sorts
  <2>2. QED
    BY <1>4, <2>1
<1> HIDE DEF t
<1>6. \A k, l \in DOMAIN t : k < l => t[k] # t[l]
  BY <1>5, OutscoresOrders
<1>7. Range(t) = Places
  BY <1>1, <1>5, <1>6, ListingCovers DEF n
<1>8. QED
  BY <1>5, <1>7 DEF t

LEMMA ByPriorityLists ==
  ASSUME components \in Seq(Components), NEW places \in SUBSET Places
  PROVE  /\ Cardinality(places) \in Nat
         /\ ByPriority(places) \in [1..Cardinality(places) -> places]
         /\ Range(ByPriority(places)) = places
         /\ \A k, l \in 1..Cardinality(places) :
              k < l => Precedes(ByPriority(places)[k], ByPriority(places)[l])
<1> DEFINE n == Cardinality(places)
           R == {p \in places \X places : Precedes(p[1], p[2])}
           Sorts(s) == \A k, l \in 1..n : k < l => Precedes(s[k], s[l])
<1>1. IsFiniteSet(places) /\ n \in Nat
  BY ComponentsAre, FS_Subset, FS_CardinalityType
<1>2. \A x, y \in places : <<x, y>> \in R <=> Precedes(x, y)
  OBVIOUS
<1> HIDE DEF R
<1>3. PICK s \in [1..n -> places] : \A k, l \in 1..n : k < l => <<s[k], s[l]>> \in R
  <2>1. \A x \in places : <<x, x>> \notin R
    BY <1>2, PrecedesOrders
  <2>2. \A x, y \in places : x = y \/ <<x, y>> \in R \/ <<y, x>> \in R
    BY <1>2, PrecedesOrders
  <2>3. \A x, y, z \in places : <<x, y>> \in R /\ <<y, z>> \in R => <<x, z>> \in R
    <3>1. \A x, y, z \in places : Precedes(x, y) /\ Precedes(y, z) => Precedes(x, z)
      BY PrecedesOrders
    <3>2. QED
      BY <1>2, <3>1
  <2>4. QED
    BY <1>1, <2>1, <2>2, <2>3, Sortable
<1>4. Sorts(s)
  BY <1>2, <1>3
<1> DEFINE t == ByPriority(places)
<1>5. t \in [1..n -> places] /\ Sorts(t)
  <2>1. t = CHOOSE u \in [1..n -> places] : Sorts(u)
    BY DEF ByPriority
  <2> HIDE DEF t, Sorts
  <2>2. QED
    BY <1>3, <1>4, <2>1
<1> HIDE DEF t
<1>6. \A k, l \in DOMAIN t : k < l => t[k] # t[l]
  BY <1>5, PrecedesOrders
<1>7. Range(t) = places
  BY <1>1, <1>5, <1>6, ListingCovers
<1>8. QED
  BY <1>1, <1>5, <1>7 DEF t

\* What the definition of SelectComponents computes in its second pass.
Chosen(k, chosen) == IF IsCritical(ByImportance[k]) THEN chosen ELSE AddIfFits(chosen, ByImportance[k])
Choosing == CHOOSE chosen : chosen =
              [k \in 0..Len(components) |-> IF k = 0 THEN Critical ELSE Chosen(k, chosen[k - 1])]

LEMMA ChoosingSteps ==
  ASSUME components \in Seq(Components)
  PROVE  /\ Choosing[0] = Critical
         /\ \A k \in 0..Len(components) : Choosing[k] \in SUBSET Places
         /\ \A k \in 1..Len(components) : Choosing[k] = Chosen(k, Choosing[k - 1])
<1> DEFINE n == Len(components)
           A == SUBSET Places
           h == [p \in (1..n) \X A |-> Chosen(p[1], p[2])]
           Is(r) == r = [k \in 0..n |-> IF k = 0 THEN Critical ELSE Chosen(k, r[k - 1])]
<1>1. n \in Nat /\ Critical \in A
  BY ComponentsAre DEF Critical
<1>2. ASSUME NEW k \in 1..n, NEW T \in A PROVE Chosen(k, T) \in A
  <2>1. ByImportance[k] \in Places
    BY ByImportanceLists DEF Places
  <2>2. QED
    BY <2>1 DEF Chosen, AddIfFits
<1>3. h \in StepsOn(n, A)
  BY <1>2 DEF StepsOn
<1>4. Choosing = CHOOSE r : Is(r)
  BY DEF Choosing
<1> HIDE DEF n, A
<1>5. PICK g \in [0..n -> A] : g[0] = Critical /\ \A k \in 1..n : g[k] = h[<<k, g[k - 1]>>]
  <2> HIDE DEF h
  <2>1. \E g \in [0..n -> A] : Follows(g, n, Critical, h)
    BY <1>1, <1>3, Recursion
  <2>2. QED
    BY <2>1 DEF Follows
<1>6. ASSUME NEW k \in 1..n PROVE g[k] = Chosen(k, g[k - 1])
  <2>1. k - 1 \in 0..n
    BY <1>1
  <2>2. <<k, g[k - 1]>> \in (1..n) \X A
    BY <1>5, <2>1
  <2>3. QED
    BY <1>5, <2>2
<1>7. Is(g)
  <2>1. \A k \in 0..n : g[k] = IF k = 0 THEN Critical ELSE Chosen(k, g[k - 1])
    BY <1>1, <1>5, <1>6
  <2>2. QED
    BY <1>5, <2>1
<1> DEFINE r == Choosing
<1>8. Is(r)
  <2> HIDE DEF Is, r
  <2>1. r = CHOOSE x : Is(x)
    BY <1>4 DEF r
  <2>2. QED
    BY <1>7, <2>1
<1> HIDE DEF r
<1>9. \A k \in 0..n : r[k] = IF k = 0 THEN Critical ELSE Chosen(k, r[k - 1])
  BY <1>8
<1> HIDE DEF Is
<1>10. r[0] = Critical /\ \A k \in 1..n : r[k] = Chosen(k, r[k - 1])
  <2>1. 0 \in 0..n /\ \A k \in 1..n : k \in 0..n /\ k # 0
    BY <1>1
  <2>2. QED
    BY <1>9, <2>1
<1>11. \A k \in 0..n : r[k] \in A
  <2> DEFINE S == {k \in Nat : k <= n => r[k] \in A}
  <2>1. 0 \in S
    BY <1>1, <1>10
  <2>2. ASSUME NEW k \in Nat, k \in S PROVE k + 1 \in S
    <3> SUFFICES ASSUME k + 1 <= n PROVE r[k + 1] \in A
      OBVIOUS
    <3>1. k + 1 \in 1..n /\ (k + 1) - 1 = k /\ r[k] \in A
      BY <1>1, <2>2
    <3>2. r[k + 1] = Chosen(k + 1, r[k])
      BY <1>10, <3>1
    <3>3. QED
      BY <1>2, <3>1, <3>2
  <2> HIDE DEF S
  <2>3. Nat \subseteq S
    BY <2>1, <2>2, Induction
  <2>4. QED
    BY <1>1, <2>3 DEF S
<1>12. QED
  BY <1>10, <1>11 DEF r, n, A

\* After k components the critical ones are chosen and what else is chosen
\* fits, and what was passed over does not.
ChosenWell(chosen, k) ==
  /\ Critical \subseteq chosen
  /\ TotalOf(chosen) > MaxTokens => chosen \subseteq Critical
  /\ \A l \in 1..k : ByImportance[l] \in chosen \/ TotalOf(chosen) + Tokens(ByImportance[l]) > MaxTokens

LEMMA ChosenStays ==
  ASSUME components \in Seq(Components), NEW k \in Nat, k + 1 <= Len(components),
         NEW T \in SUBSET Places, ChosenWell(T, k)
  PROVE  ChosenWell(Chosen(k + 1, T), k + 1)
<1> DEFINE i == ByImportance[k + 1]
           C == Chosen(k + 1, T)
<1>1. /\ MaxTokens \in Nat /\ TotalOf(T) \in Nat
      /\ \A l \in 1..k + 1 : ByImportance[l] \in Places /\ Tokens(ByImportance[l]) \in Nat
  <2>1. \A l \in 1..k + 1 : l \in Places
    BY ComponentsAre DEF Places
  <2>2. QED
    BY <2>1, BudgetAssumption, ComponentsAre, ByImportanceLists, TokensInFinite
<1>2. i \in Places /\ Tokens(i) \in Nat
  BY <1>1
<1>3. \A l \in 1..k + 1 : l \in 1..k \/ l = k + 1
  OBVIOUS
<1>4. /\ Critical \subseteq T /\ (TotalOf(T) > MaxTokens => T \subseteq Critical)
      /\ \A l \in 1..k : ByImportance[l] \in T \/ TotalOf(T) + Tokens(ByImportance[l]) > MaxTokens
  BY DEF ChosenWell
<1>5. C = IF IsCritical(i) THEN T
          ELSE IF TotalOf(T) + Tokens(i) <= MaxTokens THEN T \cup {i} ELSE T
  BY DEF Chosen, AddIfFits
<1> HIDE DEF i, C
<1>6. CASE IsCritical(i)
  <2>1. C = T /\ i \in T
    BY <1>2, <1>4, <1>5, <1>6 DEF Critical
  <2>2. QED
    BY <1>3, <1>4, <2>1 DEF ChosenWell, i, C
<1>7. CASE ~IsCritical(i) /\ TotalOf(T) + Tokens(i) <= MaxTokens
  <2>1. C = T \cup {i}
    BY <1>5, <1>7
  <2>2. /\ TotalOf(C) <= TotalOf(T) + Tokens(i) /\ TotalOf(C) \in Nat /\ TotalOf(T) <= TotalOf(C)
    <3>1. C \in SUBSET Places /\ T \in SUBSET C
      BY <1>2, <2>1
    <3>2. QED
      BY <1>2, <2>1, <3>1, TotalAdds, TotalGrows, TokensInFinite
  <2>3. ~(TotalOf(C) > MaxTokens)
    BY <1>1, <1>2, <1>7, <2>2
  <2>4. ASSUME NEW l \in 1..k + 1
        PROVE  ByImportance[l] \in C \/ TotalOf(C) + Tokens(ByImportance[l]) > MaxTokens
    <3>1. CASE l = k + 1
      BY <2>1, <3>1 DEF i
    <3>2. CASE l \in 1..k /\ ByImportance[l] \in T
      BY <2>1, <3>2
    <3>3. CASE l \in 1..k /\ TotalOf(T) + Tokens(ByImportance[l]) > MaxTokens
      <4>1. TotalOf(C) + Tokens(ByImportance[l]) > MaxTokens
        BY <1>1, <2>2, <3>3
      <4>2. QED
        BY <4>1
    <3>4. QED
      BY <1>3, <1>4, <3>1, <3>2, <3>3
  <2>5. Critical \subseteq C
    BY <1>4, <2>1
  <2>6. QED
    BY <2>3, <2>4, <2>5 DEF ChosenWell, C
<1>8. CASE ~IsCritical(i) /\ ~(TotalOf(T) + Tokens(i) <= MaxTokens)
  <2>1. C = T
    BY <1>5, <1>8
  <2>2. TotalOf(T) + Tokens(i) > MaxTokens
    BY <1>1, <1>2, <1>8
  <2>3. \A l \in 1..k + 1 : ByImportance[l] \in T \/ TotalOf(T) + Tokens(ByImportance[l]) > MaxTokens
    BY <1>3, <1>4, <2>2 DEF i
  <2>4. QED
    BY <1>4, <2>1, <2>3 DEF ChosenWell, C
<1>9. QED
  BY <1>6, <1>7, <1>8

LEMMA SelectionIs ==
  ASSUME components \in Seq(Components)
  PROVE  /\ SelectComponents \in SUBSET Places /\ Critical \subseteq SelectComponents
         /\ SelectionMaximal
<1> DEFINE n == Len(components)
           r == Choosing
           S == {k \in Nat : k <= n => ChosenWell(r[k], k)}
<1>1. n \in Nat
  BY ComponentsAre
<1>2. SelectComponents = r[n]
  BY DEF SelectComponents, Choosing, Chosen
<1>3. /\ r[0] = Critical /\ \A k \in 0..n : r[k] \in SUBSET Places
      /\ \A k \in 1..n : r[k] = Chosen(k, r[k - 1])
  BY ChoosingSteps
<1> HIDE DEF r
<1>4. 0 \in S
  BY <1>3 DEF ChosenWell
<1>5. ASSUME NEW k \in Nat, k \in S PROVE k + 1 \in S
  <2> SUFFICES ASSUME k + 1 <= n PROVE ChosenWell(r[k + 1], k + 1)
    OBVIOUS
  <2>1. k + 1 \in 1..n /\ (k + 1) - 1 = k /\ k \in 0..n /\ ChosenWell(r[k], k)
    BY <1>1, <1>5
  <2>2. r[k + 1] = Chosen(k + 1, r[k]) /\ r[k] \in SUBSET Places
    BY <1>3, <2>1
  <2>3. QED
    BY <2>1, <2>2, ChosenStays
<1> HIDE DEF S
<1>6. n \in S
  BY <1>1, <1>4, <1>5, Induction
<1>7. ChosenWell(r[n], n) /\ r[n] \in SUBSET Places
  BY <1>1, <1>3, <1>6 DEF S
<1>8. ASSUME NEW i \in Places \ r[n] PROVE TotalOf(r[n]) + Tokens(i) > MaxTokens
  <2>1. PICK l \in 1..n : ByImportance[l] = i
    BY ByImportanceLists DEF Range, Places
  <2>2. QED
    BY <1>7, <2>1 DEF ChosenWell
<1>9. SelectionMaximal
  BY <1>2, <1>7, <1>8 DEF SelectionMaximal, ChosenWell, Overflows
<1>10. QED
  BY <1>2, <1>7, <1>9 DEF ChosenWell

-----------------------------------------------------------------------------
(* The truncation of what does not fit.                                    *)

Truncations == [whole : SUBSET Places, cut : Nat, cutPlaces : SUBSET Places]

Fitting(r) == TotalOf(r.whole) + r.cut <= MaxTokens + (IF r.cutPlaces = {} THEN 0 ELSE Ellipsis)

\* Critical components have used up the budget.
Spent(r) == TotalOf(r.whole \cap Critical) + r.cut >= MaxTokens

\* After k components, in the order of a list.
TruncatedWell(r, k, order) ==
  /\ r \in Truncations
  /\ r.whole \subseteq {order[l] : l \in 1..k}
  /\ Fitting(r)
  /\ \A l \in 1..k : IsCritical(order[l]) => order[l] \in Kept(r) \/ Spent(r)

\* Truncation comes to critical components first: while it does, all it has
\* kept is critical.
LEMMA TruncatedStays ==
  ASSUME components \in Seq(Components), NEW n \in Nat, NEW order \in [1..n -> Places],
         \A k, l \in 1..n : k < l => Precedes(order[k], order[l]),
         NEW k \in Nat, k + 1 <= n, NEW r, TruncatedWell(r, k, order),
         NEW t \in TruncateOne(r, order[k + 1])
  PROVE  TruncatedWell(t, k + 1, order)
<1> DEFINE i == order[k + 1]
           available == MaxTokens - (TotalOf(r.whole) + r.cut)
<1>1. /\ r \in Truncations /\ r.whole \subseteq {order[l] : l \in 1..k} /\ Fitting(r)
      /\ \A l \in 1..k : IsCritical(order[l]) => order[l] \in Kept(r) \/ Spent(r)
  BY DEF TruncatedWell
<1>2. /\ i \in Places /\ Tokens(i) \in Nat /\ MaxTokens \in Nat /\ Ellipsis \in Nat
      /\ r.whole \in SUBSET Places /\ r.cut \in Nat /\ r.cutPlaces \in SUBSET Places
      /\ TotalOf(r.whole) \in Nat /\ available \in Int
  <2>1. i \in Places /\ k + 1 \in 1..n
    OBVIOUS
  <2>2. r.whole \in SUBSET Places /\ r.cut \in Nat /\ r.cutPlaces \in SUBSET Places
    BY <1>1 DEF Truncations
  <2>3. TotalOf(r.whole) \in Nat
    BY <2>2, TokensInFinite
  <2>4. MaxTokens \in Nat /\ Ellipsis \in Nat
    BY BudgetAssumption
  <2>5. available \in Int
    BY <2>2, <2>3, <2>4
  <2>6. QED
    BY <2>1, <2>2, <2>3, <2>4, <2>5, ComponentsAre
<1>3. \A l \in 1..k + 1 : l \in 1..k \/ l = k + 1
  OBVIOUS
<1>4. {order[l] : l \in 1..k} \cup {i} \subseteq {order[l] : l \in 1..k + 1}
  OBVIOUS
\* What is critical comes first.
<1>5. IsCritical(i) => r.whole \subseteq Critical
  <2> SUFFICES ASSUME IsCritical(i), NEW l \in 1..k PROVE IsCritical(order[l]) /\ order[l] \in Places
    BY <1>1 DEF Critical
  <2>1. l \in 1..n /\ k + 1 \in 1..n /\ l < k + 1
    OBVIOUS
  <2>2. Precedes(order[l], i) /\ order[l] \in Places
    BY <2>1
  <2> DEFINE rank(p) == Rank[components[p].priority]
  <2>3. rank(order[l]) < rank(i) \/ rank(order[l]) = rank(i)
    BY <2>2 DEF Precedes
  <2>4. rank(i) = Rank["CRITICAL"]
    BY DEF IsCritical
  <2>5. components[order[l]].priority \in Priorities
    BY <2>2, ComponentsAre
  <2>6. components[order[l]].priority = "CRITICAL"
    <3> DEFINE p == components[order[l]].priority
    <3> SUFFICES ASSUME p # "CRITICAL" PROVE FALSE
      OBVIOUS
    <3>1. Rank["CRITICAL"] < Rank[p] /\ Rank[p] \in 1..4 /\ Rank["CRITICAL"] \in 1..4
      BY <2>5, RanksAre DEF Priorities
    <3>2. Rank[p] < Rank["CRITICAL"] \/ Rank[p] = Rank["CRITICAL"]
      BY <2>3, <2>4
    <3> HIDE DEF p
    <3>3. QED
      BY <3>1, <3>2
  <2>7. QED
    BY <2>2, <2>6 DEF IsCritical
\* What is kept only grows, and so does what is spent.
<1>6. ASSUME t \in Truncations, r.whole \subseteq t.whole, r.cutPlaces \subseteq t.cutPlaces,
             r.cut <= t.cut, t.whole \subseteq r.whole \cup {i}, Fitting(t),
             IsCritical(i) => i \in Kept(t) \/ Spent(t)
      PROVE  TruncatedWell(t, k + 1, order)
  <2>1. t.whole \in SUBSET Places /\ t.cut \in Nat
    BY <1>6 DEF Truncations
  <2>2. Spent(r) => Spent(t)
    <3>1. t.whole \cap Critical \in SUBSET Places /\ r.whole \cap Critical \in SUBSET (t.whole \cap Critical)
          /\ r.whole \cap Critical \in SUBSET Places
      BY <1>2, <1>6, <2>1
    <3> DEFINE x == r.whole \cap Critical
               y == t.whole \cap Critical
    <3>2. x \in SUBSET Places /\ y \in SUBSET Places /\ x \in SUBSET y
      BY <3>1
    <3> HIDE DEF x, y
    <3>3. TotalOf(x) <= TotalOf(y) /\ TotalOf(x) \in Nat /\ TotalOf(y) \in Nat
      BY <3>2, TotalGrows, TokensInFinite
    <3> DEFINE p == TotalOf(x)
               q == TotalOf(y)
    <3>4. p + r.cut >= MaxTokens => q + t.cut >= MaxTokens
      <4>1. p \in Nat /\ q \in Nat /\ p <= q
        BY <3>3
      <4> HIDE DEF p, q
      <4>2. r.cut \in Nat /\ t.cut \in Nat /\ r.cut <= t.cut /\ MaxTokens \in Nat
        BY <1>2, <1>6, <2>1
      <4>3. QED
        BY <4>1, <4>2
    <3>5. QED
      BY <3>4 DEF Spent, x, y
  <2>3. Kept(r) \subseteq Kept(t)
    BY <1>6 DEF Kept
  <2>4. \A l \in 1..k + 1 : IsCritical(order[l]) => order[l] \in Kept(t) \/ Spent(t)
    BY <1>1, <1>3, <1>6, <2>2, <2>3
  <2>5. t.whole \subseteq {order[l] : l \in 1..k + 1}
    BY <1>1, <1>4, <1>6
  <2>6. QED
    BY <1>6, <2>4, <2>5 DEF TruncatedWell
<1>7. t \in (IF Tokens(i) <= available THEN {[r EXCEPT !.whole = @ \cup {i}]}
             ELSE IF IsCritical(i) /\ available > 0
             THEN {[r EXCEPT !.cut = @ + m, !.cutPlaces = @ \cup {i}] : m \in 1..available + Ellipsis}
             ELSE {r})
  BY DEF TruncateOne
<1>8. CASE Tokens(i) <= available
  <2>1. t = [r EXCEPT !.whole = r.whole \cup {i}]
    BY <1>7, <1>8
  <2>2. t.whole = r.whole \cup {i} /\ t.cut = r.cut /\ t.cutPlaces = r.cutPlaces
    BY <1>1, <2>1 DEF Truncations
  <2>3. t \in Truncations
    BY <1>1, <1>2, <2>1 DEF Truncations
  <2>4. Fitting(t)
    <3>1. TotalOf(t.whole) <= TotalOf(r.whole) + Tokens(i) /\ TotalOf(t.whole) \in Nat
      <4>1. r.whole \cup {i} \in SUBSET Places
        BY <1>2
      <4>2. QED
        BY <1>2, <2>2, <4>1, TotalAdds, TokensInFinite
    <3> DEFINE more == IF t.cutPlaces = {} THEN 0 ELSE Ellipsis
    <3>2. more \in Nat
      BY <1>2
    <3>3. Tokens(i) <= MaxTokens - (TotalOf(r.whole) + r.cut)
      BY <1>8
    <3> HIDE DEF more
    <3>4. TotalOf(t.whole) + t.cut <= MaxTokens + more
      BY <1>2, <2>2, <3>1, <3>2, <3>3, SMTT(30)
    <3>5. QED
      BY <3>4 DEF Fitting, more
  <2>5. QED
    <3>1. r.cut <= t.cut
      BY <1>2, <2>2
    <3>2. i \in Kept(t)
      BY <2>2 DEF Kept
    <3>3. QED
      BY <1>6, <2>2, <2>3, <2>4, <3>1, <3>2
<1>9. CASE ~(Tokens(i) <= available) /\ IsCritical(i) /\ available > 0
  <2>1. PICK m \in 1..available + Ellipsis : t = [r EXCEPT !.cut = r.cut + m, !.cutPlaces = r.cutPlaces \cup {i}]
    BY <1>7, <1>9
  <2>2. t.whole = r.whole /\ t.cut = r.cut + m /\ t.cutPlaces = r.cutPlaces \cup {i}
    BY <1>1, <2>1 DEF Truncations
  <2>3. m \in Nat /\ m <= available + Ellipsis
    BY <1>2
  <2>4. t \in Truncations
    <3>1. r.cut + m \in Nat
      BY <1>2, <2>3, SMTT(30)
    <3>2. QED
      BY <1>1, <1>2, <2>1, <3>1 DEF Truncations
  <2>5. Fitting(t)
    <3> DEFINE q == TotalOf(r.whole)
    <3>1. q + (r.cut + m) <= MaxTokens + Ellipsis
      <4>1. q \in Nat /\ m <= MaxTokens - (q + r.cut) + Ellipsis
        BY <1>2, <2>3
      <4>2. r.cut \in Nat /\ m \in Nat /\ MaxTokens \in Nat /\ Ellipsis \in Nat
        BY <1>2, <2>3
      <4> HIDE DEF q
      <4>3. QED
        BY <4>1, <4>2
    <3>2. t.cutPlaces # {}
      BY <2>2
    <3>3. QED
      BY <2>2, <3>1, <3>2 DEF Fitting
  <2>6. QED
    <3>1. r.cut <= t.cut
      BY <1>2, <2>2, <2>3
    <3>2. i \in Kept(t)
      BY <2>2 DEF Kept
    <3>3. QED
      BY <1>6, <2>2, <2>4, <2>5, <3>1, <3>2
<1>10. CASE ~(Tokens(i) <= available) /\ ~(IsCritical(i) /\ available > 0)
  <2>1. t = r
    BY <1>7, <1>10
  <2>2. IsCritical(i) => Spent(t)
    <3> SUFFICES ASSUME IsCritical(i) PROVE Spent(r)
      BY <2>1
    <3>1. r.whole \cap Critical = r.whole
      BY <1>5
    <3>2. ~(available > 0)
      BY <1>10
    <3>3. TotalOf(r.whole) + r.cut >= MaxTokens
      BY <1>2, <3>2
    <3>4. QED
      BY <3>1, <3>3 DEF Spent
  <2>3. r.cut <= t.cut
    BY <1>2, <2>1
  <2>4. QED
    BY <1>1, <1>6, <2>1, <2>2, <2>3
<1>11. QED
  BY <1>8, <1>9, <1>10

LEMMA TruncateOneTyped ==
  ASSUME components \in Seq(Components), NEW r \in Truncations, NEW i \in Places
  PROVE  TruncateOne(r, i) \in SUBSET Truncations
<1> DEFINE available == MaxTokens - (TotalOf(r.whole) + r.cut)
<1>1. r.whole \in SUBSET Places /\ r.cut \in Nat /\ r.cutPlaces \in SUBSET Places
  BY DEF Truncations
<1>2. available + Ellipsis \in Int
  <2>1. TotalOf(r.whole) \in Nat /\ MaxTokens \in Nat /\ Ellipsis \in Nat
    BY <1>1, TokensInFinite, BudgetAssumption
  <2>2. QED
    BY <1>1, <2>1
<1>3. [r EXCEPT !.whole = r.whole \cup {i}] \in Truncations
  BY <1>1 DEF Truncations
<1>4. ASSUME NEW m \in 1..available + Ellipsis
      PROVE  [r EXCEPT !.cut = r.cut + m, !.cutPlaces = r.cutPlaces \cup {i}] \in Truncations
  <2>1. r.cut + m \in Nat /\ r.cutPlaces \cup {i} \in SUBSET Places
    BY <1>1, <1>2
  <2>2. QED
    BY <1>1, <2>1 DEF Truncations
<1>5. TruncateOne(r, i) =
        IF Tokens(i) <= available THEN {[r EXCEPT !.whole = r.whole \cup {i}]}
        ELSE IF IsCritical(i) /\ available > 0
        THEN {[r EXCEPT !.cut = r.cut + m, !.cutPlaces = r.cutPlaces \cup {i}] :
                m \in 1..available + Ellipsis}
        ELSE {r}
  BY DEF TruncateOne
<1> DEFINE cuts == {[r EXCEPT !.cut = r.cut + m, !.cutPlaces = r.cutPlaces \cup {i}] :
                      m \in 1..available + Ellipsis}
           wider == [r EXCEPT !.whole = r.whole \cup {i}]
<1>6. cuts \in SUBSET Truncations
  BY <1>4
<1>7. /\ wider \in Truncations
      /\ TruncateOne(r, i) = IF Tokens(i) <= available THEN {wider}
                             ELSE IF IsCritical(i) /\ available > 0 THEN cuts ELSE {r}
  BY <1>3, <1>5
<1> HIDE DEF available, cuts, wider
<1>8. QED
  BY <1>6, <1>7

\* What the definition of TruncateComponents computes.
TruncateAll(results, i) == UNION {TruncateOne(r, i) : r \in results}
Truncating(places) == CHOOSE results : results =
  [k \in 0..Cardinality(places) |->
     IF k = 0 THEN {Whole({})} ELSE TruncateAll(results[k - 1], ByPriority(places)[k])]

LEMMA TruncationsAre ==
  ASSUME components \in Seq(Components), NEW places \in SUBSET Places,
         NEW r \in TruncateComponents(places)
  PROVE  TruncatedWell(r, Cardinality(places), ByPriority(places))
<1> DEFINE n == Cardinality(places)
           order == ByPriority(places)
           A == SUBSET Truncations
           All(k, T) == TruncateAll(T, order[k])
           a == {Whole({})}
           h == [p \in (1..n) \X A |-> All(p[1], p[2])]
           Is(x) == x = [k \in 0..n |-> IF k = 0 THEN a ELSE All(k, x[k - 1])]
           f == Truncating(places)
<1>1. r \in f[n]
  BY DEF TruncateComponents, Truncating, TruncateAll
<1>2. f = CHOOSE x : Is(x)
  BY DEF Truncating
<1>3. /\ n \in Nat /\ order \in [1..n -> places] /\ order \in [1..n -> Places]
      /\ \A k, l \in 1..n : k < l => Precedes(order[k], order[l])
  <2>1. /\ n \in Nat /\ order \in [1..n -> places]
        /\ \A k, l \in 1..n : k < l => Precedes(order[k], order[l])
    BY ByPriorityLists
  <2> HIDE DEF order, n
  <2>2. order \in [1..n -> Places]
    BY <2>1
  <2>3. QED
    BY <2>1, <2>2
<1> HIDE DEF n, order, f
<1>4. a \in A /\ \A x \in a : TruncatedWell(x, 0, order)
  <2> DEFINE x == Whole({})
  <2>1. x.whole = {} /\ x.cut = 0 /\ x.cutPlaces = {} /\ x \in Truncations
    BY DEF Whole, Truncations
  <2> HIDE DEF x
  <2>2. TotalOf({}) = 0
    <3>1. TokensIn({}) = {}
      BY DEF TokensIn
    <3>2. QED
      BY <3>1, FS_EmptySet DEF TotalOf
  <2>3. Fitting(x)
    BY <2>1, <2>2, BudgetAssumption DEF Fitting
  <2>4. TruncatedWell(x, 0, order)
    BY <2>1, <2>3 DEF TruncatedWell
  <2>5. QED
    BY <2>1, <2>4 DEF x
<1>5. ASSUME NEW k \in 1..n, NEW T \in A PROVE All(k, T) \in A
  <2>1. order[k] \in Places
    BY <1>3
  <2>2. \A x \in T : TruncateOne(x, order[k]) \in SUBSET Truncations
    BY <2>1, TruncateOneTyped
  <2>3. QED
    BY <2>2 DEF TruncateAll
<1>6. h \in StepsOn(n, A)
  BY <1>5 DEF StepsOn
<1> HIDE DEF A, a, All
<1>7. PICK g \in [0..n -> A] : g[0] = a /\ \A k \in 1..n : g[k] = h[<<k, g[k - 1]>>]
  <2> HIDE DEF h
  <2>1. \E g \in [0..n -> A] : Follows(g, n, a, h)
    BY <1>3, <1>4, <1>6, Recursion
  <2>2. QED
    BY <2>1 DEF Follows
<1>8. ASSUME NEW k \in 1..n PROVE g[k] = All(k, g[k - 1])
  <2>1. k - 1 \in 0..n
    BY <1>3
  <2>2. <<k, g[k - 1]>> \in (1..n) \X A
    BY <1>7, <2>1
  <2>3. QED
    BY <1>7, <2>2
<1>9. Is(g)
  <2>1. \A k \in 0..n : g[k] = IF k = 0 THEN a ELSE All(k, g[k - 1])
    BY <1>3, <1>7, <1>8
  <2>2. QED
    BY <1>7, <2>1
<1>10. Is(f)
  <2> HIDE DEF Is
  <2>1. QED
    BY <1>2, <1>9
<1>11. \A k \in 0..n : f[k] = IF k = 0 THEN a ELSE All(k, f[k - 1])
  BY <1>10
<1> HIDE DEF Is
<1>12. f[0] = a /\ \A k \in 1..n : f[k] = All(k, f[k - 1])
  <2>1. 0 \in 0..n /\ \A k \in 1..n : k \in 0..n /\ k # 0
    BY <1>3
  <2>2. QED
    BY <1>11, <2>1
<1> DEFINE S == {k \in Nat : k <= n => \A x \in f[k] : TruncatedWell(x, k, order)}
<1>13. 0 \in S
  BY <1>4, <1>12
<1>14. ASSUME NEW k \in Nat, k \in S PROVE k + 1 \in S
  <2> SUFFICES ASSUME k + 1 <= n, NEW t \in f[k + 1] PROVE TruncatedWell(t, k + 1, order)
    OBVIOUS
  <2>1. k + 1 \in 1..n /\ (k + 1) - 1 = k /\ \A x \in f[k] : TruncatedWell(x, k, order)
    BY <1>3, <1>14
  <2>2. f[k + 1] = TruncateAll(f[k], order[k + 1])
    BY <1>12, <2>1 DEF All
  <2>3. PICK x \in f[k] : t \in TruncateOne(x, order[k + 1])
    BY <2>2 DEF TruncateAll
  <2>4. QED
    BY <1>3, <2>1, <2>3, TruncatedStays
<1> HIDE DEF S
<1>15. n \in S
  BY <1>3, <1>13, <1>14, Induction
<1>16. TruncatedWell(r, n, order)
  BY <1>1, <1>3, <1>15 DEF S
<1>17. QED
  BY <1>16 DEF n, order

\* Whatever the components are, the choice among them is sound.
LEMMA ComponentsChosen == components \in Seq(Components) => ContextSound
<1> SUFFICES ASSUME components \in Seq(Components) PROVE ContextSound
  OBVIOUS
<1>1. /\ SelectComponents \in SUBSET Places /\ Critical \subseteq SelectComponents
      /\ SelectionMaximal
  BY SelectionIs
<1>2. MaxTokens \in Nat /\ Ellipsis \in Nat
  BY BudgetAssumption
<1> DEFINE Right(r) == Fitting(r) /\ (Critical \subseteq Kept(r) \/ Spent(r))
<1>3. ASSUME NEW places \in SUBSET Places, ~Overflows(places), Critical \subseteq places
      PROVE  Right(Whole(places))
  <2>1. TotalOf(places) \in Nat
    BY TokensInFinite
  <2>2. TotalOf(places) <= MaxTokens
    BY <1>2, <1>3, <2>1 DEF Overflows
  <2>3. /\ Whole(places).whole = places /\ Whole(places).cut = 0 /\ Whole(places).cutPlaces = {}
    BY DEF Whole
  <2>4. QED
    BY <1>2, <1>3, <2>1, <2>2, <2>3 DEF Fitting, Kept
<1>4. ASSUME NEW r \in TruncateComponents(SelectComponents) PROVE Right(r)
  <2> DEFINE n == Cardinality(SelectComponents)
             order == ByPriority(SelectComponents)
  <2>1. TruncatedWell(r, n, order)
    BY <1>1, TruncationsAre
  <2>2. order \in [1..n -> SelectComponents] /\ Range(order) = SelectComponents
    BY <1>1, ByPriorityLists
  <2> HIDE DEF n, order
  <2>3. ASSUME NEW i \in Critical PROVE i \in Kept(r) \/ Spent(r)
    <3>1. PICK l \in 1..n : order[l] = i
      BY <1>1, <2>2 DEF Range
    <3>2. QED
      BY <2>1, <3>1 DEF TruncatedWell, Critical
  <2>4. QED
    BY <2>1, <2>3 DEF TruncatedWell
<1>5. Critical \subseteq Places
  BY DEF Critical
<1>6. ASSUME NEW r \in HandleOverflow PROVE Right(r)
  <2> HIDE DEF Right
  <2>1. CASE ~Overflows(Places)
    BY <1>3, <1>5, <1>6, <2>1 DEF HandleOverflow
  <2>2. CASE Overflows(Places) /\ ~Overflows(SelectComponents)
    BY <1>1, <1>3, <1>6, <2>2 DEF HandleOverflow
  <2>3. CASE Overflows(Places) /\ Overflows(SelectComponents)
    BY <1>4, <1>6, <2>3 DEF HandleOverflow
  <2>4. QED
    BY <2>1, <2>2, <2>3
<1>7. ContextFits /\ CriticalIncluded
  BY <1>6 DEF ContextFits, CriticalIncluded, Fitting, Spent
<1>8. QED
  BY <1>1, <1>7 DEF ContextSound

\* The components keep their types: what is added has one, what is removed goes
\* with its name.
ContextInv == ConversationInv /\ components \in Seq(Components)

LEMMA ContextInductive == ContextInv /\ [ContextNext]_contextVars => ContextInv'
<1> SUFFICES ASSUME ContextInv, [ContextNext]_contextVars PROVE ContextInv'
  OBVIOUS
<1>1. ConversationInv /\ components \in Seq(Components)
  BY DEF ContextInv
<1>2. ASSUME UNCHANGED conversation PROVE ConversationInv'
  BY <1>1, <1>2, ConversationInductive
<1>3. CASE UNCHANGED contextVars
  BY <1>1, <1>2, <1>3 DEF contextVars, ContextInv
<1>4. CASE ConversationNext /\ UNCHANGED components
  BY <1>1, <1>4, ConversationInductive DEF ContextInv
<1>5. ASSUME NEW c \in Components, Add(c) PROVE ContextInv'
  <2>1. components' \in Seq(Components) /\ UNCHANGED conversation
    BY <1>1, <1>5 DEF Add
  <2>2. QED
    BY <1>2, <2>1 DEF ContextInv
<1>6. CASE AddComponent
  <2>1. PICK kind \in Kinds, n \in TokenCounts : Add(Component("other", kind[1], n, kind[2]))
    BY <1>6 DEF AddComponent
  <2>2. Component("other", kind[1], n, kind[2]) \in Components
    BY TokensAssumption, KindsAssumption DEF Component, Components, Names
  <2>3. QED
    BY <1>5, <2>1, <2>2
<1>7. CASE AddSystemPrompt
  <2>1. PICK n \in TokenCounts : Add(Component("system_prompt", "CRITICAL", n, 0))
    BY <1>7 DEF AddSystemPrompt
  <2>2. Component("system_prompt", "CRITICAL", n, 0) \in Components
    BY TokensAssumption DEF Component, Components, Names, Priorities
  <2>3. QED
    BY <1>5, <2>1, <2>2
<1>8. CASE AddConversationHistory
  <2>1. PICK count \in 0..Len(messages) :
          Add(Component("conversation_history", "HIGH", Len(LastOf(messages, count)), 0))
    BY <1>8 DEF AddConversationHistory
  <2>2. Len(LastOf(messages, count)) \in Nat
    <3>1. messages \in Seq(Messages) /\ count \in Int
      BY <1>1 DEF ConversationInv, HistoryOK
    <3>2. LastOf(messages, count) \in Seq(Messages)
      BY <3>1, LastOfIs
    <3>3. QED
      BY <3>2
  <2>3. Component("conversation_history", "HIGH", Len(LastOf(messages, count)), 0) \in Components
    BY <2>2 DEF Component, Components, Names, Priorities
  <2>4. QED
    BY <1>5, <2>1, <2>3
<1>9. CASE AddRetrievedContext
  <2>1. PICK n \in TokenCounts : Add(Component("retrieved", "HIGH", n, 0))
    BY <1>9 DEF AddRetrievedContext
  <2>2. Component("retrieved", "HIGH", n, 0) \in Components
    BY TokensAssumption DEF Component, Components, Names, Priorities
  <2>3. QED
    BY <1>5, <2>1, <2>2
<1>10. ASSUME NEW name \in Names, RemoveComponent(name) PROVE ContextInv'
  <2> DEFINE others == {i \in 1..Len(components) : components[i].name # name}
  <2>1. others \in SUBSET (1..Len(components))
    OBVIOUS
  <2>2. components' = AtPlaces(components, others) /\ UNCHANGED conversation
    BY <1>10 DEF RemoveComponent
  <2> HIDE DEF others
  <2>3. components' \in Seq(Components)
    BY <1>1, <2>1, <2>2, AtPlacesIs
  <2>4. QED
    BY <1>2, <2>2, <2>3 DEF ContextInv
<1>11. CASE ClearComponents
  <2>1. components' \in Seq(Components) /\ UNCHANGED conversation
    BY <1>11 DEF ClearComponents
  <2>2. QED
    BY <1>2, <2>1 DEF ContextInv
<1>12. QED
  BY <1>3, <1>4, <1>6, <1>7, <1>8, <1>9, <1>10, <1>11 DEF ContextNext

\* A context manager's components have their types, and whatever they are, the
\* context built of them fits and has every critical component it can, and
\* select_components leaves out none that would have fitted.
THEOREM ContextAlwaysSound == ContextSpec => [](ContextTypeOK /\ ContextSound)
<1>1. ContextInit => ContextInv
  BY ConversationStarts DEF ContextInit, ContextInv
<1>2. ContextInv => ContextTypeOK /\ ContextSound
  BY ComponentsChosen DEF ContextInv, ContextTypeOK, ConversationTypeOK, ConversationInv, HistoryOK
<1>3. QED
  BY <1>1, <1>2, ContextInductive, PTL DEF ContextSpec

\* So it is for the context that unified memory builds: every query adds a
\* component to it.
THEOREM UnifiedContextSound == UnifiedSpec => []ContextSound
<1>1. UnifiedTypeOK => ContextSound
  BY ComponentsChosen DEF UnifiedTypeOK, ContextTypeOK
<1>2. QED
  BY <1>1, UnifiedTypeCorrect, PTL

-----------------------------------------------------------------------------
(* The budgets of tokens.                                                  *)

\* What a tracker counts: an amount of tokens for each spender, or none.
Amounts == [Spenders -> Nat \cup {NoBudget}]

\* The tokens of an amount are finitely many, those of a part no more.
LEMMA TokensCounted ==
  ASSUME NEW f \in Amounts
  PROVE  IsFiniteSet(TokensOf(f)) /\ SumOf(f) \in Nat
<1> DEFINE Of(c) == {c} \X (1..f[c])
<1>1. ASSUME NEW c \in Spenders PROVE IsFiniteSet(Of(c))
  <2>1. f[c] \in Int
    BY DEF Amounts, NoBudget
  <2>2. IsFiniteSet(1..f[c])
    BY <2>1, FS_Interval
  <2>3. IsFiniteSet({c})
    BY FS_Singleton
  <2>4. QED
    BY <2>2, <2>3, FS_Product
<1> HIDE DEF Of
<1>2. IsFiniteSet({Of(c) : c \in Spenders})
  <2> DEFINE F == [c \in Spenders |-> Of(c)]
  <2>1. IsFiniteSet({F[c] : c \in Spenders})
    <3> HIDE DEF F
    <3>1. QED
      BY SpendersAssumption, FiniteValues
  <2>2. {F[c] : c \in Spenders} = {Of(c) : c \in Spenders}
    OBVIOUS
  <2>3. QED
    BY <2>1, <2>2
<1>3. IsFiniteSet(UNION {Of(c) : c \in Spenders})
  BY <1>1, <1>2, FS_UNION
<1>4. IsFiniteSet(TokensOf(f))
  BY <1>3 DEF TokensOf, Of
<1>5. QED
  BY <1>4, FS_CardinalityType DEF SumOf

LEMMA SumGrows ==
  ASSUME NEW f \in Amounts, NEW g \in Amounts, \A c \in Spenders : f[c] <= g[c]
  PROVE  SumOf(f) <= SumOf(g)
<1>1. \A c \in Spenders : f[c] \in Int /\ g[c] \in Int
  BY DEF Amounts, NoBudget
<1>2. TokensOf(f) \in SUBSET TokensOf(g)
  BY <1>1 DEF TokensOf
<1>3. QED
  BY <1>2, TokensCounted, FS_Subset DEF SumOf

\* One amount set anew adds no more than its tokens to the sum.
LEMMA SumSet ==
  ASSUME NEW f \in Amounts, NEW c \in Spenders, NEW n \in Nat
  PROVE  SumOf([f EXCEPT ![c] = n]) <= SumOf(f) + n /\ n <= SumOf([f EXCEPT ![c] = n])
<1> DEFINE g == [f EXCEPT ![c] = n]
           new == {c} \X (1..n)
<1>1. g \in Amounts /\ g[c] = n /\ \A d \in Spenders \ {c} : g[d] = f[d]
  BY DEF Amounts
<1>2. IsFiniteSet(new) /\ Cardinality(new) = n
  <2>1. IsFiniteSet({c}) /\ Cardinality({c}) = 1
    BY FS_Singleton
  <2>2. IsFiniteSet(1..n) /\ Cardinality(1..n) = n
    BY FS_Interval
  <2>3. IsFiniteSet(new) /\ Cardinality(new) = 1 * n
    <3> DEFINE one == {c}
               many == 1..n
    <3>1. /\ IsFiniteSet(one) /\ Cardinality(one) = 1
          /\ IsFiniteSet(many) /\ Cardinality(many) = n
      BY <2>1, <2>2
    <3> HIDE DEF one, many
    <3>2. IsFiniteSet(one \X many) /\ Cardinality(one \X many) = 1 * n
      BY <3>1, FS_Product
    <3>3. QED
      BY <3>2 DEF one, many
  <2>4. QED
    BY <2>3
<1> HIDE DEF g
<1>3. TokensOf(g) \in SUBSET (TokensOf(f) \cup new) /\ new \in SUBSET TokensOf(g)
  BY <1>1 DEF TokensOf
<1> HIDE DEF new
<1>4. IsFiniteSet(TokensOf(f)) /\ IsFiniteSet(TokensOf(g)) /\ SumOf(f) \in Nat /\ SumOf(g) \in Nat
  BY <1>1, TokensCounted
<1>5. /\ IsFiniteSet(TokensOf(f) \cup new)
      /\ Cardinality(TokensOf(f) \cup new)
           = Cardinality(TokensOf(f)) + Cardinality(new) - Cardinality(TokensOf(f) \cap new)
  BY <1>2, <1>4, FS_Union
<1>6. Cardinality(TokensOf(f) \cap new) \in Nat
  <2>1. TokensOf(f) \cap new \in SUBSET new
    OBVIOUS
  <2>2. QED
    BY <1>2, <2>1, FS_Subset, FS_CardinalityType
<1>7. Cardinality(TokensOf(g)) <= Cardinality(TokensOf(f) \cup new) /\ n <= Cardinality(TokensOf(g))
  BY <1>2, <1>3, <1>4, <1>5, FS_Subset
<1>8. SumOf(g) <= SumOf(f) + n /\ n <= SumOf(g)
  BY <1>2, <1>4, <1>5, <1>6, <1>7 DEF SumOf
<1>9. QED
  BY <1>8 DEF g

\* Nothing adds up to nothing.
LEMMA SumOfNothing ==
  ASSUME NEW f, \A c \in Spenders : f[c] \in {0, NoBudget}
  PROVE  SumOf(f) = 0
<1>1. \A c \in Spenders : {c} \X (1..f[c]) = {}
  BY DEF NoBudget
<1>2. TokensOf(f) = {}
  BY <1>1 DEF TokensOf
<1>3. QED
  BY <1>2, FS_EmptySet DEF SumOf

BudgetInv == BudgetTypeOK /\ BudgetSound

LEMMA BudgetStarts == BudgetInit => BudgetInv
<1> SUFFICES ASSUME BudgetInit PROVE BudgetInv
  OBVIOUS
<1> USE DEF BudgetInit
<1>1. BudgetTypeOK
  BY SpendingAssumption DEF BudgetTypeOK
<1>2. SumOf(used) = 0 /\ SumOf(budgets) = 0
  BY SumOfNothing
<1>3. Overruns = {}
  BY <1>2, SpendingAssumption DEF Overruns, Exceeded
<1>4. QED
  BY <1>1, <1>2, <1>3, SpendingAssumption
     DEF BudgetInv, BudgetSound, AllocationsFit, OverrunsAlerted, TotalAlertTrue

LEMMA BudgetKept == BudgetInv /\ [BudgetNext]_budgetVars => BudgetInv'
<1> SUFFICES ASSUME BudgetInv, [BudgetNext]_budgetVars PROVE BudgetInv'
  OBVIOUS
<1>1. /\ used \in [Spenders -> 0..MaxUsed] /\ used \in Amounts
      /\ budgets \in [Spenders -> {NoBudget} \cup 0..TotalBudget] /\ budgets \in Amounts
      /\ alerts \subseteq Spenders \cup {Total}
  BY SpendingAssumption DEF BudgetInv, BudgetTypeOK, Amounts
<1>2. /\ SumOf(budgets) <= TotalBudget /\ Overruns \subseteq alerts \cup excused
      /\ Total \in alerts => SumOf(used) > TotalBudget
  BY DEF BudgetInv, BudgetSound, AllocationsFit, OverrunsAlerted, TotalAlertTrue
<1>3. SumOf(used) \in Nat /\ SumOf(budgets) \in Nat
  BY <1>1, TokensCounted
<1>4. ASSUME NEW c \in Spenders, NEW n \in Counts, TrackUsage(c, n) PROVE BudgetInv'
  <2>1. /\ used' = [used EXCEPT ![c] = used[c] + n] /\ budgets' = budgets
        /\ alerts' = alerts \cup AlertedOf(c, used')
        /\ excused' = excused \cap Exceeded(used', budgets)
        /\ used[c] + n <= MaxUsed /\ n \in Nat
    BY <1>4, SpendingAssumption DEF TrackUsage
  <2>2. used' \in [Spenders -> 0..MaxUsed]
    BY <1>1, <2>1, SpendingAssumption
  <2>3. used' \in Amounts /\ \A d \in Spenders : used[d] <= used'[d]
    BY <1>1, <2>1, <2>2 DEF Amounts
  <2>4. SumOf(used) <= SumOf(used') /\ SumOf(used') \in Nat
    BY <1>1, <2>3, SumGrows, TokensCounted
  <2>5. alerts' \subseteq Spenders \cup {Total}
    BY <1>1, <2>1 DEF AlertedOf
  <2>6. Exceeded(used', budgets) \subseteq Overruns \cup {c, Total}
    BY <2>1 DEF Exceeded, Overruns
  <2>7. Overruns' \subseteq alerts' \cup excused'
    BY <1>2, <2>1, <2>6 DEF Overruns, AlertedOf
  <2>8. Total \in AlertedOf(c, used') => SumOf(used') > TotalBudget
    BY SpendersAssumption DEF AlertedOf, Exceeded
  <2>9. Total \in alerts' => SumOf(used') > TotalBudget
    BY <1>2, <1>3, <2>1, <2>4, <2>8, SpendingAssumption
  <2>10. QED
    BY <1>1, <1>2, <2>1, <2>2, <2>5, <2>7, <2>9
       DEF BudgetInv, BudgetTypeOK, BudgetSound, AllocationsFit, OverrunsAlerted, TotalAlertTrue
<1>5. ASSUME NEW c \in Spenders, NEW n \in Budgets, Allocate(c, n) PROVE BudgetInv'
  <2>1. /\ budgets' = [budgets EXCEPT ![c] = n] /\ used' = used /\ alerts' = alerts
        /\ excused' = (excused \cup {c}) \cap Exceeded(used, budgets')
        /\ SumOf(budgets) + n <= TotalBudget /\ n \in Nat
    BY <1>5, SpendingAssumption DEF Allocate, Fits
  <2>2. SumOf(budgets') <= TotalBudget
    <3>1. budgets' \in Amounts
      BY <1>1, <2>1 DEF Amounts
    <3>2. SumOf(budgets') \in Nat
      BY <3>1, TokensCounted
    <3>3. SumOf(budgets') <= SumOf(budgets) + n
      BY <1>1, <2>1, SumSet
    <3>4. QED
      BY <1>3, <2>1, <3>2, <3>3, SpendingAssumption
  <2>3. budgets' \in [Spenders -> {NoBudget} \cup 0..TotalBudget]
    <3>1. n \in 0..TotalBudget
      BY <1>3, <2>1, SpendingAssumption
    <3>2. QED
      BY <1>1, <2>1, <3>1
  <2>4. Exceeded(used, budgets') \subseteq Overruns \cup {c}
    BY <1>1, <2>1 DEF Exceeded, Overruns
  <2>5. Overruns' \subseteq alerts' \cup excused'
    BY <1>2, <2>1, <2>4 DEF Overruns
  <2>6. QED
    BY <1>1, <1>2, <2>1, <2>2, <2>3, <2>5
       DEF BudgetInv, BudgetTypeOK, BudgetSound, AllocationsFit, OverrunsAlerted, TotalAlertTrue
<1>6. CASE ClearAlerts
  BY <1>1, <1>2, <1>6 DEF ClearAlerts, Overruns, BudgetInv, BudgetTypeOK, BudgetSound,
                          AllocationsFit, OverrunsAlerted, TotalAlertTrue
<1>7. CASE Reset
  <2>1. /\ used' = [c \in Spenders |-> 0] /\ budgets' = budgets
        /\ alerts' = {} /\ excused' = {}
    BY <1>7 DEF Reset
  <2>2. SumOf(used') = 0
    BY <2>1, SumOfNothing
  <2>3. \A c \in Spenders : ~(budgets[c] # NoBudget /\ used'[c] > budgets[c])
    BY <1>1, <2>1, SpendingAssumption
  <2>4. Overruns' = {}
    BY <2>1, <2>2, <2>3, SpendingAssumption DEF Overruns, Exceeded
  <2>5. used' \in [Spenders -> 0..MaxUsed]
    BY <2>1, SpendingAssumption
  <2>6. QED
    BY <1>1, <1>2, <2>1, <2>4, <2>5
       DEF BudgetInv, BudgetTypeOK, BudgetSound, AllocationsFit, OverrunsAlerted, TotalAlertTrue
<1>8. CASE UNCHANGED budgetVars
  BY <1>8 DEF budgetVars, BudgetInv, BudgetTypeOK, BudgetSound, AllocationsFit,
              OverrunsAlerted, TotalAlertTrue, Overruns
<1>9. QED
  BY <1>4, <1>5, <1>6, <1>7, <1>8 DEF BudgetNext

\* Budgets fit the total one, every overrun has its alert unless it was cleared
\* or the budget came later, and the alert about the total is never out of date
\* (BudgetTracker).
THEOREM BudgetsAlwaysSound == BudgetSpec => []BudgetSound
<1>1. BudgetInv => BudgetSound
  BY DEF BudgetInv
<1>2. QED
  BY BudgetStarts, BudgetKept, <1>1, PTL DEF BudgetSpec
=============================================================================
