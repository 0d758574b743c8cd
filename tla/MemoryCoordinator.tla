------------------------- MODULE MemoryCoordinator --------------------------
(***************************************************************************)
(* day_52/memory_coordinator.py: MemoryCoordinator, shared by the threads  *)
(* of a process: its event queue under event_lock, its sync states under   *)
(* sync_lock, and the memory it coordinates, which no lock protects.  Of   *)
(* the memory only the counters that _get_layer_state reads are modelled.  *)
(*                                                                         *)
(*   emit        route_query, coordinate_update: _emit_event once          *)
(*   store       coordinate_store: a store and _emit_event per layer       *)
(*   sync        synchronize_state: per layer, read the counters one by    *)
(*               one, then record them or emit a conflict                  *)
(*   process     process_events: handle the unhandled events under the lock*)
(*                                                                         *)
(* Event handlers are the caller's (EventHandler); they do not call the    *)
(* coordinator back: neither lock is reentrant.  Queries, which change     *)
(* nothing but statistics, and the statistics are left out.                *)
(***************************************************************************)
EXTENDS Naturals, Sequences, FiniteSets

CONSTANTS Threads, None,
          Layers,   \* the layers calls name
          Moving,   \* bound: the counters that change
          MaxCount, \* bound on a counter
          Events    \* bound: the CoordinationEvent objects alive at a time

AllLayers == {"working", "short_term", "long_term", "hybrid"}

ASSUME LayersAssumption == Layers \subseteq AllLayers
ASSUME MaxCountAssumption == MaxCount \in Nat
ASSUME NoneAssumption == None \notin Threads \cup Events

\* _get_layer_state and HybridMemory.stats: the counters of a layer in the
\* order in which they are read.
PartsOf(layer) ==
  SelectSeq(CASE layer = "working"    -> <<"messages", "components", "tokens">>
              [] layer = "short_term" -> <<"events", "experiences">>
              [] layer = "long_term"  -> <<"facts", "nodes", "edges">>
              [] layer = "hybrid"     -> <<"events", "experiences", "facts", "nodes",
                                           "edges", "cross_links">>,
            LAMBDA p : p \in Moving)

\* What SelectSeq returns of them.
ASSUME PartsAssumption == \A l \in Layers : PartsOf(l) \in Seq(Moving)

\* What UnifiedMemory.store adds to, by its keyword arguments.
Destinations == {"messages", "events", "experiences", "facts", "nodes"} \cap Moving

VARIABLES counts,    \* counter -> its value
          version, checksum,  \* sync_states; checksum: the values recorded
          syncLock, eventLock,  \* the thread that holds the lock, or None
          queue,     \* event_queue
          handled,   \* events with handled = True
          successes, \* history: event -> times a handler accepted it
          drifted,   \* history: layer -> its counters that changed since they
                     \* were read for the record
          call       \* thread -> the call in progress

memory == <<counts, drifted>>
syncs == <<version, checksum, syncLock>>
events == <<eventLock, queue, handled, successes>>
vars == <<memory, syncs, events, call>>

NoCall == [step |-> "idle", op |-> None, left |-> {}, layer |-> None, dest |-> None,
           read |-> <<>>, moved |-> {}, event |-> None, batch |-> {}]

Calls == [step : {"idle", "next", "read", "judge", "append", "handle", "process"},
          op : {"emit", "store", "sync", "process", None},
          left : SUBSET Layers, layer : Layers \cup {None},
          dest : Destinations \cup {None},
          read : Seq(0..MaxCount), moved : SUBSET Moving,
          event : Events \cup {None}, batch : SUBSET Events]

TypeOK == /\ counts \in [Moving -> 0..MaxCount]
          /\ version \in [Layers -> 0..1]
          /\ checksum \in [Layers -> Seq(0..MaxCount)]
          /\ syncLock \in Threads \cup {None}
          /\ eventLock \in Threads \cup {None}
          /\ queue \in Seq(Events)
          /\ handled \subseteq Events
          /\ successes \in [Events -> Nat]
          /\ drifted \in [Layers -> SUBSET Moving]
          /\ call \in [Threads -> Calls]

Init == /\ counts = [p \in Moving |-> 0]
        /\ version = [l \in Layers |-> 0]
        /\ checksum = [l \in Layers |-> <<>>]
        /\ syncLock = None /\ eventLock = None
        /\ queue = <<>>
        /\ handled = {}
        /\ successes = [e \in Events |-> 0]
        /\ drifted = [l \in Layers |-> {}]
        /\ call = [t \in Threads |-> NoCall]

-----------------------------------------------------------------------------
(* The memory.                                                             *)

Range1(s) == {s[i] : i \in 1..Len(s)}

\* A change of a counter, with what it does to the history: the records of its
\* layers are behind, and so is a synchronisation that has read it already.
Change(p, value) ==
  /\ counts' = [counts EXCEPT ![p] = value]
  /\ drifted' = [l \in Layers |-> IF p \in Range1(PartsOf(l)) THEN drifted[l] \cup {p}
                                                             ELSE drifted[l]]

AlreadyRead(c) == {PartsOf(c.layer)[i] : i \in 1..Len(c.read)}

Overtaken(p) ==
  [t \in Threads |->
     IF call[t].step \in {"read", "judge"} /\ p \in AlreadyRead(call[t])
     THEN [call[t] EXCEPT !.moved = @ \cup {p}] ELSE call[t]]

\* The memory is changed without its coordinator: UnifiedMemory.store and
\* delete, build_context, or a subsystem that is used directly.
ChangeDirectly(p) ==
  /\ \E value \in {counts[p] + 1, counts[p] - 1} \cap (0..MaxCount) :
        Change(p, value)
  /\ call' = Overtaken(p)
  /\ UNCHANGED <<syncs, events>>

-----------------------------------------------------------------------------
(* Events.  An event object is free again when nothing refers to it.       *)

Alive == Range1(queue) \cup UNION {call[t].batch \cup {call[t].event} : t \in Threads}
Owed(t) == CASE call[t].op = "emit" -> IF call[t].step = "append" THEN 1 ELSE 0
             [] call[t].op \in {"store", "sync"} ->
                  Cardinality(call[t].left) +
                  (IF call[t].step \in {"read", "judge", "append"} THEN 1 ELSE 0)
             [] OTHER -> 0

\* Bound: a call starts only while every event of the calls has an object.
EventsFor(n) ==
  LET owed[S \in SUBSET Threads] ==
        IF S = {} THEN 0
        ELSE LET t == CHOOSE t \in S : TRUE IN Owed(t) + owed[S \ {t}]
  IN  Cardinality(Events \ Alive) >= n + owed[Threads]

\* _emit_event, first half: under event_lock.  EventsFor keeps an object free.
AppendEvent(t) ==
  /\ call[t].step = "append"
  /\ eventLock = None
  /\ Events \ Alive # {}
  /\ LET e == CHOOSE e \in Events \ Alive : TRUE IN
       /\ queue' = Append(queue, e)
       /\ handled' = handled \ {e}
       /\ successes' = [successes EXCEPT ![e] = 0]
       /\ call' = [call EXCEPT ![t].event = e, ![t].step = "handle"]
  /\ UNCHANGED <<memory, syncs, eventLock>>

\* What a handler does: the default one marks the event and returns True.
Outcomes == {"marks", "accepts", "refuses", "raises"}

\* Seeded fault: an accepted event is not marked as handled.
HandledUnmarked(e, outcome, marking) ==
  /\ handled' = IF outcome = "marks" THEN handled \cup {e} ELSE handled
  /\ successes' = IF outcome \in {"marks", "accepts"}
                  THEN [successes EXCEPT ![e] = @ + 1] ELSE successes

Handled(e, outcome, marking) ==
  /\ handled' = IF outcome = "marks" \/ (outcome = "accepts" /\ marking)
                THEN handled \cup {e} ELSE handled
  /\ successes' = IF outcome \in {"marks", "accepts"}
                  THEN [successes EXCEPT ![e] = @ + 1] ELSE successes

\* A call goes on with its next layer, or ends.  synchronize_state ends by
\* releasing its lock.
GoOn(t) ==
  /\ call' = [call EXCEPT ![t] =
                IF @.left = {} THEN NoCall
                ELSE [NoCall EXCEPT !.step = "next", !.op = call[t].op,
                                    !.left = call[t].left, !.dest = call[t].dest]]
  /\ syncLock' = IF syncLock = t /\ call[t].left = {} THEN None ELSE syncLock

\* _emit_event, second half: the handler runs outside the lock, its result is
\* ignored, and whatever it raises ends the emission only.
HandleEmitted(t) ==
  /\ call[t].step = "handle"
  /\ \E outcome \in Outcomes : Handled(call[t].event, outcome, FALSE)
  /\ GoOn(t)
  /\ UNCHANGED <<memory, version, checksum, eventLock, queue>>

\* process_events takes the lock for the whole loop.
BeginProcess(t) ==
  /\ call[t].step = "idle"
  /\ eventLock = None
  /\ Range1(queue) \ handled # {}
  /\ eventLock' = t
  /\ call' = [call EXCEPT ![t] = [NoCall EXCEPT !.step = "process", !.op = "process",
                                                !.batch = Range1(queue) \ handled]]
  /\ UNCHANGED <<memory, syncs, queue, handled, successes>>

\* In the order of the queue.
ProcessEvent(t) ==
  /\ call[t].step = "process"
  /\ \E i \in 1..Len(queue) :
        LET e == queue[i]
            last == call[t].batch = {e}
        IN  /\ e \in call[t].batch
            /\ \A j \in 1..i - 1 : queue[j] \notin call[t].batch
            /\ \E outcome \in Outcomes : Handled(e, outcome, TRUE)
            /\ call' = [call EXCEPT ![t] = IF last THEN NoCall
                                           ELSE [call[t] EXCEPT !.batch = @ \ {e}]]
            /\ eventLock' = IF last THEN None ELSE t
  /\ UNCHANGED <<memory, syncs, queue>>

\* clear_events, and reset_stats.
ClearEvents ==
  /\ eventLock = None
  /\ queue # <<>>
  /\ queue' = <<>>
  /\ UNCHANGED <<memory, syncs, eventLock, handled, successes, call>>

\* route_query, coordinate_update.
BeginEmit(t) ==
  /\ call[t].step = "idle"
  /\ EventsFor(1)
  /\ call' = [call EXCEPT ![t] = [NoCall EXCEPT !.step = "append", !.op = "emit"]]
  /\ UNCHANGED <<memory, syncs, events>>

-----------------------------------------------------------------------------
(* coordinate_store.  The layer decides only whether role is passed: for   *)
(* any other the keyword arguments do.                                     *)

BeginStore(t) ==
  /\ call[t].step = "idle"
  /\ \E L \in (SUBSET Layers) \ {{}}, dest \in Destinations :
        /\ EventsFor(Cardinality(L))
        /\ call' = [call EXCEPT ![t] = [NoCall EXCEPT
                      !.step = "next", !.op = "store", !.left = L, !.dest = dest]]
  /\ UNCHANGED <<memory, syncs, events>>

DestinationOf(layer, dest) == IF layer = "working" THEN "messages" ELSE dest

StoreIn(t, layer) ==
  LET p == DestinationOf(layer, call[t].dest) IN
  /\ call[t].step = "next" /\ call[t].op = "store" /\ layer \in call[t].left
  /\ p \in Moving /\ counts[p] < MaxCount
  /\ Change(p, counts[p] + 1)
  /\ call' = [Overtaken(p) EXCEPT
                ![t].step = "append", ![t].left = @ \ {layer}, ![t].layer = layer]
  /\ UNCHANGED <<syncs, events>>

\* An exception of a store is swallowed.
StoreFails(t, layer) ==
  /\ call[t].step = "next" /\ call[t].op = "store" /\ layer \in call[t].left
  /\ call' = [call EXCEPT ![t] = IF call[t].left = {layer} THEN NoCall
                                 ELSE [call[t] EXCEPT !.left = @ \ {layer}]]
  /\ UNCHANGED <<memory, syncs, events>>

-----------------------------------------------------------------------------
(* synchronize_state.                                                      *)

\* Seeded fault: the lock is not asked for.
BeginSyncUnlocked(t) ==
  /\ call[t].step = "idle"
  /\ syncLock' = t
  /\ \E L \in (SUBSET Layers) \ {{}} :
        /\ EventsFor(Cardinality(L))
        /\ call' = [call EXCEPT ![t] = [NoCall EXCEPT
                      !.step = "next", !.op = "sync", !.left = L]]
  /\ UNCHANGED <<memory, version, checksum, events>>

BeginSync(t) ==
  /\ call[t].step = "idle"
  /\ syncLock = None
  /\ syncLock' = t
  /\ \E L \in (SUBSET Layers) \ {{}} :
        /\ EventsFor(Cardinality(L))
        /\ call' = [call EXCEPT ![t] = [NoCall EXCEPT
                      !.step = "next", !.op = "sync", !.left = L]]
  /\ UNCHANGED <<memory, version, checksum, events>>

SyncLayer(t, layer) ==
  /\ call[t].step = "next" /\ call[t].op = "sync" /\ layer \in call[t].left
  /\ call' = [call EXCEPT ![t].step = IF PartsOf(layer) = <<>> THEN "judge" ELSE "read",
                          ![t].layer = layer, ![t].left = @ \ {layer}]
  /\ UNCHANGED <<memory, syncs, events>>

\* One counter; the memory may change before the next.
ReadPart(t) ==
  LET parts == PartsOf(call[t].layer)
      read == Append(call[t].read, counts[parts[Len(call[t].read) + 1]])
  IN  /\ call[t].step = "read"
      /\ call' = [call EXCEPT ![t].read = read,
                              ![t].step = IF Len(read) = Len(parts) THEN "judge" ELSE "read"]
      /\ UNCHANGED <<memory, syncs, events>>

\* _detect_conflicts: the layer has been synchronised before, with other values.
Conflicting(t) == /\ version[call[t].layer] > 0
                  /\ checksum[call[t].layer] # call[t].read

\* Bound: a version is 0 or more than 0, which is all that the code asks.
Record(t) ==
  /\ call[t].step = "judge"
  /\ ~Conflicting(t)
  /\ version' = [version EXCEPT ![call[t].layer] = 1]
  /\ checksum' = [checksum EXCEPT ![call[t].layer] = call[t].read]
  /\ drifted' = [drifted EXCEPT ![call[t].layer] = call[t].moved]
  /\ GoOn(t)
  /\ UNCHANGED <<counts, events>>

\* A conflict leaves the recorded checksum as it is.
ReportConflict(t) ==
  /\ call[t].step = "judge"
  /\ Conflicting(t)
  /\ call' = [call EXCEPT ![t].step = "append"]
  /\ UNCHANGED <<memory, syncs, events>>

-----------------------------------------------------------------------------
Step(t) == \/ BeginEmit(t) \/ BeginStore(t) \/ BeginSync(t) \/ BeginProcess(t)
           \/ AppendEvent(t) \/ HandleEmitted(t) \/ ProcessEvent(t)
           \/ ReadPart(t) \/ Record(t) \/ ReportConflict(t)
           \/ \E l \in Layers : StoreIn(t, l) \/ StoreFails(t, l) \/ SyncLayer(t, l)

Next == \/ \E t \in Threads : Step(t)
        \/ \E p \in Moving : ChangeDirectly(p)
        \/ ClearEvents

Spec == Init /\ [][Next]_vars

-----------------------------------------------------------------------------
(* Properties.                                                             *)

\* What a handler accepts is handled at most once more: by its emitter and by
\* process_events, never by two process_events calls.
AcceptedAtMostTwice == \A e \in Events : successes[e] <= 2

\* Every counter recorded for a layer has the value recorded, unless it
\* changed since it was read for the record.
RecordedIsCurrent ==
  \A l \in Layers :
    version[l] > 0 =>
      /\ Len(checksum[l]) = Len(PartsOf(l))
      /\ \A i \in 1..Len(PartsOf(l)) :
           PartsOf(l)[i] \in drifted[l] \/ checksum[l][i] = counts[PartsOf(l)[i]]

\* A conflict is found only in a layer of which a counter changed since it was
\* read for the record.
NoConflictWithoutCause ==
  \A t \in Threads :
    call[t].step = "judge" /\ Conflicting(t) => drifted[call[t].layer] # {}

\* What a conflict says, and no more.  That the layer changed since it was
\* synchronised ("Unexpected state change") does not follow: the counters are
\* read one by one, and a change between two reads is a cause as well.  The
\* values recorded then never existed together, and the next
\* synchronisations find a conflict, though nobody changed the layer since.
ConflictsExplained == RecordedIsCurrent /\ NoConflictWithoutCause
=============================================================================
