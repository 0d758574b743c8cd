---------------------------- MODULE HybridMemory ----------------------------
(***************************************************************************)
(* day_51/hybrid_memory.py: HybridMemory over an EventStore, an            *)
(* ExperienceTracker, a FactStore and a KnowledgeGraph, with cross-links   *)
(* from episodic items (events, experiences) to semantic ones (facts,      *)
(* nodes).  The event store is the module this one extends; of the other   *)
(* three only the ids they hold are modelled here (FactStore and           *)
(* KnowledgeGraph are modules of their own).  An id is the caller's or a   *)
(* uuid, and the caller may use one id in several stores.  The stores are  *)
(* reached through HybridMemory, and events are linked with events.link.   *)
(***************************************************************************)
EXTENDS EventStore

CONSTANT OtherIds  \* ids of experiences, facts and nodes: source -> set

\* The order in which get and delete try the sources (MemorySource).
Sources == <<"event", "experience", "fact", "node">>
Others == {"experience", "fact", "node"}

ASSUME OtherIdsAssumption == \A s \in Others : OtherIds[s] \subseteq EventIds

VARIABLES held,   \* the ids held by each of the other sources
          links   \* _cross_links: [ep, sem] -> the sources of the two, or None

hybridVars == <<vars, held, links>>

Pairs == EventIds \X EventIds
Ends == {"event", "experience"} \X {"fact", "node"}

HybridTypeOK == /\ TypeOK
                /\ held \in [Others -> SUBSET EventIds]
                /\ links \in [Pairs -> Ends \cup {None}]

HybridInit == /\ Init
              /\ held = [s \in Others |-> {}]
              /\ links = [p \in Pairs |-> None]

-----------------------------------------------------------------------------
IdsOf(source) == IF source = "event" THEN Stored ELSE held[source]

\* get: the first source that holds the id.
IsFirst(source, id) ==
  \E i \in 1..4 : /\ Sources[i] = source
                  /\ id \in IdsOf(source)
                  /\ \A j \in 1..i - 1 : id \notin IdsOf(Sources[j])

Found(id) == \E source \in {"event"} \cup Others : id \in IdsOf(source)

StoreEvent(id, ts, others) ==
  /\ Store(id, ts, others)
  /\ UNCHANGED <<held, links>>

LinkEvents(a, b) ==
  /\ Link(a, b)
  /\ UNCHANGED <<held, links>>

\* store_experience, store_fact, store_node: a taken id is an error.
StoreOther(source, id) ==
  /\ id \in OtherIds[source] \ held[source]
  /\ held' = [held EXCEPT ![source] = @ \cup {id}]
  /\ UNCHANGED <<vars, links>>

\* cross_link: both ids are resolved by get.  The key is the pair of ids.
CrossLink(ep, sem) ==
  /\ \E ends \in Ends : /\ IsFirst(ends[1], ep)
                        /\ IsFirst(ends[2], sem)
                        /\ links' = [links EXCEPT ![<<ep, sem>>] = ends]
  /\ UNCHANGED <<vars, held>>

RemoveCrossLink(ep, sem) ==
  /\ links[<<ep, sem>>] # None
  /\ links' = [links EXCEPT ![<<ep, sem>>] = None]
  /\ UNCHANGED <<vars, held>>

\* Seeded fault: links to a semantic item stay.
WithoutLinksFrom(id) == [p \in Pairs |-> IF id = p[1] THEN None ELSE links[p]]

\* _remove_cross_links_for: by id, whatever source the link names.
WithoutLinksOf(id) == [p \in Pairs |-> IF id \in {p[1], p[2]} THEN None ELSE links[p]]

-----------------------------------------------------------------------------
(* delete tries the sources given - one, or all in turn - swallows every   *)
(* error and goes on.  Experiences are skipped.                            *)

Tried == {{s} : s \in {"event"} \cup Others} \cup {{"event"} \cup Others}

DeleteEvent(id, tried) ==
  /\ "event" \in tried
  /\ Delete(id)
  /\ links' = WithoutLinksOf(id)
  /\ UNCHANGED held

\* The source that the deletion falls through to.  "any" is in the order of
\* Sources, with the event store first.
Falls(id, tried, source) ==
  /\ source \in tried \cap {"fact", "node"}
  /\ id \in held[source]
  /\ source = "node" /\ "fact" \in tried => id \notin held["fact"]

\* No event of this id, or one whose delete fails half-way.
PastEvents(id, tried) ==
  \/ ("event" \notin tried \/ id \notin Stored) /\ UNCHANGED vars
  \/ "event" \in tried /\ DeleteSelfLinked(id)

DeleteOther(id, tried) ==
  /\ PastEvents(id, tried)
  /\ \E source \in Others :
        /\ Falls(id, tried, source)
        /\ held' = [held EXCEPT ![source] = @ \ {id}]
  /\ links' = WithoutLinksOf(id)

\* MemoryNotFoundError, with what the event store has already done.
DeleteFails(id, tried) ==
  /\ PastEvents(id, tried)
  /\ ~\E source \in Others : Falls(id, tried, source)
  /\ UNCHANGED <<held, links>>

HybridDelete(id) ==
  \E tried \in Tried : DeleteEvent(id, tried) \/ DeleteOther(id, tried)
                       \/ DeleteFails(id, tried)

HybridNext ==
  \/ \E id \in EventIds, ts \in 1..MaxTime, others \in SUBSET EventIds :
        StoreEvent(id, ts, others)
  \/ \E source \in Others, id \in EventIds : StoreOther(source, id)
  \/ \E a, b \in EventIds : LinkEvents(a, b) \/ CrossLink(a, b) \/ RemoveCrossLink(a, b)
  \/ \E id \in EventIds : HybridDelete(id)

HybridSpec == HybridInit /\ [][HybridNext]_hybridVars

-----------------------------------------------------------------------------
(* Properties.                                                             *)

\* delete "cleans up any cross-links": a cross-link joins items that the
\* sources it names hold, whichever way the items were stored and deleted.
LinksJoinItems ==
  \A p \in Pairs : links[p] # None => /\ p[1] \in IdsOf(links[p][1])
                                      /\ p[2] \in IdsOf(links[p][2])

\* README.md:1444: "Unified store/get/delete across EventStore,
\* ExperienceTracker, FactStore, KnowledgeGraph".  What get finds - unless it
\* is a self-linked event - delete removes.
FoundIsDeletable ==
  \A id \in EventIds :
    Found(id) => \/ id \in Stored
                 \/ \E source \in Others : Falls(id, {"event"} \cup Others, source)

=============================================================================
