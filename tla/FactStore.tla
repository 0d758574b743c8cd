------------------------------ MODULE FactStore ------------------------------
(***************************************************************************)
(* day_50/fact_store.py: subject-predicate-object facts with four indexes  *)
(* and an undirected relationship table.  The dictionaries are total       *)
(* functions here: a missing key and an empty set behave alike in every    *)
(* method of the class.  A fact's properties, confidence and time stamps,  *)
(* which no index holds, are left out; results are sets, not lists ordered *)
(* by created_at.                                                          *)
(***************************************************************************)
EXTENDS Naturals

CONSTANTS FactIds, Subjects, Predicates, Objects, FactTypes,
          None  \* an argument that is not given, an id without a fact

Facts == [subject : Subjects, predicate : Predicates, object : Objects,
          fact_type : FactTypes]

ASSUME NoneAssumption ==
  None \notin Facts \cup Subjects \cup Predicates \cup Objects \cup FactTypes

VARIABLES facts,          \* _facts: id -> fact, or None
          by_subject,     \* _by_subject and its likes: key -> set of ids
          by_predicate,
          by_object,
          by_type,
          relationships   \* _relationships: id -> set of ids

indexes == <<by_subject, by_predicate, by_object, by_type>>
vars == <<facts, indexes, relationships>>

Stored == {i \in FactIds : facts[i] # None}

TypeOK == /\ facts \in [FactIds -> Facts \cup {None}]
          /\ by_subject \in [Subjects -> SUBSET FactIds]
          /\ by_predicate \in [Predicates -> SUBSET FactIds]
          /\ by_object \in [Objects -> SUBSET FactIds]
          /\ by_type \in [FactTypes -> SUBSET FactIds]
          /\ relationships \in [FactIds -> SUBSET FactIds]

Init == /\ facts = [i \in FactIds |-> None]
        /\ by_subject = [s \in Subjects |-> {}]
        /\ by_predicate = [p \in Predicates |-> {}]
        /\ by_object = [o \in Objects |-> {}]
        /\ by_type = [t \in FactTypes |-> {}]
        /\ relationships = [i \in FactIds |-> {}]

-----------------------------------------------------------------------------
\* Seeded fault: the id stays under its old key.
AddedOnly(index, id, from, to) ==
  [k \in DOMAIN index |-> index[k] \cup (IF k = to THEN {id} ELSE {})]

(* The index after an id is discarded under one key and added under        *)
(* another; None stands for no key.                                        *)
Moved(index, id, from, to) ==
  [k \in DOMAIN index |->
     (IF k = from THEN index[k] \ {id} ELSE index[k])
       \cup (IF k = to THEN {id} ELSE {})]

\* _index_remove of the fact old, then _index_add of the fact new, where
\* NoFact is what an id without a fact is indexed under.
NoFact == [subject |-> None, predicate |-> None, object |-> None,
           fact_type |-> None]

Reindex(id, old, new) ==
  /\ by_subject' = Moved(by_subject, id, old.subject, new.subject)
  /\ by_predicate' = Moved(by_predicate, id, old.predicate, new.predicate)
  /\ by_object' = Moved(by_object, id, old.object, new.object)
  /\ by_type' = Moved(by_type, id, old.fact_type, new.fact_type)

\* _link(id, r) for every r of a set: each gets the other.
Linked(id, others) ==
  [i \in FactIds |->
     relationships[i] \cup (IF i = id THEN others ELSE {})
                      \cup (IF i \in others THEN {id} ELSE {})]

-----------------------------------------------------------------------------
\* Related ids that name no fact are skipped; the fact itself is in the
\* table by the time they are looked at.
Store(id, fact, related) ==
  /\ facts[id] = None
  /\ facts' = [facts EXCEPT ![id] = fact]
  /\ Reindex(id, NoFact, fact)
  /\ relationships' = Linked(id, related \cap (Stored \cup {id}))

\* The value given, or the one the fact has.
Given(arg, current) == IF arg = None THEN current ELSE arg

Update(id, s, p, o) ==
  /\ facts[id] # None
  /\ LET new == [facts[id] EXCEPT !.subject = Given(s, @),
                                  !.predicate = Given(p, @),
                                  !.object = Given(o, @)]
     IN /\ facts' = [facts EXCEPT ![id] = new]
        /\ Reindex(id, facts[id], new)
  /\ UNCHANGED relationships

\* Seeded fault: the related facts keep the id.
ForgottenHere(id) == [relationships EXCEPT ![id] = {}]

\* The id leaves the sets of the facts its own set names; that set goes.
Forgotten(id) ==
  [i \in FactIds |-> IF i = id THEN {}
                     ELSE IF i \in relationships[id] THEN relationships[i] \ {id}
                     ELSE relationships[i]]

Delete(id) ==
  /\ facts[id] # None
  /\ Reindex(id, facts[id], NoFact)
  /\ relationships' = Forgotten(id)
  /\ facts' = [facts EXCEPT ![id] = None]

Link(a, b) ==
  /\ facts[a] # None /\ facts[b] # None
  /\ relationships' = Linked(a, {b})
  /\ UNCHANGED <<facts, indexes>>

\* unlink checks nothing: the ids need not exist.
Unlink(a, b) ==
  /\ relationships' = [i \in FactIds |->
                         relationships[i] \ ((IF i = a THEN {b} ELSE {}) \cup
                                             (IF i = b THEN {a} ELSE {}))]
  /\ UNCHANGED <<facts, indexes>>

Next ==
  \/ \E id \in FactIds, fact \in Facts, related \in SUBSET FactIds :
        Store(id, fact, related)
  \/ \E id \in FactIds, s \in Subjects \cup {None},
        p \in Predicates \cup {None}, o \in Objects \cup {None} :
        Update(id, s, p, o)
  \/ \E id \in FactIds : Delete(id)
  \/ \E a, b \in FactIds : Link(a, b)
  \/ \E a, b \in FactIds : Unlink(a, b)

Spec == Init /\ [][Next]_vars

-----------------------------------------------------------------------------
(* Retrieval.                                                              *)

\* query: the intersection of the index sets of the filters that are given.
Query(s, p, o, t) ==
  IF s = None /\ p = None /\ o = None /\ t = None
  THEN Stored
  ELSE (IF s = None THEN FactIds ELSE by_subject[s]) \cap
       (IF p = None THEN FactIds ELSE by_predicate[p]) \cap
       (IF o = None THEN FactIds ELSE by_object[o]) \cap
       (IF t = None THEN FactIds ELSE by_type[t])

\* Seeded fault: facts are visited again.
LevelAgain(id, depth) ==
  LET search[d \in 0..depth] ==
        IF d = 0 THEN {id}
        ELSE (UNION {relationships[f] : f \in search[d - 1]}) \cap Stored
  IN  search[depth]

\* traverse: the level-by-level search.  Each level holds the ids reached for
\* the first time; a level that is empty ends the search.
Level(id, depth) ==
  LET search[d \in 0..depth] ==
        IF d = 0 THEN [level |-> {id}, visited |-> {id}]
        ELSE LET prev == search[d - 1]
                 next == ((UNION {relationships[f] : f \in prev.level}) \cap Stored)
                           \ prev.visited
             IN  [level |-> next, visited |-> prev.visited \cup next]
  IN  search[depth].level

-----------------------------------------------------------------------------
(* Properties.                                                             *)

\* Every index holds, under every key, exactly the facts with that key.
IndexesExact ==
  /\ \A k \in Subjects : by_subject[k] = {i \in Stored : facts[i].subject = k}
  /\ \A k \in Predicates : by_predicate[k] = {i \in Stored : facts[i].predicate = k}
  /\ \A k \in Objects : by_object[k] = {i \in Stored : facts[i].object = k}
  /\ \A k \in FactTypes : by_type[k] = {i \in Stored : facts[i].fact_type = k}

\* A query through the indexes returns exactly the facts a scan of the table
\* would: no fact is missed, and no id without a fact is met (the code would
\* raise KeyError on it).
QueryIsScan ==
  \A s \in Subjects \cup {None}, p \in Predicates \cup {None},
     o \in Objects \cup {None}, t \in FactTypes \cup {None} :
    Query(s, p, o, t) = {i \in Stored : /\ s \in {None, facts[i].subject}
                                        /\ p \in {None, facts[i].predicate}
                                        /\ o \in {None, facts[i].object}
                                        /\ t \in {None, facts[i].fact_type}}

\* Relationships go both ways and join facts that exist: a deleted fact
\* leaves no trace that a fact stored later under its id would inherit.
RelationsSound ==
  \A i \in FactIds : \A j \in relationships[i] :
    i \in Stored /\ j \in Stored /\ i \in relationships[j]

\* traverse puts a fact at the length of the shortest chain of relationships
\* to it, whatever cycles the relationships form.
ReachedWithin(id, n) ==
  LET reach[k \in 0..n] ==
        IF k = 0 THEN {id}
        ELSE reach[k - 1] \cup UNION {relationships[f] : f \in reach[k - 1]}
  IN  reach[n]

TraverseByDistance ==
  \A id \in Stored, d \in 1..3 :
    Level(id, d) = ReachedWithin(id, d) \ ReachedWithin(id, d - 1)

\* The store implements the promise of LinkedItems: each method, index upkeep
\* and all, puts, changes, removes, links or unlinks items there.
Joined == UNION {{{a, b} : b \in relationships[a]} : a \in FactIds}

Items == INSTANCE LinkedItems WITH Ids <- FactIds, Contents <- Facts, Absent <- None,
                                   table <- facts, links <- Joined

ImplementsItems == Items!Spec

=============================================================================
