--------------------------- MODULE FactStoreProofs ---------------------------
(* For every set of ids, keys and types: the indexes of the fact store are *)
(* exact, its queries equal a scan, and its relationships are symmetric    *)
(* and join facts that exist.                                              *)
EXTENDS RAGIntegration, DataLemmas

\* What id i is indexed under: the fields of NoFact when it has no fact.
Shape(i) == IF facts[i] = None THEN NoFact ELSE facts[i]

\* The indexes after a step that replaces the fact under id by new, or takes
\* it away when new is NoFact.
LEMMA ReindexExact ==
  ASSUME TypeOK, IndexesExact, NEW id \in FactIds,
         NEW new \in Facts \cup {NoFact},
         facts' = [facts EXCEPT ![id] = IF new = NoFact THEN None ELSE new],
         Reindex(id, Shape(id), new)
  PROVE  IndexesExact'
<1>1. /\ None \notin Subjects /\ None \notin Predicates
      /\ None \notin Objects /\ None \notin FactTypes /\ None \notin Facts
  BY NoneAssumption
<1>2. \A i \in FactIds : facts[i] \in Facts \cup {None}
  BY DEF TypeOK
<1>3. NoFact \notin Facts
  BY <1>1 DEF NoFact, Facts
<1>4. \A i \in FactIds :
        facts'[i] = IF i = id THEN (IF new = NoFact THEN None ELSE new) ELSE facts[i]
  BY DEF TypeOK
<1>5. \A i \in FactIds : i \in Stored' <=> (IF i = id THEN new # NoFact
                                                     ELSE facts[i] # None)
  BY <1>1, <1>4 DEF Stored
<1>6. ASSUME NEW k \in Subjects
      PROVE  by_subject'[k] = {i \in Stored' : facts'[i].subject = k}
  <2> DEFINE key == [i \in FactIds |-> Shape(i).subject]
  <2>1. key \in [FactIds -> Subjects \cup {None}]
    BY <1>2 DEF Shape, NoFact, Facts
  <2>2. \A j \in Subjects : by_subject[j] = {i \in FactIds : key[i] = j}
    BY <1>1 DEF IndexesExact, Stored, Shape, NoFact
  <2>3. by_subject'[k] = Moved(by_subject, id, key[id], new.subject)[k]
    BY DEF Reindex
  <2>4. by_subject \in [Subjects -> SUBSET FactIds]
    BY DEF TypeOK
  <2>5. \A i \in FactIds : (i \in Stored' /\ facts'[i].subject = k)
                              <=> (IF i = id THEN new.subject ELSE key[i]) = k
    BY <1>1, <1>3, <1>4, <1>5 DEF Shape, NoFact
  <2> HIDE DEF key
  <2>6. by_subject'[k] = {i \in FactIds : (IF i = id THEN new.subject ELSE key[i]) = k}
    BY <2>1, <2>2, <2>3, <2>4 DEF Moved
  <2>7. QED BY <2>5, <2>6 DEF Stored
<1>7. ASSUME NEW k \in Predicates
      PROVE  by_predicate'[k] = {i \in Stored' : facts'[i].predicate = k}
  <2> DEFINE key == [i \in FactIds |-> Shape(i).predicate]
  <2>1. key \in [FactIds -> Predicates \cup {None}]
    BY <1>2 DEF Shape, NoFact, Facts
  <2>2. \A j \in Predicates : by_predicate[j] = {i \in FactIds : key[i] = j}
    BY <1>1 DEF IndexesExact, Stored, Shape, NoFact
  <2>3. by_predicate'[k] = Moved(by_predicate, id, key[id], new.predicate)[k]
    BY DEF Reindex
  <2>4. by_predicate \in [Predicates -> SUBSET FactIds]
    BY DEF TypeOK
  <2>5. \A i \in FactIds : (i \in Stored' /\ facts'[i].predicate = k)
                              <=> (IF i = id THEN new.predicate ELSE key[i]) = k
    BY <1>1, <1>3, <1>4, <1>5 DEF Shape, NoFact
  <2> HIDE DEF key
  <2>6. by_predicate'[k] = {i \in FactIds : (IF i = id THEN new.predicate ELSE key[i]) = k}
    BY <2>1, <2>2, <2>3, <2>4 DEF Moved
  <2>7. QED BY <2>5, <2>6 DEF Stored
<1>8. ASSUME NEW k \in Objects
      PROVE  by_object'[k] = {i \in Stored' : facts'[i].object = k}
  <2> DEFINE key == [i \in FactIds |-> Shape(i).object]
  <2>1. key \in [FactIds -> Objects \cup {None}]
    BY <1>2 DEF Shape, NoFact, Facts
  <2>2. \A j \in Objects : by_object[j] = {i \in FactIds : key[i] = j}
    BY <1>1 DEF IndexesExact, Stored, Shape, NoFact
  <2>3. by_object'[k] = Moved(by_object, id, key[id], new.object)[k]
    BY DEF Reindex
  <2>4. by_object \in [Objects -> SUBSET FactIds]
    BY DEF TypeOK
  <2>5. \A i \in FactIds : (i \in Stored' /\ facts'[i].object = k)
                              <=> (IF i = id THEN new.object ELSE key[i]) = k
    BY <1>1, <1>3, <1>4, <1>5 DEF Shape, NoFact
  <2> HIDE DEF key
  <2>6. by_object'[k] = {i \in FactIds : (IF i = id THEN new.object ELSE key[i]) = k}
    BY <2>1, <2>2, <2>3, <2>4 DEF Moved
  <2>7. QED BY <2>5, <2>6 DEF Stored
<1>9. ASSUME NEW k \in FactTypes
      PROVE  by_type'[k] = {i \in Stored' : facts'[i].fact_type = k}
  <2> DEFINE key == [i \in FactIds |-> Shape(i).fact_type]
  <2>1. key \in [FactIds -> FactTypes \cup {None}]
    BY <1>2 DEF Shape, NoFact, Facts
  <2>2. \A j \in FactTypes : by_type[j] = {i \in FactIds : key[i] = j}
    BY <1>1 DEF IndexesExact, Stored, Shape, NoFact
  <2>3. by_type'[k] = Moved(by_type, id, key[id], new.fact_type)[k]
    BY DEF Reindex
  <2>4. by_type \in [FactTypes -> SUBSET FactIds]
    BY DEF TypeOK
  <2>5. \A i \in FactIds : (i \in Stored' /\ facts'[i].fact_type = k)
                              <=> (IF i = id THEN new.fact_type ELSE key[i]) = k
    BY <1>1, <1>3, <1>4, <1>5 DEF Shape, NoFact
  <2> HIDE DEF key
  <2>6. by_type'[k] = {i \in FactIds : (IF i = id THEN new.fact_type ELSE key[i]) = k}
    BY <2>1, <2>2, <2>3, <2>4 DEF Moved
  <2>7. QED BY <2>5, <2>6 DEF Stored
<1>10. QED BY <1>6, <1>7, <1>8, <1>9 DEF IndexesExact

-----------------------------------------------------------------------------
(* The step of each operation.                                             *)

Inv == TypeOK /\ IndexesExact /\ RelationsSound

\* The type of an index is kept by every move.
LEMMA ReindexType ==
  ASSUME TypeOK, NEW id \in FactIds, NEW old, NEW new, Reindex(id, old, new)
  PROVE  /\ by_subject' \in [Subjects -> SUBSET FactIds]
         /\ by_predicate' \in [Predicates -> SUBSET FactIds]
         /\ by_object' \in [Objects -> SUBSET FactIds]
         /\ by_type' \in [FactTypes -> SUBSET FactIds]
BY DEF TypeOK, Reindex, Moved

\* Linking an id that has a fact after the step with facts of the store keeps
\* the relationships sound.
LEMMA LinkedSound ==
  ASSUME Inv, NEW id \in FactIds, NEW others \in SUBSET FactIds,
         relationships' = Linked(id, others),
         Stored \cup {id} \cup others \subseteq Stored'
  PROVE  RelationsSound' /\ relationships' \in [FactIds -> SUBSET FactIds]
<1>1. relationships \in [FactIds -> SUBSET FactIds]
  BY DEF Inv, TypeOK
<1>2. relationships' \in [FactIds -> SUBSET FactIds]
  BY <1>1 DEF Linked
<1>3. ASSUME NEW i \in FactIds, NEW j \in FactIds
      PROVE  j \in relationships'[i] <=> \/ j \in relationships[i]
                                         \/ i = id /\ j \in others
                                         \/ i \in others /\ j = id
  BY <1>1, <1>2 DEF Linked
<1>4. RelationsSound'
  BY <1>1, <1>2, <1>3 DEF Inv, RelationsSound
<1>5. QED BY <1>2, <1>4

\* store: the id had no fact, hence no index entry and no relationship.
LEMMA StoreInv ==
  ASSUME Inv, NEW id \in FactIds, NEW fact \in Facts,
         NEW related \in SUBSET FactIds, Store(id, fact, related)
  PROVE  Inv'
<1>1. None \notin Facts /\ NoFact \notin Facts
  BY NoneAssumption DEF NoFact, Facts
<1>2. IndexesExact'
  <2>1. facts' = [facts EXCEPT ![id] = IF fact = NoFact THEN None ELSE fact]
    BY <1>1 DEF Store
  <2>2. Reindex(id, Shape(id), fact)
    BY DEF Store, Shape
  <2>3. QED BY <2>1, <2>2, ReindexExact DEF Inv
<1>3. Stored' = Stored \cup {id}
  BY <1>1 DEF Inv, TypeOK, Store, Stored
<1>4. RelationsSound' /\ relationships' \in [FactIds -> SUBSET FactIds]
  <2>1. related \cap (Stored \cup {id}) \in SUBSET FactIds
    OBVIOUS
  <2>2. relationships' = Linked(id, related \cap (Stored \cup {id}))
    BY DEF Store
  <2>3. QED BY <1>3, <2>1, <2>2, LinkedSound
<1>5. TypeOK'
  <2>1. facts' \in [FactIds -> Facts \cup {None}]
    BY DEF Inv, TypeOK, Store
  <2>2. Reindex(id, NoFact, fact)
    BY DEF Store
  <2>3. QED BY <1>4, <2>1, <2>2, ReindexType DEF Inv, TypeOK
<1>6. QED BY <1>2, <1>4, <1>5 DEF Inv

\* update: the fact moves from its old keys to its new ones.
LEMMA UpdateInv ==
  ASSUME Inv, NEW id \in FactIds, NEW s \in Subjects \cup {None},
         NEW p \in Predicates \cup {None}, NEW o \in Objects \cup {None},
         Update(id, s, p, o)
  PROVE  Inv'
<1> DEFINE new == [facts[id] EXCEPT !.subject = Given(s, @),
                                    !.predicate = Given(p, @),
                                    !.object = Given(o, @)]
<1>1. None \notin Facts /\ NoFact \notin Facts
  BY NoneAssumption DEF NoFact, Facts
<1>2. facts[id] \in Facts /\ facts[id] # None
  BY DEF Inv, TypeOK, Update
<1>3. new \in Facts
  BY <1>2 DEF Facts, Given
<1>4. /\ facts' = [facts EXCEPT ![id] = new]
      /\ Reindex(id, facts[id], new)
      /\ relationships' = relationships
  BY DEF Update
<1> HIDE DEF new
<1>5. IndexesExact'
  <2>1. facts' = [facts EXCEPT ![id] = IF new = NoFact THEN None ELSE new]
    BY <1>1, <1>3, <1>4
  <2>2. Reindex(id, Shape(id), new)
    BY <1>2, <1>4 DEF Shape
  <2>3. QED BY <1>3, <2>1, <2>2, ReindexExact DEF Inv
<1>6. Stored' = Stored
  BY <1>1, <1>2, <1>3, <1>4 DEF Inv, TypeOK, Stored
<1>7. RelationsSound'
  BY <1>4, <1>6 DEF Inv, RelationsSound
<1>8. TypeOK'
  <2>1. facts' \in [FactIds -> Facts \cup {None}]
    BY <1>3, <1>4 DEF Inv, TypeOK
  <2>2. QED BY <1>4, <2>1, ReindexType DEF Inv, TypeOK
<1>9. QED BY <1>5, <1>7, <1>8 DEF Inv

\* delete: by symmetry the sets that hold the id are those of the facts its
\* own set names, and all of them are cleaned.
LEMMA DeleteInv ==
  ASSUME Inv, NEW id \in FactIds, Delete(id)
  PROVE  Inv'
<1>1. None \notin Facts /\ NoFact \notin Facts
  BY NoneAssumption DEF NoFact, Facts
<1>2. /\ facts' = [facts EXCEPT ![id] = None]
      /\ Reindex(id, facts[id], NoFact)
      /\ relationships' = Forgotten(id)
      /\ facts[id] # None
  BY DEF Delete
<1>3. IndexesExact'
  <2>1. facts' = [facts EXCEPT ![id] = IF NoFact = NoFact THEN None ELSE NoFact]
    BY <1>2
  <2>2. Reindex(id, Shape(id), NoFact)
    BY <1>2 DEF Shape
  <2>3. QED BY <2>1, <2>2, ReindexExact DEF Inv
<1>4. Stored' = Stored \ {id}
  BY <1>2 DEF Inv, TypeOK, Stored
<1>5. relationships' \in [FactIds -> SUBSET FactIds]
  BY <1>2 DEF Inv, TypeOK, Forgotten
<1>6. RelationsSound'
  <2>1. ASSUME NEW i \in FactIds, NEW j \in relationships'[i]
        PROVE  i # id /\ j # id /\ j \in relationships[i] /\ j \in FactIds
    BY <1>2, <1>5 DEF Inv, TypeOK, RelationsSound, Forgotten
  <2>2. ASSUME NEW i \in FactIds, NEW j \in FactIds, i # id, j # id,
               j \in relationships[i]
        PROVE  j \in relationships'[i]
    BY <1>2, <2>2 DEF Forgotten
  <2>3. QED BY <1>4, <2>1, <2>2 DEF Inv, RelationsSound
<1>7. TypeOK'
  <2>1. facts' \in [FactIds -> Facts \cup {None}]
    BY <1>2 DEF Inv, TypeOK
  <2>2. QED BY <1>2, <1>5, <2>1, ReindexType DEF Inv, TypeOK
<1>8. QED BY <1>3, <1>6, <1>7 DEF Inv

LEMMA LinkInv ==
  ASSUME Inv, NEW a \in FactIds, NEW b \in FactIds, Link(a, b)
  PROVE  Inv'
<1>1. UNCHANGED <<facts, indexes>> /\ Stored' = Stored
  BY DEF Link, Stored
<1>2. RelationsSound' /\ relationships' \in [FactIds -> SUBSET FactIds]
  <2>1. relationships' = Linked(a, {b}) /\ facts[a] # None /\ facts[b] # None
    BY DEF Link
  <2>2. {b} \in SUBSET FactIds /\ Stored \cup {a} \cup {b} \subseteq Stored'
    BY <1>1, <2>1 DEF Stored
  <2>3. QED BY <2>1, <2>2, LinkedSound
<1>3. TypeOK' /\ IndexesExact'
  BY <1>1, <1>2 DEF Inv, TypeOK, IndexesExact, indexes
<1>4. QED BY <1>2, <1>3 DEF Inv

LEMMA UnlinkInv ==
  ASSUME Inv, NEW a \in FactIds, NEW b \in FactIds, Unlink(a, b)
  PROVE  Inv'
<1>1. UNCHANGED <<facts, indexes>> /\ Stored' = Stored
  BY DEF Unlink, Stored
<1>2. relationships' \in [FactIds -> SUBSET FactIds]
  BY DEF Inv, TypeOK, Unlink
<1>3. ASSUME NEW i \in FactIds, NEW j \in FactIds
      PROVE  j \in relationships'[i] <=> /\ j \in relationships[i]
                                         /\ ~(i = a /\ j = b)
                                         /\ ~(i = b /\ j = a)
  BY DEF Inv, TypeOK, Unlink
<1>4. RelationsSound'
  BY <1>1, <1>2, <1>3 DEF Inv, TypeOK, RelationsSound
<1>5. TypeOK' /\ IndexesExact'
  BY <1>1, <1>2 DEF Inv, TypeOK, IndexesExact, indexes
<1>6. QED BY <1>4, <1>5 DEF Inv

-----------------------------------------------------------------------------
(* The theorems.                                                           *)

LEMMA InitInv == Init => Inv
<1> SUFFICES ASSUME Init PROVE Inv
  OBVIOUS
<1>1. TypeOK
  BY DEF Init, TypeOK
<1>2. Stored = {}
  BY DEF Init, Stored
<1>3. IndexesExact
  BY <1>2 DEF Init, IndexesExact
<1>4. RelationsSound
  BY DEF Init, RelationsSound
<1>5. QED BY <1>1, <1>3, <1>4 DEF Inv

\* The invariant: types, exact indexes and sound relationships are kept by
\* every method of the class.
THEOREM FactStoreInv == Spec => []Inv
<1>1. Inv /\ [Next]_vars => Inv'
  <2> SUFFICES ASSUME Inv, [Next]_vars PROVE Inv'
    OBVIOUS
  <2>1. CASE Next
    BY <2>1, StoreInv, UpdateInv, DeleteInv, LinkInv, UnlinkInv DEF Next
  <2>2. CASE UNCHANGED vars
    BY <2>2 DEF vars, indexes, Inv, TypeOK, IndexesExact, RelationsSound, Stored
  <2>3. QED BY <2>1, <2>2
<1>2. QED BY <1>1, InitInv, PTL DEF Spec

\* Every value of the variables has its type.
THEOREM TypeCorrect == Spec => []TypeOK
<1>1. Inv => TypeOK
  BY DEF Inv
<1>2. QED BY <1>1, FactStoreInv, PTL

\* Relationships are symmetric and join facts that exist.
THEOREM RelationsAlwaysSound == Spec => []RelationsSound
<1>1. Inv => RelationsSound
  BY DEF Inv
<1>2. QED BY <1>1, FactStoreInv, PTL

\* Every query, with any combination of filters, returns what a scan of the
\* facts returns.
THEOREM QueriesAreScans == Spec => []QueryIsScan
<1>1. Inv => QueryIsScan
  <2> SUFFICES ASSUME Inv, NEW s \in Subjects \cup {None},
                      NEW p \in Predicates \cup {None},
                      NEW o \in Objects \cup {None},
                      NEW t \in FactTypes \cup {None}
               PROVE  Query(s, p, o, t) =
                        {i \in Stored : /\ s \in {None, facts[i].subject}
                                        /\ p \in {None, facts[i].predicate}
                                        /\ o \in {None, facts[i].object}
                                        /\ t \in {None, facts[i].fact_type}}
    BY DEF QueryIsScan
  <2>1. /\ None \notin Subjects /\ None \notin Predicates
        /\ None \notin Objects /\ None \notin FactTypes
    BY NoneAssumption
  <2>2. Stored \subseteq FactIds
    BY DEF Stored
  <2>3. /\ s # None => by_subject[s] = {i \in Stored : facts[i].subject = s}
        /\ p # None => by_predicate[p] = {i \in Stored : facts[i].predicate = p}
        /\ o # None => by_object[o] = {i \in Stored : facts[i].object = o}
        /\ t # None => by_type[t] = {i \in Stored : facts[i].fact_type = t}
    BY DEF Inv, IndexesExact
  <2>4. QED BY <2>2, <2>3 DEF Query
<1>2. QED BY <1>1, FactStoreInv, PTL

-----------------------------------------------------------------------------
(* The refinement of LinkedItems.                                          *)

\* Linking an id joins it to the others and joins nothing else.
LEMMA LinkedJoins ==
  ASSUME NEW id \in FactIds, NEW others \in SUBSET FactIds, TypeOK,
         relationships' = Linked(id, others)
  PROVE  Joined' = Joined \cup {{id, j} : j \in others}
<1>1. \A i \in FactIds :
        relationships'[i] = relationships[i] \cup (IF i = id THEN others ELSE {})
                                             \cup (IF i \in others THEN {id} ELSE {})
  BY DEF Linked
<1>2. ASSUME NEW l \in Joined' PROVE l \in Joined \cup {{id, j} : j \in others}
  <2>0. PICK a \in FactIds : \E b \in relationships'[a] : l = {a, b}
    BY <1>2 DEF Joined
  <2>1. PICK b \in relationships'[a] : l = {a, b}
    BY <2>0
  <2>2. \/ b \in relationships[a]
        \/ a = id /\ b \in others
        \/ a \in others /\ b = id
    BY <1>1, <2>1
  <2>3. CASE b \in relationships[a]
    BY <2>1, <2>3 DEF Joined
  <2>4. CASE a = id /\ b \in others
    BY <2>1, <2>4
  <2>5. CASE a \in others /\ b = id
    <3>1. l = {id, a}
      BY <2>1, <2>5
    <3>2. QED BY <2>5, <3>1
  <2>6. QED BY <2>2, <2>3, <2>4, <2>5
<1>3. Joined \subseteq Joined'
  BY <1>1 DEF Joined
<1>4. {{id, j} : j \in others} \subseteq Joined'
  <2>1. others \subseteq relationships'[id]
    BY <1>1
  <2>2. QED BY <2>1 DEF Joined
<1>5. QED BY <1>2, <1>3, <1>4

\* store puts the item and its links.
LEMMA StorePuts ==
  ASSUME Inv, NEW id \in FactIds, NEW fact \in Facts,
         NEW related \in SUBSET FactIds, Store(id, fact, related)
  PROVE  Items!Next
<1> DEFINE others == related \cap (Stored \cup {id})
           new == {{id, j} : j \in others}
<1>1. others \in SUBSET FactIds /\ relationships' = Linked(id, others)
  BY DEF Store, Stored
<1>2. Joined' = Joined \cup new
  BY <1>1, LinkedJoins DEF Inv
<1>3. new \in SUBSET {{id, j} : j \in FactIds}
  BY <1>1
<1>4. new \subseteq {{id, j} : j \in Items!Present \cup {id}}
  BY DEF Items!Present, Stored
<1>5. facts[id] = None /\ facts' = [facts EXCEPT ![id] = fact]
  BY DEF Store
<1> HIDE DEF new
<1>6. Items!Put(id, fact, new)
  BY <1>2, <1>4, <1>5 DEF Items!Put
<1>7. QED BY <1>3, <1>6 DEF Items!Next

\* update changes the item and leaves its links.
LEMMA UpdateChanges ==
  ASSUME Inv, NEW id \in FactIds, NEW s \in Subjects \cup {None},
         NEW p \in Predicates \cup {None}, NEW o \in Objects \cup {None},
         Update(id, s, p, o)
  PROVE  Items!Next
<1> DEFINE new == [facts[id] EXCEPT !.subject = Given(s, @),
                                    !.predicate = Given(p, @),
                                    !.object = Given(o, @)]
<1>1. facts[id] \in Facts /\ facts[id] # None
  BY DEF Inv, TypeOK, Update
<1>2. new \in Facts
  BY <1>1 DEF Facts, Given
<1>3. facts' = [facts EXCEPT ![id] = new] /\ relationships' = relationships
  BY DEF Update
<1> HIDE DEF new
<1>4. Items!Change(id, new)
  BY <1>1, <1>3 DEF Items!Change, Joined
<1>5. QED BY <1>2, <1>4 DEF Items!Next

\* delete removes the item and every link at it: symmetry is what makes the
\* fact's own set name all of them.
LEMMA DeleteRemoves ==
  ASSUME Inv, NEW id \in FactIds, Delete(id)
  PROVE  Items!Next
<1>1. /\ facts[id] # None
      /\ facts' = [facts EXCEPT ![id] = None]
      /\ relationships' = Forgotten(id)
  BY DEF Delete
<1>2. \A i \in FactIds : relationships'[i] = IF i = id THEN {} ELSE relationships[i] \ {id}
  BY <1>1 DEF Inv, TypeOK, RelationsSound, Forgotten
<1>3. Joined' = {l \in Joined : id \notin l}
  <2>1. ASSUME NEW l \in Joined' PROVE l \in Joined /\ id \notin l
    <3>0. PICK a \in FactIds : \E b \in relationships'[a] : l = {a, b}
      BY <2>1 DEF Joined
    <3>1. PICK b \in relationships'[a] : l = {a, b}
      BY <3>0
    <3>2. a # id /\ b # id /\ b \in relationships[a]
      BY <1>2, <3>1
    <3>3. QED BY <3>1, <3>2 DEF Joined
  <2>2. ASSUME NEW l \in Joined, id \notin l PROVE l \in Joined'
    <3>0. PICK a \in FactIds : \E b \in relationships[a] : l = {a, b}
      BY <2>2 DEF Joined
    <3>1. PICK b \in relationships[a] : l = {a, b}
      BY <3>0
    <3>2. b \in relationships'[a]
      BY <1>2, <2>2, <3>1
    <3>3. QED BY <3>1, <3>2 DEF Joined
  <2>3. QED BY <2>1, <2>2
<1>4. Items!Remove(id)
  BY <1>1, <1>3 DEF Items!Remove
<1>5. QED BY <1>4 DEF Items!Next

LEMMA LinkRelates ==
  ASSUME Inv, NEW a \in FactIds, NEW b \in FactIds, Link(a, b)
  PROVE  Items!Next
<1>1. Joined' = Joined \cup {{a, j} : j \in {b}}
  BY LinkedJoins DEF Inv, Link
<1>2. Joined' = Joined \cup {{a, b}}
  BY <1>1
<1>3. {a, b} \in Items!LinksAmong(Items!Present) /\ UNCHANGED facts
  BY DEF Link, Items!LinksAmong, Items!Present
<1>4. Items!Relate({a, b})
  BY <1>2, <1>3 DEF Items!Relate
<1>5. {a, b} \in Items!LinksAmong(FactIds)
  BY DEF Items!LinksAmong
<1>6. QED BY <1>4, <1>5 DEF Items!Next

LEMMA UnlinkUnrelates ==
  ASSUME Inv, NEW a \in FactIds, NEW b \in FactIds, Unlink(a, b)
  PROVE  Items!Next
<1>1. \A i, j \in FactIds : j \in relationships'[i] <=> /\ j \in relationships[i]
                                                        /\ {i, j} # {a, b}
  BY DEF Inv, TypeOK, Unlink
<1>2. /\ relationships \in [FactIds -> SUBSET FactIds]
      /\ relationships' \in [FactIds -> SUBSET FactIds]
  BY DEF Inv, TypeOK, Unlink
<1>3. Joined' = Joined \ {{a, b}}
  <2>1. ASSUME NEW l \in Joined' PROVE l \in Joined \ {{a, b}}
    <3>0. PICK i \in FactIds : \E j \in relationships'[i] : l = {i, j}
      BY <2>1 DEF Joined
    <3>1. PICK j \in relationships'[i] : l = {i, j}
      BY <3>0
    <3>2. j \in FactIds
      BY <1>2, <3>1
    <3>3. j \in relationships[i] /\ l # {a, b}
      BY <1>1, <3>1, <3>2
    <3>4. QED BY <3>1, <3>3 DEF Joined
  <2>2. ASSUME NEW l \in Joined \ {{a, b}} PROVE l \in Joined'
    <3>0. PICK i \in FactIds : \E j \in relationships[i] : l = {i, j}
      BY <2>2 DEF Joined
    <3>1. PICK j \in relationships[i] : l = {i, j}
      BY <3>0
    <3>2. j \in FactIds
      BY <1>2, <3>1
    <3>3. j \in relationships'[i]
      BY <1>1, <2>2, <3>1, <3>2
    <3>4. QED BY <3>1, <3>3 DEF Joined
  <2>3. QED BY <2>1, <2>2
<1>4. Items!Unrelate({a, b})
  BY <1>3 DEF Items!Unrelate, Unlink
<1>5. {a, b} \in Items!LinksAmong(FactIds)
  BY DEF Items!LinksAmong
<1>6. QED BY <1>4, <1>5 DEF Items!Next

\* The fact store implements LinkedItems: its initial state maps to the empty
\* table, and every method maps to a step on items and links.
THEOREM StoreImplementsItems == Spec => ImplementsItems
<1>1. Init => Items!Init
  BY DEF Init, Items!Init, Joined
<1>2. Inv /\ [Next]_vars => [Items!Next]_(Items!state)
  <2> SUFFICES ASSUME Inv, [Next]_vars PROVE [Items!Next]_(Items!state)
    OBVIOUS
  <2>1. CASE Next
    BY <2>1, StorePuts, UpdateChanges, DeleteRemoves, LinkRelates, UnlinkUnrelates
       DEF Next
  <2>2. CASE UNCHANGED vars
    BY <2>2 DEF vars, Items!state, Joined
  <2>3. QED BY <2>1, <2>2
<1>3. QED BY <1>1, <1>2, FactStoreInv, PTL DEF Spec, ImplementsItems, Items!Spec

-----------------------------------------------------------------------------
(* The traversal of relationships.                                         *)

\* The functions that ReachedWithin and Level define.
Reaching(id, n) ==
  CHOOSE reach : reach = [k \in 0..n |->
    IF k = 0 THEN {id}
    ELSE reach[k - 1] \cup UNION {relationships[f] : f \in reach[k - 1]}]

Searching(id, depth) ==
  CHOOSE search : search = [d \in 0..depth |->
    IF d = 0 THEN [level |-> {id}, visited |-> {id}]
    ELSE LET prev == search[d - 1]
             next == ((UNION {relationships[f] : f \in prev.level}) \cap Stored) \ prev.visited
         IN  [level |-> next, visited |-> prev.visited \cup next]]

Typed == relationships \in [FactIds -> SUBSET FactIds]

\* What the sets reached are made of, for any number of steps.
LEMMA ReachingSteps ==
  ASSUME Typed, NEW id \in FactIds, NEW n \in Nat
  PROVE  /\ Reaching(id, n) \in [0..n -> SUBSET FactIds]
         /\ Reaching(id, n)[0] = {id}
         /\ \A k \in 1..n : Reaching(id, n)[k] =
              Reaching(id, n)[k - 1] \cup UNION {relationships[f] : f \in Reaching(id, n)[k - 1]}
<1> DEFINE A == SUBSET FactIds
           Grown(S) == S \cup UNION {relationships[f] : f \in S}
           h == [p \in (1..n) \X A |-> Grown(p[2])]
           Is(g) == g = [k \in 0..n |-> IF k = 0 THEN {id} ELSE Grown(g[k - 1])]
<1>1. {id} \in A /\ \A S \in A : Grown(S) \in A
  BY DEF Typed
<1>2. h \in [(1..n) \X A -> A]
  BY <1>1
<1> HIDE DEF A, Grown
<1>3. \E g \in [0..n -> A] : g[0] = {id} /\ \A k \in 1..n : g[k] = h[<<k, g[k - 1]>>]
  <2>1. h \in StepsOn(n, A)
    BY <1>2 DEF StepsOn
  <2>2. {id} \in A
    BY <1>1
  <2> HIDE DEF h
  <2>3. \E g \in [0..n -> A] : Follows(g, n, {id}, h)
    BY <2>1, <2>2, Recursion
  <2>4. QED
    BY <2>3 DEF Follows
<1>4. PICK g \in [0..n -> A] : g[0] = {id} /\ \A k \in 1..n : g[k] = h[<<k, g[k - 1]>>]
  BY <1>3
<1>5. ASSUME NEW k \in 0..n PROVE g[k] = IF k = 0 THEN {id} ELSE Grown(g[k - 1])
  <2>1. CASE k = 0
    BY <1>4, <2>1
  <2>2. CASE k # 0
    <3>1. k \in 1..n /\ k - 1 \in 0..n
      BY <2>2
    <3>2. <<k, g[k - 1]>> \in (1..n) \X A
      BY <1>4, <3>1
    <3>3. h[<<k, g[k - 1]>>] = Grown(g[k - 1])
      BY <3>2
    <3>4. QED
      BY <1>4, <2>2, <3>1, <3>3
  <2>3. QED
    BY <2>1, <2>2
<1>6. Is(g)
  BY <1>4, <1>5
<1>7. Reaching(id, n) = CHOOSE r : Is(r)
  BY DEF Reaching, Grown
<1>8. Is(Reaching(id, n))
  <2> HIDE DEF Is
  <2>1. QED
    BY <1>6, <1>7
<1>9. \A k \in 0..n : Reaching(id, n)[k] = IF k = 0 THEN {id} ELSE Grown(Reaching(id, n)[k - 1])
  BY <1>8
<1>10. Reaching(id, n) \in [0..n -> A]
  <2> DEFINE r == Reaching(id, n)
             S == {k \in Nat : k <= n => r[k] \in A}
  <2> HIDE DEF r
  <2>0. r[0] = {id}
    BY <1>9 DEF r
  <2>1. 0 \in S
    BY <1>1, <2>0
  <2>2. ASSUME NEW k \in Nat, k \in S PROVE k + 1 \in S
    <3> SUFFICES ASSUME k + 1 <= n PROVE r[k + 1] \in A
      OBVIOUS
    <3>1. r[k + 1] = Grown(r[k])
      BY <1>9 DEF r
    <3>2. QED
      BY <1>1, <2>2, <3>1
  <2>3. \A k \in 0..n : r[k] \in A
    <3> HIDE DEF S
    <3>1. Nat \subseteq S
      BY <2>1, <2>2, Induction
    <3>2. QED
      BY <3>1 DEF S
  <2>4. r = [k \in 0..n |-> r[k]]
    BY <1>8 DEF r
  <2>5. QED
    BY <2>3, <2>4 DEF r
<1>11. \A k \in 1..n : Reaching(id, n)[k] = Grown(Reaching(id, n)[k - 1])
  BY <1>9
<1>12. QED
  BY <1>9, <1>10, <1>11 DEF A, Grown

\* Within n + 1 steps is reached what is reached within n, and what is related
\* to that.
LEMMA ReachedNext ==
  ASSUME Typed, NEW id \in FactIds
  PROVE  /\ ReachedWithin(id, 0) = {id}
         /\ \A n \in Nat :
              /\ ReachedWithin(id, n) \in SUBSET FactIds
              /\ ReachedWithin(id, n + 1) = ReachedWithin(id, n) \cup
                   UNION {relationships[f] : f \in ReachedWithin(id, n)}
<1>1. \A n \in Nat : ReachedWithin(id, n) = Reaching(id, n)[n]
  BY DEF ReachedWithin, Reaching
<1>2. ASSUME NEW n \in Nat PROVE Reaching(id, n + 1)[n] = Reaching(id, n)[n]
  <2> DEFINE r == Reaching(id, n)
             q == Reaching(id, n + 1)
             S == {k \in Nat : k <= n => q[k] = r[k]}
  <2>1. r[0] = {id} /\ \A k \in 1..n : r[k] = r[k - 1] \cup UNION {relationships[f] : f \in r[k - 1]}
    BY ReachingSteps
  <2>2. q[0] = {id} /\ \A k \in 1..n + 1 : q[k] = q[k - 1] \cup UNION {relationships[f] : f \in q[k - 1]}
    BY ReachingSteps
  <2> HIDE DEF r, q
  <2>3. 0 \in S
    BY <2>1, <2>2
  <2>4. ASSUME NEW k \in Nat, k \in S PROVE k + 1 \in S
    <3> SUFFICES ASSUME k + 1 <= n PROVE q[k + 1] = r[k + 1]
      OBVIOUS
    <3>1. k + 1 \in 1..n /\ k + 1 \in 1..n + 1 /\ (k + 1) - 1 = k /\ q[k] = r[k]
      BY <2>4
    <3>2. /\ q[k + 1] = q[k] \cup UNION {relationships[f] : f \in q[k]}
          /\ r[k + 1] = r[k] \cup UNION {relationships[f] : f \in r[k]}
      BY <2>1, <2>2, <3>1
    <3>3. QED
      BY <3>1, <3>2
  <2> HIDE DEF S
  <2>5. n \in S
    BY <2>3, <2>4, Induction
  <2>6. QED
    BY <2>5 DEF S, q, r
<1>3. ASSUME NEW n \in Nat
      PROVE  /\ ReachedWithin(id, n) \in SUBSET FactIds
             /\ ReachedWithin(id, n + 1) = ReachedWithin(id, n) \cup
                  UNION {relationships[f] : f \in ReachedWithin(id, n)}
  <2>1. n + 1 \in Nat /\ n + 1 \in 1..n + 1 /\ (n + 1) - 1 = n /\ n \in 0..n
    OBVIOUS
  <2>2. Reaching(id, n)[n] \in SUBSET FactIds
    BY <2>1, ReachingSteps
  <2>3. Reaching(id, n + 1)[n + 1] = Reaching(id, n + 1)[n] \cup
          UNION {relationships[f] : f \in Reaching(id, n + 1)[n]}
    BY <2>1, ReachingSteps
  <2>4. ReachedWithin(id, n) = Reaching(id, n)[n] /\ ReachedWithin(id, n + 1) = Reaching(id, n + 1)[n + 1]
    BY <1>1, <2>1
  <2>5. QED
    BY <1>2, <2>2, <2>3, <2>4
<1>4. ReachedWithin(id, 0) = {id}
  BY <1>1, ReachingSteps
<1>5. QED
  BY <1>3, <1>4

\* What is found next to a level and has not been visited, and the level after.
Fresh(p) == ((UNION {relationships[f] : f \in p.level}) \cap Stored) \ p.visited
After(p) == [level |-> Fresh(p), visited |-> p.visited \cup Fresh(p)]

\* What each level of the search is made of.
LEMMA SearchingSteps ==
  ASSUME Typed, NEW id \in FactIds, NEW n \in Nat
  PROVE  /\ Level(id, n) = Searching(id, n)[n].level
         /\ Searching(id, n)[0] = [level |-> {id}, visited |-> {id}]
         /\ \A k \in 1..n : Searching(id, n)[k] = After(Searching(id, n)[k - 1])
<1> DEFINE A == [level : SUBSET FactIds, visited : SUBSET FactIds]
           a == [level |-> {id}, visited |-> {id}]
           h == [p \in (1..n) \X A |-> After(p[2])]
           Is(s) == s = [k \in 0..n |-> IF k = 0 THEN a ELSE After(s[k - 1])]
<1>1. a \in A /\ \A p \in A : After(p) \in A
  <2>1. \A p \in A : Fresh(p) \in SUBSET FactIds
    BY DEF Typed, Stored, Fresh
  <2>2. QED
    BY <2>1 DEF After
<1>2. h \in [(1..n) \X A -> A]
  BY <1>1
<1>3. Level(id, n) = Searching(id, n)[n].level
  BY DEF Level, Searching
<1>4. Searching(id, n) = CHOOSE s : Is(s)
  BY DEF Searching, After, Fresh
<1> HIDE DEF A, a
<1>5. PICK g \in [0..n -> A] : g[0] = a /\ \A k \in 1..n : g[k] = h[<<k, g[k - 1]>>]
  <2>1. h \in StepsOn(n, A)
    BY <1>2 DEF StepsOn
  <2>2. a \in A
    BY <1>1
  <2> HIDE DEF h
  <2>3. \E g \in [0..n -> A] : Follows(g, n, a, h)
    BY <2>1, <2>2, Recursion
  <2>4. QED
    BY <2>3 DEF Follows
<1>6. ASSUME NEW k \in 0..n PROVE g[k] = IF k = 0 THEN a ELSE After(g[k - 1])
  <2>1. CASE k = 0
    BY <1>5, <2>1
  <2>2. CASE k # 0
    <3>1. k \in 1..n /\ k - 1 \in 0..n
      BY <2>2
    <3>2. <<k, g[k - 1]>> \in (1..n) \X A
      BY <1>5, <3>1
    <3>3. h[<<k, g[k - 1]>>] = After(g[k - 1])
      BY <3>2
    <3>4. QED
      BY <1>5, <2>2, <3>1, <3>3
  <2>3. QED
    BY <2>1, <2>2
<1>7. Is(g)
  BY <1>5, <1>6
<1>8. Is(Searching(id, n))
  <2> HIDE DEF Is
  <2>1. QED
    BY <1>4, <1>7
<1>9. /\ Searching(id, n)[0] = a
      /\ \A k \in 1..n : Searching(id, n)[k] = After(Searching(id, n)[k - 1])
  <2>1. \A k \in 0..n : Searching(id, n)[k] = IF k = 0 THEN a ELSE After(Searching(id, n)[k - 1])
    BY <1>8
  <2>2. QED
    BY <2>1
<1>10. QED
  BY <1>3, <1>9 DEF a

\* The levels of the search are what is reached at that distance and no
\* earlier: what is related to the facts of earlier levels has been visited,
\* and relationships lead only to facts that are stored.
LEMMA LevelIsDistance ==
  ASSUME Inv, NEW id \in Stored, NEW d \in Nat \ {0}
  PROVE  Level(id, d) = ReachedWithin(id, d) \ ReachedWithin(id, d - 1)
<1> DEFINE s == Searching(id, d)
           R(k) == ReachedWithin(id, k)
           Rel(S) == UNION {relationships[f] : f \in S}
           S == {k \in Nat : k <= d =>
                   /\ s[k].visited = R(k)
                   /\ k > 0 => s[k].level = R(k) \ R(k - 1) /\ Rel(R(k - 1)) \subseteq R(k)
                   /\ k = 0 => s[k].level = R(k)}
<1>1. id \in FactIds /\ Typed /\ d \in Nat
  BY DEF Stored, Inv, TypeOK, Typed
<1>2. /\ Level(id, d) = s[d].level
      /\ s[0] = [level |-> {id}, visited |-> {id}]
      /\ \A k \in 1..d : s[k] = After(s[k - 1])
  BY <1>1, SearchingSteps
<1>3. /\ R(0) = {id}
      /\ \A n \in Nat : R(n) \in SUBSET FactIds /\ R(n + 1) = R(n) \cup Rel(R(n))
  BY <1>1, ReachedNext
<1>4. \A T \in SUBSET FactIds : Rel(T) \subseteq Stored
  BY DEF Inv, RelationsSound, TypeOK
<1>5. \A T, U : Rel(T \cup U) = Rel(T) \cup Rel(U)
  OBVIOUS
<1>6. 0 \in S
  <2> HIDE DEF s, R, Rel
  <2>1. s[0].level = R(0) /\ s[0].visited = R(0)
    BY <1>2, <1>3
  <2>2. QED
    BY <2>1
<1>7. ASSUME NEW k \in Nat, k \in S PROVE k + 1 \in S
  <2> SUFFICES ASSUME k + 1 <= d
               PROVE  /\ s[k + 1].visited = R(k + 1)
                      /\ s[k + 1].level = R(k + 1) \ R(k) /\ Rel(R(k)) \subseteq R(k + 1)
    <3>1. (k + 1) - 1 = k /\ k + 1 > 0 /\ k + 1 # 0
      OBVIOUS
    <3>2. QED
      BY <3>1
  <2>1. /\ s[k].visited = R(k)
        /\ k > 0 => s[k].level = R(k) \ R(k - 1) /\ Rel(R(k - 1)) \subseteq R(k)
        /\ k = 0 => s[k].level = R(k)
    BY <1>7
  <2>2. k + 1 \in 1..d /\ (k + 1) - 1 = k
    OBVIOUS
  <2> DEFINE new == (Rel(s[k].level) \cap Stored) \ s[k].visited
  <2>3. s[k + 1] = [level |-> new, visited |-> s[k].visited \cup new]
    <3>1. s[k + 1] = After(s[k])
      BY <1>2, <2>2
    <3> HIDE DEF s
    <3>2. new = Fresh(s[k])
      BY Zenon DEF Fresh
    <3> HIDE DEF new
    <3>3. QED
      BY <3>1, <3>2 DEF After
  <2> HIDE DEF s, R, Rel
  <2>4. R(k) \in SUBSET FactIds /\ R(k + 1) = R(k) \cup Rel(R(k)) /\ Rel(R(k)) \subseteq Stored
    BY <1>3, <1>4
  <2>5. Rel(R(k)) \subseteq Rel(s[k].level) \cup R(k) /\ Rel(s[k].level) \subseteq Rel(R(k))
    <3>1. CASE k = 0
      BY <2>1, <3>1
    <3>2. CASE k > 0
      <4>1. k - 1 \in Nat /\ (k - 1) + 1 = k
        BY <3>2
      <4>2. R(k) = R(k - 1) \cup Rel(R(k - 1))
        BY <1>3, <4>1
      <4>3. R(k) = R(k - 1) \cup s[k].level
        BY <2>1, <3>2, <4>2
      <4>4. Rel(R(k)) = Rel(R(k - 1)) \cup Rel(s[k].level)
        BY <1>5, <4>3
      <4>5. QED
        BY <2>1, <3>2, <4>4
    <3>3. QED
      BY <3>1, <3>2
  <2>6. new = R(k + 1) \ R(k)
    BY <2>1, <2>4, <2>5
  <2>7. QED
    BY <2>1, <2>3, <2>4, <2>6
<1> HIDE DEF S
<1>8. d \in S
  BY <1>1, <1>6, <1>7, Induction
<1>9. QED
  BY <1>2, <1>8 DEF S, R

\* traverse puts every fact at the length of the shortest chain of
\* relationships to it, to whatever depth it is asked to go.
THEOREM TraversesByDistance ==
  Spec => [](/\ TraverseByDistance
             /\ \A id \in Stored : \A d \in Nat \ {0} :
                  Level(id, d) = ReachedWithin(id, d) \ ReachedWithin(id, d - 1))
<1>1. Inv => /\ TraverseByDistance
             /\ \A id \in Stored : \A d \in Nat \ {0} :
                  Level(id, d) = ReachedWithin(id, d) \ ReachedWithin(id, d - 1)
  BY LevelIsDistance DEF TraverseByDistance
<1>2. QED
  BY <1>1, FactStoreInv, PTL

-----------------------------------------------------------------------------
(* The two stores of documents.                                            *)

Holding == {d \in Docs : docs[d] # None}

RAGInv ==
  /\ Inv
  /\ docs \in [Docs -> Texts \cup {None}]
  /\ collection \in [Docs -> Texts \cup {None}]
  /\ doc_to_fact \in [Docs -> FactIds \cup {None}]
  /\ excused \subseteq Docs
  /\ StoresAgree
  /\ IsFiniteSet(Stored) /\ IsFiniteSet(Holding)

\* A method of the fact store adds one fact at most.
LEMMA OneFactMore ==
  ASSUME Inv, Next
  PROVE  \E id \in FactIds : Stored' \subseteq Stored \cup {id}
<1>1. ASSUME NEW id \in FactIds, NEW v, facts' = [facts EXCEPT ![id] = v]
      PROVE  Stored' \subseteq Stored \cup {id}
  BY <1>1 DEF Inv, TypeOK, Stored
<1>2. ASSUME NEW id \in FactIds, NEW fact \in Facts, NEW related \in SUBSET FactIds,
             Store(id, fact, related)
      PROVE  \E i \in FactIds : Stored' \subseteq Stored \cup {i}
  BY <1>1, <1>2 DEF Store
<1>3. ASSUME NEW id \in FactIds, NEW s \in Subjects \cup {None}, NEW p \in Predicates \cup {None},
             NEW o \in Objects \cup {None}, Update(id, s, p, o)
      PROVE  \E i \in FactIds : Stored' \subseteq Stored \cup {i}
  BY <1>1, <1>3 DEF Update
<1>4. ASSUME NEW id \in FactIds, Delete(id)
      PROVE  \E i \in FactIds : Stored' \subseteq Stored \cup {i}
  BY <1>1, <1>4 DEF Delete
<1>5. ASSUME NEW a \in FactIds, NEW b \in FactIds, Link(a, b) \/ Unlink(a, b)
      PROVE  \E i \in FactIds : Stored' \subseteq Stored \cup {i}
  BY <1>5 DEF Link, Unlink, Stored
<1>6. QED
  BY <1>2, <1>3, <1>4, <1>5 DEF Next

\* add: a document that the collection had before is the only one the stores
\* may come to differ on.
LEMMA AddAgrees ==
  ASSUME RAGInv, NEW d \in Docs, NEW text \in Texts, AddDocument(d, text)
  PROVE  /\ docs' \in [Docs -> Texts \cup {None}] /\ collection' \in [Docs -> Texts \cup {None}]
         /\ excused' \subseteq Docs /\ StoresAgree' /\ IsFiniteSet(Holding')
<1>1. /\ docs' = [docs EXCEPT ![d] = text]
      /\ collection' = [c \in Docs |-> IF collection[c] = None /\ c = d THEN text ELSE collection[c]]
      /\ excused' = IF collection[d] = None THEN excused ELSE excused \cup {d}
  BY DEF AddDocument, ChromaAdded
<1>2. docs' \in [Docs -> Texts \cup {None}] /\ collection' \in [Docs -> Texts \cup {None}]
  BY <1>1 DEF RAGInv
<1>3. excused' \subseteq Docs /\ StoresAgree'
  BY <1>1 DEF RAGInv, StoresAgree
<1>4. IsFiniteSet(Holding')
  <2>1. Holding' \subseteq Holding \cup {d}
    BY <1>1 DEF RAGInv, Holding
  <2>2. IsFiniteSet(Holding \cup {d})
    BY FS_AddElement DEF RAGInv
  <2>3. QED
    BY <2>1, <2>2, FS_Subset
<1>5. QED
  BY <1>2, <1>3, <1>4

\* add_batch: what it entered into the dictionary is in the collection too, or
\* is excused.
LEMMA BatchAgrees ==
  ASSUME RAGInv, AddBatch
  PROVE  RAGInv'
<1>1. PICK m \in 1..MaxBatch :
        \E items \in [1..m -> Docs \X {Prose}], n \in 0..m : EnterBatch(items, n)
  BY DEF AddBatch
<1>2. UNCHANGED <<vars, doc_to_fact>>
  BY DEF AddBatch
<1>3. PICK items \in [1..m -> Docs \X {Prose}], n \in 0..m : EnterBatch(items, n)
  BY <1>1
<1> DEFINE place(d) == CHOOSE i \in 1..n : items[i][1] = d
           E == {items[i][1] : i \in 1..n}
           t == [d \in E |-> items[place(d)][2]]
<1>4. \A i \in 1..n : items[i][1] \in Docs /\ items[i][2] = Prose
  <2>1. \A i \in 1..n : i \in 1..m
    OBVIOUS
  <2>2. QED
    BY <2>1
<1>5. E \subseteq Docs
  BY <1>4
<1>6. ASSUME NEW d \in E PROVE t[d] \in Texts
  <2>1. \E i \in 1..n : items[i][1] = d
    BY <1>6
  <2>2. place(d) \in 1..n
    BY <2>1
  <2>3. t[d] = items[place(d)][2]
    BY <1>6
  <2> HIDE DEF place, t
  <2>4. QED
    BY <1>4, <2>2, <2>3 DEF Texts
<1>7. IsFiniteSet(E)
  <2> DEFINE first == [i \in 1..n |-> items[i][1]]
  <2>1. IsFiniteSet(1..n)
    <3>1. 1 \in Int /\ n \in Int
      OBVIOUS
    <3>2. QED
      BY <3>1, FS_Interval
  <2>2. E = {first[i] : i \in 1..n}
    OBVIOUS
  <2> HIDE DEF first
  <2>3. IsFiniteSet({first[i] : i \in 1..n})
    BY <2>1, FiniteValues
  <2>4. QED
    BY <2>2, <2>3
<1>8. /\ docs' = [d \in Docs |-> IF d \in E THEN t[d] ELSE docs[d]]
      /\ \/ /\ collection' = ChromaAdded(t)
            /\ excused' = excused \cup {d \in E : collection[d] # None}
         \/ UNCHANGED collection /\ excused' = excused \cup E
  BY <1>3 DEF EnterBatch
<1>9. DOMAIN t = E
  OBVIOUS
<1> HIDE DEF E, t, place
<1>11. /\ docs' = [d \in Docs |-> IF d \in E THEN t[d] ELSE docs[d]]
       /\ \/ /\ collection' = [d \in Docs |-> IF collection[d] = None /\ d \in E THEN t[d]
                                                                               ELSE collection[d]]
             /\ excused' = excused \cup {d \in E : collection[d] # None}
          \/ UNCHANGED collection /\ excused' = excused \cup E
  BY <1>8, <1>9 DEF ChromaAdded
<1>12. E \subseteq Docs /\ IsFiniteSet(E) /\ \A d \in E : t[d] \in Texts
  BY <1>5, <1>6, <1>7
<1>13. docs' \in [Docs -> Texts \cup {None}] /\ collection' \in [Docs -> Texts \cup {None}]
  BY <1>11, <1>12 DEF RAGInv
<1>14. excused' \subseteq Docs /\ StoresAgree'
  BY <1>11, <1>12 DEF RAGInv, StoresAgree
<1>15. IsFiniteSet(Holding')
  <2>1. Holding' \subseteq Holding \cup E
    BY <1>11 DEF Holding
  <2>2. IsFiniteSet(Holding \cup E)
    BY <1>12, FS_Union DEF RAGInv
  <2>3. QED
    BY <2>1, <2>2, FS_Subset
<1>16. Inv' /\ Stored' = Stored
  BY <1>2 DEF vars, indexes, RAGInv, Inv, TypeOK, IndexesExact, RelationsSound, Stored
<1>17. QED
  BY <1>2, <1>13, <1>14, <1>15, <1>16 DEF RAGInv

LEMMA RAGInitInv == RAGInit => RAGInv
<1> SUFFICES ASSUME RAGInit PROVE RAGInv
  OBVIOUS
<1>1. Inv
  BY InitInv DEF RAGInit
<1>2. Stored = {} /\ Holding = {}
  BY DEF RAGInit, Init, Stored, Holding, Nothing
<1>3. IsFiniteSet({})
  BY FS_EmptySet
<1>4. QED
  BY <1>1, <1>2, <1>3 DEF RAGInit, RAGInv, Nothing, StoresAgree

\* No step breaks the invariant.
LEMMA RAGNextInv == RAGInv /\ [RAGNext]_<<vars, mirror>> => RAGInv'
<1> SUFFICES ASSUME RAGInv, [RAGNext]_<<vars, mirror>> PROVE RAGInv'
  OBVIOUS
<1>1. UNCHANGED vars => Inv' /\ Stored' = Stored
  BY DEF vars, indexes, RAGInv, Inv, TypeOK, IndexesExact, RelationsSound, Stored
<1>2. CASE FactStep
  <2>1. UNCHANGED <<docs, collection, doc_to_fact, excused>> /\ Next
    BY <1>2 DEF FactStep, mirror
  <2>2. Inv'
    BY <2>1, StoreInv, UpdateInv, DeleteInv, LinkInv, UnlinkInv DEF RAGInv, Next
  <2>3. IsFiniteSet(Stored')
    <3>1. PICK id \in FactIds : Stored' \subseteq Stored \cup {id}
      BY <2>1, OneFactMore DEF RAGInv
    <3>2. IsFiniteSet(Stored \cup {id})
      BY FS_AddElement DEF RAGInv
    <3>3. QED
      BY <3>1, <3>2, FS_Subset
  <2>4. Holding' = Holding
    BY <2>1 DEF Holding
  <2>5. QED
    BY <2>1, <2>2, <2>3, <2>4 DEF RAGInv, StoresAgree
<1>3. CASE AddBatch
  BY <1>3, BatchAgrees
<1>4. CASE Reopen
  <2>1. /\ docs' = Nothing /\ doc_to_fact' = Nothing /\ UNCHANGED <<vars, collection>>
        /\ excused' = {d \in Docs : collection[d] # None}
    BY <1>4 DEF Reopen
  <2>2. Holding' = {} /\ IsFiniteSet({})
    BY <2>1, FS_EmptySet DEF Holding, Nothing
  <2>3. QED
    BY <1>1, <2>1, <2>2 DEF RAGInv, StoresAgree, Nothing
<1>5. ASSUME NEW f \in FactIds, IndexFact(f) PROVE RAGInv'
  <2>1. PICK d \in {f} \cup Names : /\ AddDocument(d, TextOf(f))
                                    /\ doc_to_fact' = [doc_to_fact EXCEPT ![d] = f]
    BY <1>5 DEF IndexFact
  <2>2. UNCHANGED vars /\ f \in Stored
    BY <1>5 DEF IndexFact
  <2>3. TextOf(f) \in Texts
    <3>1. facts[f] \in Facts
      BY <2>2 DEF RAGInv, Inv, TypeOK, Stored
    <3>2. QED
      BY <3>1 DEF TextOf, Texts, Facts
  <2>4. d \in Docs /\ doc_to_fact' \in [Docs -> FactIds \cup {None}]
    BY <2>1 DEF Docs, RAGInv
  <2>5. /\ docs' \in [Docs -> Texts \cup {None}] /\ collection' \in [Docs -> Texts \cup {None}]
        /\ excused' \subseteq Docs /\ StoresAgree' /\ IsFiniteSet(Holding')
    BY <2>1, <2>3, <2>4, AddAgrees
  <2>6. QED
    BY <1>1, <2>2, <2>4, <2>5 DEF RAGInv
<1>6. ASSUME NEW d \in Docs, DeleteDocument(d) PROVE RAGInv'
  <2>1. /\ collection' = [collection EXCEPT ![d] = None] /\ docs' = [docs EXCEPT ![d] = None]
        /\ excused' = excused \ {d} /\ UNCHANGED <<vars, doc_to_fact>>
    BY <1>6 DEF DeleteDocument
  <2>2. IsFiniteSet(Holding')
    <3>1. Holding' \subseteq Holding
      BY <2>1 DEF RAGInv, Holding
    <3>2. QED
      BY <3>1, FS_Subset DEF RAGInv
  <2>3. QED
    BY <1>1, <2>1, <2>2 DEF RAGInv, StoresAgree
<1>7. ASSUME NEW d \in Names, IndexText(d) PROVE RAGInv'
  <2>1. AddDocument(d, Prose) /\ UNCHANGED <<vars, doc_to_fact>> /\ d \in Docs /\ Prose \in Texts
    BY <1>7 DEF IndexText, Docs, Texts
  <2>2. QED
    BY <1>1, <2>1, AddAgrees DEF RAGInv
<1>8. CASE UNCHANGED <<vars, mirror>>
  <2>1. Holding' = Holding
    BY <1>8 DEF mirror, Holding
  <2>2. QED
    BY <1>1, <1>8, <2>1 DEF mirror, RAGInv, StoresAgree
<1>9. QED
  BY <1>2, <1>3, <1>4, <1>5, <1>6, <1>7, <1>8 DEF RAGNext

\* However documents are added, deleted and reopened and facts deleted under
\* them, the invariant of the two stores of documents and of the facts holds.
THEOREM RAGInvHolds == RAGSpec => []RAGInv
BY RAGInitInv, RAGNextInv, PTL DEF RAGSpec

\* The dictionary and the collection hold the same documents with the same
\* texts, but for what a failed batch or an earlier store left there.
THEOREM StoresAlwaysAgree == RAGSpec => []StoresAgree
<1>1. RAGInv => StoresAgree
  BY DEF RAGInv
<1>2. QED
  BY <1>1, RAGInvHolds, PTL

-----------------------------------------------------------------------------
(* Retrieval.                                                              *)

Injective(list) == \A i, j \in 1..Len(list) : list[i] = list[j] => i = j

\* A finite set has an order, and its order lists its members, each once.
LEMMA OrderExists ==
  ASSUME NEW S, IsFiniteSet(S)
  PROVE  /\ InSomeOrder(S) \in Seq(S) /\ Injective(InSomeOrder(S))
         /\ Members(InSomeOrder(S)) = S
<1> DEFINE n == Cardinality(S)
           q == InSomeOrder(S)
<1>1. n \in Nat /\ ExistsBijection(1..n, S)
  BY FS_CardinalityType
<1>2. PICK b \in Bijection(1..n, S) : TRUE
  BY <1>1 DEF ExistsBijection
<1>3. b \in Orders(S)
  BY <1>2 DEF Orders, Bijection, Injection, IsInjective
<1>4. q \in Orders(S)
  BY <1>3 DEF InSomeOrder
<1>5. q \in [1..n -> S] /\ \A i, j \in 1..n : q[i] = q[j] => i = j
  BY <1>4 DEF Orders
<1> HIDE DEF q
<1>6. q \in Seq(S) /\ Len(q) = n
  BY <1>1, <1>5
<1>7. q \in Surjection(1..n, S)
  <2>1. q \in Injection(1..n, S)
    BY <1>5 DEF Injection, IsInjective
  <2>2. Cardinality(1..n) = n
    <3>1. 1 \in Int /\ n \in Int /\ ~(1 > n) => n - 1 + 1 = n
      BY <1>1
    <3>2. Cardinality(1..n) = IF 1 > n THEN 0 ELSE n - 1 + 1
      <4>1. 1 \in Int /\ n \in Int
        BY <1>1
      <4>2. QED
        BY <4>1, FS_Interval
    <3>3. QED
      BY <1>1, <3>2
  <2>3. QED
    BY <2>1, <2>2, FS_Injection
<1>8. \A x \in S : \E i \in 1..n : q[i] = x
  BY <1>7 DEF Surjection
<1>9. QED
  BY <1>5, <1>6, <1>8 DEF Injective, Members, q

\* One list after another, with nothing in common.
LEMMA Concatenated ==
  ASSUME NEW S, NEW a \in Seq(S), NEW b \in Seq(S)
  PROVE  /\ a \o b \in Seq(S) /\ Members(a \o b) = Members(a) \cup Members(b)
         /\ Injective(a) /\ Injective(b) /\ Members(a) \cap Members(b) = {} => Injective(a \o b)
<1>1. /\ a \o b \in Seq(S) /\ Len(a \o b) = Len(a) + Len(b) /\ Len(a) \in Nat /\ Len(b) \in Nat
      /\ \A i \in 1..Len(a) + Len(b) : (a \o b)[i] = IF i <= Len(a) THEN a[i] ELSE b[i - Len(a)]
  OBVIOUS
<1> DEFINE c == a \o b
<1> HIDE DEF c
<1>2. \A i \in 1..Len(a) : i \in 1..Len(c) /\ c[i] = a[i]
  BY <1>1 DEF c
<1>3. \A i \in 1..Len(b) : i + Len(a) \in 1..Len(c) /\ c[i + Len(a)] = b[i]
  BY <1>1 DEF c
<1>4. \A i \in 1..Len(c) : \/ i \in 1..Len(a) /\ c[i] = a[i]
                           \/ i - Len(a) \in 1..Len(b) /\ c[i] = b[i - Len(a)]
  BY <1>1 DEF c
<1>5. Members(c) = Members(a) \cup Members(b)
  <2>1. ASSUME NEW x \in Members(c) PROVE x \in Members(a) \cup Members(b)
    <3>1. PICK i \in 1..Len(c) : x = c[i]
      BY DEF Members
    <3>2. QED
      BY <1>4, <3>1 DEF Members
  <2>2. ASSUME NEW x \in Members(a) PROVE x \in Members(c)
    <3>1. PICK i \in 1..Len(a) : x = a[i]
      BY DEF Members
    <3>2. QED
      BY <1>2, <3>1 DEF Members
  <2>3. ASSUME NEW x \in Members(b) PROVE x \in Members(c)
    <3>1. PICK i \in 1..Len(b) : x = b[i]
      BY DEF Members
    <3>2. QED
      BY <1>3, <3>1 DEF Members
  <2>4. QED
    BY <2>1, <2>2, <2>3
<1>6. ASSUME Injective(a), Injective(b), Members(a) \cap Members(b) = {},
             NEW i \in 1..Len(c), NEW j \in 1..Len(c), c[i] = c[j]
      PROVE  i = j
  <2>1. CASE i \in 1..Len(a) /\ j \in 1..Len(a)
    BY <1>2, <1>6, <2>1 DEF Injective
  <2>2. CASE ~(i \in 1..Len(a)) /\ ~(j \in 1..Len(a))
    <3>1. /\ i - Len(a) \in 1..Len(b) /\ c[i] = b[i - Len(a)]
          /\ j - Len(a) \in 1..Len(b) /\ c[j] = b[j - Len(a)]
      BY <1>4, <2>2
    <3>2. i - Len(a) = j - Len(a)
      BY <1>6, <3>1 DEF Injective
    <3>3. i \in Int /\ j \in Int
      OBVIOUS
    <3>4. QED
      BY <1>1, <3>2, <3>3
  <2>3. CASE i \in 1..Len(a) /\ ~(j \in 1..Len(a))
    <3>1. c[i] \in Members(a) /\ c[j] \in Members(b)
      BY <1>4, <1>2, <2>3 DEF Members
    <3>2. QED
      BY <1>6, <3>1
  <2>4. CASE ~(i \in 1..Len(a)) /\ j \in 1..Len(a)
    <3>1. c[j] \in Members(a) /\ c[i] \in Members(b)
      BY <1>4, <1>2, <2>4 DEF Members
    <3>2. QED
      BY <1>6, <3>1
  <2>5. QED
    BY <2>1, <2>2, <2>3, <2>4
<1>7. (Injective(a) /\ Injective(b) /\ Members(a) \cap Members(b) = {}) => Injective(c)
  BY <1>6 DEF Injective
<1>8. QED
  BY <1>1, <1>5, <1>7 DEF c

\* One document found keeps the list free of repetitions, adds the fact of the
\* document if it is stored, and otherwise only what is related to it.
LEMMA ListedSound ==
  ASSUME RAGInv, NEW list \in Seq(FactIds), NEW d \in Docs, NEW related \in BOOLEAN
  PROVE  LET f == doc_to_fact[d]
             new == Listed(list, d, related)
         IN  /\ new \in Seq(FactIds)
             /\ Injective(list) => Injective(new)
             /\ Members(list) \subseteq Members(new)
             /\ f \in Stored => f \in Members(new)
             /\ Members(new) \subseteq Members(list) \cup ({f} \cap Stored) \cup
                  (IF related /\ f # None THEN relationships[f] ELSE {})
<1> DEFINE f == doc_to_fact[d]
           new == Listed(list, d, related)
           own == IF f \in Stored THEN list \o <<f>> ELSE list
           more == IF related THEN (relationships[f] \cap Stored) \ Members(own) ELSE {}
<1>1. f \in FactIds \cup {None} /\ Stored \subseteq FactIds /\ None \notin FactIds
  BY NamesAssumption DEF RAGInv, Stored
<1>2. new = IF f = None \/ f \in Members(list) THEN list ELSE own \o InSomeOrder(more)
  BY DEF Listed
<1>3. CASE f = None \/ f \in Members(list)
  <2>1. new = list
    BY <1>2, <1>3
  <2>2. f \in Stored => f \in Members(list)
    BY <1>1, <1>3
  <2> HIDE DEF new, f
  <2>3. QED
    BY <2>1, <2>2 DEF new, f
<1>4. CASE ~(f = None \/ f \in Members(list))
  <2>1. f \in FactIds /\ f # None /\ f \notin Members(list)
    BY <1>1, <1>4
  <2>2. IsFiniteSet(more) /\ more \subseteq FactIds
    <3>1. more \subseteq Stored
      OBVIOUS
    <3>2. IsFiniteSet(Stored)
      BY DEF RAGInv
    <3> HIDE DEF more
    <3>3. QED
      BY <1>1, <3>1, <3>2, FS_Subset
  <2>3. /\ own \in Seq(FactIds) /\ Members(own) = Members(list) \cup ({f} \cap Stored)
        /\ Injective(list) => Injective(own)
    <3>1. CASE f \in Stored
      <4>1. own = list \o <<f>>
        BY <3>1
      <4>2. <<f>> \in Seq(FactIds) /\ Members(<<f>>) = {f} /\ Injective(<<f>>)
        BY <2>1 DEF Members, Injective
      <4> DEFINE one == <<f>>
      <4>3. one \in Seq(FactIds) /\ Members(one) = {f} /\ Injective(one) /\ own = list \o one
        BY <4>1, <4>2
      <4> HIDE DEF own, f, one
      <4>4. /\ list \o one \in Seq(FactIds)
            /\ Members(list \o one) = Members(list) \cup Members(one)
            /\ Injective(list) /\ Injective(one) /\ Members(list) \cap Members(one) = {}
                 => Injective(list \o one)
        BY <4>3, Concatenated
      <4>5. Members(list) \cap {f} = {} /\ {f} \cap Stored = {f}
        BY <2>1, <3>1
      <4>6. QED
        BY <4>3, <4>4, <4>5
    <3>2. CASE f \notin Stored
      BY <3>2
    <3>3. QED
      BY <3>1, <3>2
  <2> DEFINE rest == InSomeOrder(more)
  <2>4. rest \in Seq(FactIds) /\ Injective(rest) /\ Members(rest) = more
    <3>1. rest \in Seq(more) /\ Injective(rest) /\ Members(rest) = more
      BY <2>2, OrderExists
    <3>2. Seq(more) \subseteq Seq(FactIds)
      <4> HIDE DEF more
      <4>1. QED
        BY <2>2
    <3> HIDE DEF more, rest
    <3>3. QED
      BY <3>1, <3>2
  <2>5. new = own \o rest
    BY <1>2, <1>4
  <2>6. more \cap Members(own) = {} /\ more \subseteq (IF related /\ f # None THEN relationships[f] ELSE {})
    BY <2>1
  <2> HIDE DEF own, rest, more, f, new
  <2>7. /\ own \o rest \in Seq(FactIds) /\ Members(own \o rest) = Members(own) \cup Members(rest)
        /\ Injective(own) /\ Injective(rest) /\ Members(own) \cap Members(rest) = {}
             => Injective(own \o rest)
    BY <2>3, <2>4, Concatenated
  <2>8. /\ new \in Seq(FactIds)
        /\ Injective(list) => Injective(new)
        /\ Members(list) \subseteq Members(new)
        /\ f \in Stored => f \in Members(new)
        /\ Members(new) \subseteq Members(list) \cup ({f} \cap Stored) \cup
             (IF related /\ f # None THEN relationships[f] ELSE {})
    BY <2>3, <2>4, <2>5, <2>6, <2>7
  <2>9. QED
    BY <2>8 DEF new, f
<1>5. QED
  BY <1>3, <1>4

\* The function that Retrieved defines.
Retrieving(found, related) ==
  CHOOSE upto : upto = [i \in 0..Len(found) |->
    IF i = 0 THEN <<>> ELSE Listed(upto[i - 1], found[i], related)]

\* The list grows by one document found at a time.
LEMMA RetrievingSteps ==
  ASSUME RAGInv, NEW found \in Seq(Docs), NEW related \in BOOLEAN
  PROVE  /\ Retrieved(found, related) = Retrieving(found, related)[Len(found)]
         /\ Retrieving(found, related)[0] = <<>>
         /\ \A i \in 1..Len(found) : Retrieving(found, related)[i] =
              Listed(Retrieving(found, related)[i - 1], found[i], related)
<1> DEFINE n == Len(found)
           A == Seq(FactIds)
           h == [p \in (1..n) \X A |-> Listed(p[2], found[p[1]], related)]
           Is(g) == g = [i \in 0..n |-> IF i = 0 THEN <<>> ELSE Listed(g[i - 1], found[i], related)]
<1>1. n \in Nat /\ \A i \in 1..n : found[i] \in Docs
  OBVIOUS
<1>2. <<>> \in A
  OBVIOUS
<1>3. ASSUME NEW i \in 1..n, NEW list \in A PROVE Listed(list, found[i], related) \in A
  BY <1>1, ListedSound
<1> HIDE DEF A, n
<1>4. h \in StepsOn(n, A)
  BY <1>3 DEF StepsOn
<1>5. PICK g \in [0..n -> A] : Follows(g, n, <<>>, h)
  <2> HIDE DEF h
  <2>1. QED
    BY <1>1, <1>2, <1>4, Recursion
<1>6. ASSUME NEW i \in 0..n
      PROVE  g[i] = IF i = 0 THEN <<>> ELSE Listed(g[i - 1], found[i], related)
  <2>1. CASE i = 0
    BY <1>5, <2>1 DEF Follows
  <2>2. CASE i # 0
    <3>1. i \in 1..n /\ i - 1 \in 0..n
      BY <1>1, <2>2
    <3>2. <<i, g[i - 1]>> \in (1..n) \X A
      BY <1>5, <3>1
    <3>3. h[<<i, g[i - 1]>>] = Listed(g[i - 1], found[i], related)
      BY <3>2
    <3> HIDE DEF h
    <3>4. QED
      BY <1>5, <2>2, <3>1, <3>3 DEF Follows
  <2>3. QED
    BY <2>1, <2>2
<1>7. Is(g)
  <2>1. g = [i \in 0..n |-> g[i]]
    BY <1>5
  <2>2. QED
    BY <1>6, <2>1
<1>8. Retrieving(found, related) = CHOOSE g1 : Is(g1)
  BY DEF Retrieving, n
<1>9. Retrieved(found, related) = Retrieving(found, related)[n]
  BY DEF Retrieved, Retrieving, n
<1>10. Is(Retrieving(found, related))
  <2> HIDE DEF Is
  <2>1. QED
    BY <1>7, <1>8
<1> DEFINE r == Retrieving(found, related)
<1>11. \A i \in 0..n : r[i] = IF i = 0 THEN <<>> ELSE Listed(r[i - 1], found[i], related)
  BY <1>10
<1> HIDE DEF r
<1>12. r[0] = <<>> /\ \A i \in 1..n : r[i] = Listed(r[i - 1], found[i], related)
  BY <1>1, <1>11
<1>13. QED
  BY <1>9, <1>12 DEF r, n

\* What is retrieved, unless it raises.
LEMMA RetrievedSound ==
  ASSUME RAGInv, NEW found \in Seq(Docs), NEW related \in BOOLEAN, ~Raises(found, related)
  PROVE  LET list == Retrieved(found, related)
             hits == {doc_to_fact[found[i]] : i \in 1..Len(found)} \cap Stored
         IN  /\ Injective(list)
             /\ hits \subseteq Members(list)
             /\ Members(list) \subseteq
                  hits \cup (IF related THEN UNION {relationships[f] : f \in hits} ELSE {})
<1> DEFINE r == Retrieving(found, related)
           Hits(k) == {doc_to_fact[found[i]] : i \in 1..k} \cap Stored
           Near(k) == IF related THEN UNION {relationships[f] : f \in Hits(k)} ELSE {}
           Good(k) == /\ r[k] \in Seq(FactIds) /\ Injective(r[k])
                      /\ Hits(k) \subseteq Members(r[k])
                      /\ Members(r[k]) \subseteq Hits(k) \cup Near(k)
           S == {k \in Nat : k <= Len(found) => Good(k)}
<1>1. Len(found) \in Nat /\ \A i \in 1..Len(found) : found[i] \in Docs
  OBVIOUS
<1>2. /\ Retrieved(found, related) = r[Len(found)]
      /\ r[0] = <<>>
      /\ \A i \in 1..Len(found) : r[i] = Listed(r[i - 1], found[i], related)
  BY RetrievingSteps
<1>3. \A i \in 1..Len(found) : related => doc_to_fact[found[i]] \in Stored \cup {None}
  BY DEF Raises
<1> HIDE DEF r
<1>4. 0 \in S
  <2>1. <<>> \in Seq(FactIds) /\ Members(<<>>) = {} /\ Injective(<<>>)
    BY DEF Members, Injective
  <2>2. Hits(0) = {}
    OBVIOUS
  <2> HIDE DEF Hits, Near
  <2>3. QED
    BY <1>2, <2>1, <2>2
<1>5. ASSUME NEW k \in Nat, k \in S PROVE k + 1 \in S
  <2> SUFFICES ASSUME k + 1 <= Len(found) PROVE Good(k + 1)
    OBVIOUS
  <2>1. Good(k) /\ k + 1 \in 1..Len(found) /\ (k + 1) - 1 = k
    BY <1>1, <1>5
  <2> DEFINE d == found[k + 1]
             f == doc_to_fact[d]
  <2>2. d \in Docs /\ (related => f \in Stored \cup {None})
    BY <1>1, <1>3, <2>1
  <2>3. r[k + 1] = Listed(r[k], d, related)
    BY <1>2, <2>1
  <2>4. 1..k + 1 = (1..k) \cup {k + 1}
    BY <1>5
  <2>5. Hits(k + 1) = Hits(k) \cup ({f} \cap Stored)
    BY <2>4
  <2>6. f \in FactIds \cup {None} /\ Stored \subseteq FactIds /\ None \notin FactIds
    BY <2>2, NamesAssumption DEF RAGInv, Stored
  <2> HIDE DEF Hits, f, d
  <2>7. Near(k + 1) = Near(k) \cup (IF related /\ f \in Stored THEN relationships[f] ELSE {})
    BY <2>5
  <2>8. /\ r[k + 1] \in Seq(FactIds)
        /\ Injective(r[k + 1])
        /\ Members(r[k]) \subseteq Members(r[k + 1])
        /\ f \in Stored => f \in Members(r[k + 1])
        /\ Members(r[k + 1]) \subseteq Members(r[k]) \cup ({f} \cap Stored) \cup
             (IF related /\ f # None THEN relationships[f] ELSE {})
    <3>1. r[k] \in Seq(FactIds) /\ Injective(r[k])
      BY <2>1
    <3>2. QED
      BY <2>2, <2>3, <3>1, ListedSound DEF f
  <2>9. related /\ f # None => f \in Stored
    BY <2>2
  <2> HIDE DEF Near
  <2>10. QED
    BY <2>1, <2>5, <2>7, <2>8, <2>9
<1> HIDE DEF S
<1>6. Len(found) \in S
  BY <1>1, <1>4, <1>5, Induction
<1>7. Good(Len(found))
  BY <1>1, <1>6 DEF S
<1>8. QED
  BY <1>2, <1>7

\* Whatever a search finds, and in whatever order, the facts listed are stored
\* ones, each once: all those found and, if asked for, only what is related.
THEOREM AlwaysRetrievedOnce == RAGSpec => []RetrievedOnce
<1>1. RAGInv => RetrievedOnce
  <2> SUFFICES ASSUME RAGInv, NEW found \in FoundOrders, NEW related \in BOOLEAN,
                      ~Raises(found, related)
               PROVE  LET list == Retrieved(found, related)
                          hits == {doc_to_fact[found[i]] : i \in 1..Len(found)} \cap Stored
                      IN  /\ \A i, j \in 1..Len(list) : list[i] = list[j] => i = j
                          /\ hits \subseteq Members(list)
                          /\ Members(list) \subseteq hits \cup
                               (IF related THEN UNION {relationships[f] : f \in hits} ELSE {})
    BY DEF RetrievedOnce
  <2>1. PICK S \in SUBSET Searchable : found \in Orders(S)
    BY DEF FoundOrders
  <2>2. S \subseteq Holding /\ S \subseteq Docs
    BY DEF Searchable, Holding
  <2>3. Cardinality(S) \in Nat
    <3>1. IsFiniteSet(S)
      BY <2>2, FS_Subset DEF RAGInv
    <3>2. QED
      BY <3>1, FS_CardinalityType
  <2>4. found \in Seq(Docs)
    <3>1. found \in [1..Cardinality(S) -> S]
      BY <2>1 DEF Orders
    <3>2. QED
      BY <2>2, <2>3, <3>1
  <2>5. QED
    BY <2>4, RetrievedSound DEF Injective
<1>2. QED
  BY <1>1, RAGInvHolds, PTL

=============================================================================
