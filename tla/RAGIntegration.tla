--------------------------- MODULE RAGIntegration ---------------------------
(***************************************************************************)
(* day_50/rag_integration.py: a VectorStore keeps its documents twice, in  *)
(* a Chroma collection that searches them and in a dictionary (_documents) *)
(* that answers everything else; a RAGRetriever over it maps documents     *)
(* back to the facts of a FactStore, which goes on changing under them.    *)
(* The collection belongs to a Chroma client the caller may pass, so a     *)
(* later VectorStore can open one that has documents already.              *)
(*                                                                         *)
(* A document is the text it was made from: subject, predicate and object  *)
(* of a fact, or Prose.  Scores and metadata are left out: a search may    *)
(* return the documents it finds in any order.  Graph nodes are indexed    *)
(* and resolved like facts, by the same lines once more.                   *)
(***************************************************************************)
EXTENDS FactStore, Sequences, FiniteSets

CONSTANTS Names,    \* document ids a caller makes up
          Prose,    \* a text that is no fact's
          MaxBatch  \* bound: items of one add_batch

ASSUME ProseAssumption == Prose # None
ASSUME NamesAssumption == Names \cap FactIds = {} /\ None \notin FactIds

\* A fact's document id is "fact:" and its id: the id stands for it.
Docs == FactIds \cup Names

TextOf(f) == <<facts[f].subject, facts[f].predicate, facts[f].object>>
Texts == (Subjects \X Predicates \X Objects) \cup {Prose}

VARIABLES docs,         \* _documents: id -> text, or None
          collection,   \* the Chroma collection: id -> text, or None
          doc_to_fact,  \* _doc_to_fact: id -> fact id, or None
          excused       \* history: documents the two stores may differ on

mirror == <<docs, collection, doc_to_fact, excused>>

RAGTypeOK == /\ TypeOK
             /\ docs \in [Docs -> Texts \cup {None}]
             /\ collection \in [Docs -> Texts \cup {None}]
             /\ doc_to_fact \in [Docs -> FactIds \cup {None}]
             /\ excused \subseteq Docs

Nothing == [d \in Docs |-> None]

RAGInit == /\ Init
           /\ docs = Nothing /\ collection = Nothing /\ doc_to_fact = Nothing
           /\ excused = {}

-----------------------------------------------------------------------------
(* VectorStore.                                                            *)

\* Collection.add: an id that is there already keeps its document, and there
\* is no error.
ChromaAdded(items) ==
  [d \in Docs |-> IF collection[d] = None /\ d \in DOMAIN items THEN items[d]
                  ELSE collection[d]]

\* add refuses an id the dictionary has; one that only the collection has is
\* taken into the dictionary, with the new text.
AddDocument(d, text) ==
  /\ docs[d] = None
  /\ collection' = ChromaAdded([e \in {d} |-> text])
  /\ docs' = [docs EXCEPT ![d] = text]
  /\ excused' = IF collection[d] = None THEN excused ELSE excused \cup {d}

\* add_batch enters the items into the dictionary one by one until it meets an
\* id that is there: RAGError, with the items before it entered and none of
\* them in the collection.  The same happens when the collection fails.
NewIds(items, n) ==
  \A i \in 1..n : docs[items[i][1]] = None /\ \A j \in 1..i - 1 : items[j][1] # items[i][1]

EnterBatch(items, n) ==
  LET entered == {items[i][1] : i \in 1..n}
      text == [d \in entered |-> items[CHOOSE i \in 1..n : items[i][1] = d][2]]
  IN  /\ NewIds(items, n)
      /\ n < Len(items) => ~NewIds(items, n + 1)
      /\ docs' = [d \in Docs |-> IF d \in entered THEN text[d] ELSE docs[d]]
      /\ \/ /\ n = Len(items)
            /\ collection' = ChromaAdded(text)
            /\ excused' = excused \cup {d \in entered : collection[d] # None}
         \/ /\ UNCHANGED collection
            /\ excused' = excused \cup entered

AddBatch ==
  /\ \E m \in 1..MaxBatch :
       \E items \in [1..m -> Docs \X {Prose}], n \in 0..m : EnterBatch(items, n)
  /\ UNCHANGED <<vars, doc_to_fact>>

\* Seeded fault: the collection keeps the document.
DeleteFromMirror(d) ==
  /\ docs[d] # None
  /\ docs' = [docs EXCEPT ![d] = None]
  /\ UNCHANGED <<vars, collection, doc_to_fact, excused>>

\* delete forgets the document in both stores, in _doc_to_fact in neither.
DeleteDocument(d) ==
  /\ docs[d] # None
  /\ collection' = [collection EXCEPT ![d] = None]
  /\ docs' = [docs EXCEPT ![d] = None]
  /\ excused' = excused \ {d}
  /\ UNCHANGED <<vars, doc_to_fact>>

\* A new VectorStore and RAGRetriever over the collection of an earlier one.
Reopen ==
  /\ docs' = Nothing /\ doc_to_fact' = Nothing
  /\ excused' = {d \in Docs : collection[d] # None}
  /\ UNCHANGED <<vars, collection>>

\* What a search can return: the collection finds, the dictionary answers.
Searchable == {d \in Docs : docs[d] # None /\ collection[d] # None}

-----------------------------------------------------------------------------
(* RAGRetriever.                                                           *)

IndexFact(f) ==
  /\ f \in Stored
  /\ \E d \in {f} \cup Names :
        /\ AddDocument(d, TextOf(f))
        /\ doc_to_fact' = [doc_to_fact EXCEPT ![d] = f]
  /\ UNCHANGED vars

IndexText(d) ==
  /\ AddDocument(d, Prose)
  /\ UNCHANGED <<vars, doc_to_fact>>

\* The sequences of a set's members, each once, in the orders there are, and
\* what a sequence lists.
Orders(S) == {q \in [1..Cardinality(S) -> S] : \A i, j \in 1..Cardinality(S) :
                                                  q[i] = q[j] => i = j}
InSomeOrder(S) == CHOOSE q \in Orders(S) : TRUE
Members(list) == {list[i] : i \in 1..Len(list)}

\* Seeded fault: the facts already listed are not asked about.
ListedTwice(list, d, related) ==
  LET f == doc_to_fact[d]
      own == IF f \in Stored THEN list \o <<f>> ELSE list
      more == IF related THEN relationships[f] \cap Stored ELSE {}
  IN  IF f = None THEN list ELSE own \o InSomeOrder(more)

\* One document found: its fact, if it is still stored, then the facts related
\* to it, unless the fact has been listed already - as its neighbour's, say, in
\* which case its own neighbours are not listed.
Listed(list, d, related) ==
  LET f == doc_to_fact[d]
      own == IF f \in Stored THEN list \o <<f>> ELSE list
      more == IF related THEN (relationships[f] \cap Stored) \ Members(own) ELSE {}
  IN  IF f = None \/ f \in Members(list) THEN list ELSE own \o InSomeOrder(more)

\* With include_related a found fact that has been deleted is skipped by get and
\* then asked for its relations, which raises: retrieve returns nothing.
Raises(found, related) ==
  related /\ \E i \in 1..Len(found) : doc_to_fact[found[i]] \notin Stored \cup {None}

\* What retrieve returns otherwise, the documents being found in the order given.
Retrieved(found, related) ==
  LET upto[i \in 0..Len(found)] ==
        IF i = 0 THEN <<>> ELSE Listed(upto[i - 1], found[i], related)
  IN  upto[Len(found)]

-----------------------------------------------------------------------------
FactStep == Next /\ UNCHANGED mirror

RAGNext == \/ FactStep \/ AddBatch \/ Reopen
           \/ \E f \in FactIds : IndexFact(f)
           \/ \E d \in Docs : DeleteDocument(d)
           \/ \E d \in Names : IndexText(d)

RAGSpec == RAGInit /\ [][RAGNext]_<<vars, mirror>>

-----------------------------------------------------------------------------
(* Properties.                                                             *)

\* The dictionary and the collection hold the same documents with the same
\* texts, except those that a failed batch left half-way or that another store
\* had put into the collection before.
StoresAgree == \A d \in Docs \ excused : docs[d] = collection[d]

FoundOrders == UNION {Orders(S) : S \in SUBSET Searchable}

\* Whatever a search finds, and in whatever order, the facts listed are stored
\* ones, each once: every found fact that still exists and, with
\* include_related, nothing but facts related to those - unless it raises.
RetrievedOnce ==
  \A found \in FoundOrders, related \in BOOLEAN :
    ~Raises(found, related) =>
    LET list == Retrieved(found, related)
        hits == {doc_to_fact[found[i]] : i \in 1..Len(found)} \cap Stored
    IN  /\ \A i, j \in 1..Len(list) : list[i] = list[j] => i = j
        /\ hits \subseteq Members(list)
        /\ Members(list) \subseteq
             hits \cup (IF related THEN UNION {relationships[f] : f \in hits} ELSE {})

=============================================================================
