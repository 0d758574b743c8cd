--------------------------- MODULE RAGSystemProofs ---------------------------
(***************************************************************************)
(* What RAGSystem retrieves from, what it reports and what it counts, for  *)
(* any number of items, documents, queries and processes, and collections  *)
(* made and deleted any number of times; and what the embedding cache      *)
(* beside it answers, for any texts, sizes, batches and processes.         *)
(***************************************************************************)
EXTENDS RAGSystem, EmbeddingCache, DataLemmas

Types == /\ made \in Nat /\ live \in {0, made}
         /\ docs \in [DocIds -> Texts \cup {None}]
         /\ handle \in [Stores -> 0..made]
         /\ table \in [Sources -> Texts \cup {None}]
         /\ report \in [indexed : Nat, errors : Nat]

\* A pass goes over items that are there; it is over when none is left; none
\* that is left has been counted.
PassSound == /\ phase # "indexing" => todo = {}
             /\ todo \subseteq passed /\ passed \subseteq Sources
             /\ counted \subseteq passed \ todo
             /\ \A i \in todo : table[i] # None

Inv == /\ Types /\ PassSound
       /\ OutdatedOnlyWithCause /\ StaleHandleOnlyByOthers
       /\ ReportIsTrue

LEMMA InitInv == Init => Inv
<1> SUFFICES ASSUME Init PROVE Inv
  OBVIOUS
<1>1. Types /\ PassSound /\ OutdatedOnlyWithCause /\ StaleHandleOnlyByOthers
  BY RAGAssumption DEF Init, VectorInit, Empty, Types, PassSound, OutdatedOnlyWithCause,
                       StaleHandleOnlyByOthers
<1>2. ReportIsTrue
  BY FS_EmptySet DEF Init, ReportIsTrue
<1>3. QED
  BY <1>1, <1>2 DEF Inv

\* What an operation of a vector store does to it, whichever it is.
LEMMA StoreSteps ==
  ASSUME Types, StaleHandleOnlyByOthers, NEW s \in Stores,
         \/ StoreStep(s)
         \/ \E items : AddDocuments(s, items) /\ \A d \in DOMAIN items : items[d] \in Texts
         \/ CreateCollection(s)
         \/ Through(s, docs)
  PROVE  /\ made' \in Nat /\ live' \in {0, made'}
         /\ docs' \in [DocIds -> Texts \cup {None}]
         /\ handle' \in [Stores -> 0..made']
         /\ StaleHandleOnlyByOthers'
<1>1. CASE CreateCollection(s)
  BY <1>1 DEF CreateCollection, Types, StaleHandleOnlyByOthers
<1>2. CASE GetCollection(s)
  BY <1>2 DEF GetCollection, Types, StaleHandleOnlyByOthers
<1>3. CASE DeleteCollection(s)
  BY <1>3 DEF DeleteCollection, Empty, Types, StaleHandleOnlyByOthers
<1>4. CASE Close(s)
  BY <1>4 DEF Close, Types, StaleHandleOnlyByOthers
<1>5. ASSUME NEW contents \in [DocIds -> Texts \cup {None}], Through(s, contents)
      PROVE  /\ made' \in Nat /\ live' \in {0, made'}
             /\ docs' \in [DocIds -> Texts \cup {None}]
             /\ handle' \in [Stores -> 0..made']
             /\ StaleHandleOnlyByOthers'
  BY <1>5 DEF Through, Works, Types, StaleHandleOnlyByOthers
<1>6. ASSUME NEW items, AddDocuments(s, items), \A d \in DOMAIN items : items[d] \in Texts
      PROVE  ChromaAdded(items) \in [DocIds -> Texts \cup {None}] /\ Through(s, ChromaAdded(items))
  BY <1>6 DEF AddDocuments, ChromaAdded, Types
<1>7. ASSUME NEW items \in Batches, AddDocuments(s, items)
      PROVE  \A d \in DOMAIN items : items[d] \in Texts
  BY <1>7 DEF Batches
<1>8. ASSUME NEW d \in DocIds, NEW text \in Texts, UpdateDocument(s, d, text)
      PROVE  /\ ChromaUpdated(d, text) \in [DocIds -> Texts \cup {None}]
             /\ Through(s, ChromaUpdated(d, text))
  BY <1>8 DEF UpdateDocument, ChromaUpdated, Types
<1>9. ASSUME NEW d \in DocIds, DeleteDocument(s, d)
      PROVE  LET kept == [docs EXCEPT ![d] = None]
             IN  kept \in [DocIds -> Texts \cup {None}] /\ Through(s, kept)
  BY <1>9 DEF DeleteDocument, Types
<1>10. docs \in [DocIds -> Texts \cup {None}]
  BY DEF Types
<1>11. QED
  BY <1>1, <1>2, <1>3, <1>4, <1>5, <1>6, <1>7, <1>8, <1>9, <1>10 DEF StoreStep

\* Whatever RAGSystem adds leaves the documents that are there as they are.
LEMMA AddingKeeps ==
  ASSUME NEW s, NEW items, AddDocuments(s, items), Types
  PROVE  /\ \A d \in DocIds : docs[d] # None => docs'[d] = docs[d]
         /\ \A d \in DocIds \ DOMAIN items : docs'[d] = docs[d]
         /\ \A d \in DOMAIN items \cap DocIds : docs[d] = None => docs'[d] = items[d]
BY DEF AddDocuments, Through, ChromaAdded, Types

\* The parts of the invariant that a step leaves alone when it changes nothing
\* but queries, statistics and handles.
LEMMA Quiet ==
  ASSUME Inv, UNCHANGED <<docs, table, todo, report, counted, passed, taken, altered>>
  PROVE  /\ phase' = phase \/ (phase' # "indexing" /\ phase # "indexing") => PassSound'
         /\ OutdatedOnlyWithCause' /\ ReportIsTrue'
BY DEF Inv, PassSound, OutdatedOnlyWithCause, ReportIsTrue

LEMMA TakeCreate == ASSUME Inv, Take \/ Create PROVE Inv'
<1>1. UNCHANGED <<docs, table, todo, report, counted, passed, taken, altered>>
  BY DEF Take, Create, CreateCollection, store, past
<1>2. phase' # "indexing" /\ phase # "indexing"
  BY DEF Take, Create
<1>3. Types' /\ StaleHandleOnlyByOthers'
  <2>1. CASE CreateCollection(Own)
    BY <1>1, <2>1, StoreSteps, RAGAssumption DEF Inv, Types
  <2>2. CASE UNCHANGED store
    BY <1>1, <2>2 DEF store, Inv, Types, StaleHandleOnlyByOthers
  <2>3. CASE Take
    BY <1>1, <2>3, RAGAssumption DEF Take, Handle, Inv, Types, StaleHandleOnlyByOthers
  <2>4. QED
    BY <2>1, <2>2, <2>3 DEF Create
<1>4. QED
  BY <1>1, <1>2, <1>3, Quiet DEF Inv

\* Items change between passes; each change is noted.
LEMMA SourceChanges == ASSUME Inv, ChangeSource PROVE Inv'
<1>1. PICK i \in Sources : /\ \/ \E c \in Texts : Items!Put(i, c, {}) \/ Items!Change(i, c)
                              \/ Items!Remove(i)
                           /\ altered' = altered \cup {i}
  BY DEF ChangeSource
<1>2. \E c \in Texts \cup {None} : table' = [table EXCEPT ![i] = c]
  BY <1>1 DEF Items!Put, Items!Change, Items!Remove
<1>3. /\ phase = "idle" /\ UNCHANGED <<store, phase, todo, report, counted, passed, taken>>
  BY DEF ChangeSource, rag
<1>4. Types' /\ \A j \in Sources \ {i} : table'[j] = table[j]
  BY <1>2, <1>3 DEF Inv, Types, store
<1>5. todo = {}
  BY <1>3 DEF Inv, PassSound
<1>6. PassSound' /\ ReportIsTrue' /\ StaleHandleOnlyByOthers'
  BY <1>3, <1>5 DEF Inv, PassSound, ReportIsTrue, StaleHandleOnlyByOthers, store
<1>7. OutdatedOnlyWithCause'
  BY <1>1, <1>3, <1>4 DEF Inv, OutdatedOnlyWithCause, store
<1>8. QED
  BY <1>4, <1>6, <1>7 DEF Inv

LEMMA CallersDocument == ASSUME Inv, IndexDocument PROVE Inv'
<1>1. PICK d \in DocIds \ Sources, text \in Texts : AddDocuments(Own, [e \in {d} |-> text])
  BY DEF IndexDocument
<1>2. UNCHANGED <<table, phase, todo, report, counted, passed, taken, altered>>
  BY DEF IndexDocument, rag, past
<1>4. Types' /\ StaleHandleOnlyByOthers'
  BY <1>1, <1>2, StoreSteps, RAGAssumption DEF Inv, Types
<1>5. \A e \in DocIds \ {d} : docs'[e] = docs[e]
  BY <1>1, AddingKeeps DEF Inv
<1>6. \A e \in DocIds : docs[e] # None => docs'[e] = docs[e]
  BY <1>1, AddingKeeps DEF Inv
<1>7. PassSound'
  BY <1>2 DEF Inv, PassSound
<1>8. OutdatedOnlyWithCause'
  BY <1>2, <1>5, RAGAssumption DEF Inv, OutdatedOnlyWithCause
<1>9. ReportIsTrue'
  BY <1>2, <1>6, RAGAssumption DEF Inv, PassSound, ReportIsTrue
<1>10. QED
  BY <1>4, <1>7, <1>8, <1>9 DEF Inv

LEMMA PassBegins == ASSUME Inv, IsFiniteSet(Sources), IndexKnowledgeBase PROVE Inv'
<1>1. /\ UNCHANGED <<store, table, altered>> /\ phase' = "indexing"
      /\ todo' = Items!Present /\ passed' = Items!Present /\ counted' = {} /\ taken' = {}
      /\ report' = [indexed |-> 0, errors |-> 0]
  BY DEF IndexKnowledgeBase
<1>2. Types' /\ PassSound' /\ OutdatedOnlyWithCause' /\ StaleHandleOnlyByOthers'
  BY <1>1 DEF Inv, Types, PassSound, OutdatedOnlyWithCause, StaleHandleOnlyByOthers, store,
              Items!Present
<1>3. ReportIsTrue'
  <2>1. Cardinality(counted') = 0
    BY <1>1, FS_EmptySet
  <2>2. report'.indexed = 0 /\ report'.errors = 0
    BY <1>1
  <2>3. Cardinality(todo') \in Nat /\ Cardinality(todo') = Cardinality(passed')
    BY <1>1, FS_CardinalityType, FS_Subset DEF Items!Present
  <2>4. QED
    BY <1>1, <2>1, <2>2, <2>3 DEF ReportIsTrue
<1>4. QED
  BY <1>2, <1>3 DEF Inv

\* An item of the pass is counted with its document, or as an error.
LEMMA PassGoesOn == ASSUME Inv, IsFiniteSet(Sources), IndexNext PROVE Inv'
<1>1. PICK i \in todo : (Index(i) \/ IndexFails(i)) /\ Onward(i)
  BY DEF IndexNext
<1>2. /\ UNCHANGED <<table, passed, taken>> /\ phase = "indexing" /\ todo' = todo \ {i}
      /\ phase' = IF todo = {i} THEN "idle" ELSE "indexing"
  BY <1>1 DEF IndexNext, Onward
<1>3. /\ i \in Sources /\ table[i] \in Texts /\ i \notin counted
      /\ IsFiniteSet(todo) /\ IsFiniteSet(counted)
  <2>1. /\ i \in Sources /\ table[i] \in Texts /\ i \notin counted
        /\ todo \subseteq Sources /\ counted \subseteq Sources
    BY DEF Inv, Types, PassSound
  <2>2. QED
    BY <2>1, FS_Subset
<1>4. /\ Cardinality(todo) \in Nat \ {0} /\ Cardinality(todo') = Cardinality(todo) - 1
      /\ Cardinality(counted) \in Nat /\ Cardinality(counted \cup {i}) = Cardinality(counted) + 1
  BY <1>2, <1>3, FS_RemoveElement, FS_AddElement, FS_CardinalityType, FS_EmptySet
<1>5. CASE Index(i)
  <2> DEFINE item == [e \in {i} |-> table[i]]
  <2>1. /\ AddDocuments(Own, item) /\ counted' = counted \cup {i}
        /\ altered' = IF docs[i] = None THEN altered \ {i} ELSE altered
        /\ report' = [report EXCEPT !.indexed = @ + 1]
    BY <1>5 DEF Index, TextOf
  <2>2. report'.indexed = report.indexed + 1 /\ report'.errors = report.errors
        /\ report' \in [indexed : Nat, errors : Nat]
    BY <2>1 DEF Inv, Types
  <2>3. Types' /\ StaleHandleOnlyByOthers'
    BY <1>2, <1>3, <2>1, <2>2, StoreSteps, RAGAssumption DEF Inv, Types
  <2>4. /\ \A d \in DocIds : docs[d] # None => docs'[d] = docs[d]
        /\ \A d \in DocIds \ {i} : docs'[d] = docs[d]
        /\ docs[i] = None => docs'[i] = table[i]
    BY <1>3, <2>1, AddingKeeps, RAGAssumption DEF Inv
  <2>5. PassSound'
    BY <1>2, <1>3, <2>1 DEF Inv, PassSound
  <2>6. OutdatedOnlyWithCause'
    BY <1>2, <1>3, <2>1, <2>4, RAGAssumption DEF Inv, OutdatedOnlyWithCause
  <2>7. \A j \in counted' : docs'[j] # None \/ j \in taken'
    BY <1>2, <1>3, <2>1, <2>4, RAGAssumption DEF Inv, PassSound, ReportIsTrue
  <2>8. ReportIsTrue'
    BY <1>2, <1>4, <2>1, <2>2, <2>7 DEF Inv, Types, ReportIsTrue
  <2>9. QED
    BY <2>3, <2>5, <2>6, <2>8 DEF Inv
<1>6. CASE IndexFails(i)
  <2>1. /\ UNCHANGED <<counted, altered>> /\ report' = [report EXCEPT !.errors = @ + 1]
        /\ UNCHANGED store \/ Through(Own, docs)
    BY <1>6 DEF IndexFails
  <2>2. /\ docs' = docs /\ UNCHANGED <<live, made, bereft>>
        /\ handle' = handle \/ handle' = [handle EXCEPT ![Own] = live]
    BY <2>1 DEF store, Through
  <2>3. report'.indexed = report.indexed /\ report'.errors = report.errors + 1
        /\ report' \in [indexed : Nat, errors : Nat]
    BY <2>1 DEF Inv, Types
  <2>4. Types'
    BY <1>2, <2>2, <2>1, <2>3, RAGAssumption DEF Inv, Types
  <2>5. PassSound' /\ OutdatedOnlyWithCause'
    BY <1>2, <2>2, <2>1 DEF Inv, PassSound, OutdatedOnlyWithCause
  <2>6. StaleHandleOnlyByOthers'
    BY <2>2, RAGAssumption DEF Inv, Types, StaleHandleOnlyByOthers
  <2>7. ReportIsTrue'
    BY <1>2, <1>4, <2>2, <2>1, <2>3 DEF Inv, Types, ReportIsTrue
  <2>8. QED
    BY <2>4, <2>5, <2>6, <2>7 DEF Inv
<1>7. QED
  BY <1>1, <1>5, <1>6

\* Queries take nothing but a handle.
LEMMA QueriesOnlyRead ==
  ASSUME Inv, Query \/ Embed \/ Retrieve \/ Generate \/ Respond \/ QueryFails \/ ClearStats
  PROVE  Inv'
<1>1. /\ UNCHANGED <<docs, table, todo, report, counted, passed, taken, altered>>
      /\ phase' # "indexing" /\ phase # "indexing"
  BY DEF Query, Embed, Retrieve, Generate, Respond, QueryFails, Fails, Querying, ClearStats,
         Through, store, past
<1>2. Types' /\ StaleHandleOnlyByOthers'
  <2>1. CASE Retrieve
    BY <1>1, <2>1, StoreSteps, RAGAssumption DEF Retrieve, Inv, Types
  <2>2. CASE ~Retrieve
    <3>1. UNCHANGED store
      BY <2>2 DEF Query, Embed, Generate, Respond, QueryFails, Fails, ClearStats
    <3>2. QED
      BY <1>1, <3>1 DEF store, Inv, Types, StaleHandleOnlyByOthers
  <2>3. QED
    BY <2>1, <2>2
<1>3. QED
  BY <1>1, <1>2, Quiet DEF Inv

\* What others do to the collection is noted, document by document.
LEMMA OthersNoted == ASSUME Inv, OtherStep PROVE Inv'
<1>1. PICK s \in Stores : StoreStep(s)
  BY DEF OtherStep
<1>2. /\ UNCHANGED <<table, phase, todo, report, counted, passed>>
      /\ taken' = taken \cup {d \in DocIds : docs[d] # None /\ docs'[d] = None}
      /\ altered' = altered \cup {d \in DocIds : docs'[d] \notin {None, docs[d]}}
  BY DEF OtherStep, rag
<1>3. Types' /\ StaleHandleOnlyByOthers'
  BY <1>1, <1>2, StoreSteps DEF Inv, Types
<1>4. PassSound'
  BY <1>2 DEF Inv, PassSound
<1>5. OutdatedOnlyWithCause'
  BY <1>2, RAGAssumption DEF Inv, OutdatedOnlyWithCause
<1>6. ReportIsTrue'
  BY <1>2, RAGAssumption DEF Inv, PassSound, ReportIsTrue
<1>7. QED
  BY <1>3, <1>4, <1>5, <1>6 DEF Inv

LEMMA NextInv == ASSUME Inv, IsFiniteSet(Sources), [Next]_vars PROVE Inv'
<1>1. CASE UNCHANGED vars
  BY <1>1 DEF vars, store, rag, past, Inv, Types, PassSound, OutdatedOnlyWithCause,
              StaleHandleOnlyByOthers, ReportIsTrue
<1>2. QED
  BY <1>1, TakeCreate, SourceChanges, CallersDocument, PassBegins, PassGoesOn, QueriesOnlyRead,
     OthersNoted DEF Next

\* A document that differs from its item was outrun by a change, and a handle
\* of a collection that is gone was left behind by another store.
THEOREM IndexAlwaysSound ==
  ASSUME IsFiniteSet(Sources)
  PROVE  Spec => []IndexSound
<1>1. Init => Inv
  BY InitInv
<1>2. Inv /\ [Next]_vars => Inv'
  BY NextInv
<1>3. Inv => IndexSound
  BY DEF Inv, IndexSound
<1>4. QED
  BY <1>1, <1>2, <1>3, PTL DEF Spec

\* The report of a pass adds up at every point of it and names documents that
\* were there, whatever failed or was deleted meanwhile.
THEOREM ReportAlwaysTrue ==
  ASSUME IsFiniteSet(Sources)
  PROVE  Spec => []ReportIsTrue
<1>1. Init => Inv
  BY InitInv
<1>2. Inv /\ [Next]_vars => Inv'
  BY NextInv
<1>3. Inv => ReportIsTrue
  BY DEF Inv
<1>4. QED
  BY <1>1, <1>2, <1>3, PTL DEF Spec

-----------------------------------------------------------------------------
(* The statistics of the queries.                                          *)

StatsInv ==
  /\ stats \in [total : Nat, successful : Nat, failed : Nat, average : Nat \X (Nat \ {0})]
  /\ sizes \in Seq(Nat) /\ found \in Nat
  /\ told \in [success : Nat, failure : Nat, late : Nat]
  /\ QueriesAccounted /\ AverageInRange

\* The mean of numbers that are no more than m is no more than m.
LEMMA Mean ==
  ASSUME NEW a \in Nat, NEW d \in Nat, NEW n \in Nat, NEW m \in Nat, NEW s \in Nat \ {0},
         a <= m * d, n <= m
  PROVE  a * (s - 1) + n * d <= m * (d * s)
<1>1. a * (s - 1) <= (m * d) * (s - 1)
  BY Times
<1>2. n * d <= m * d
  BY Times
<1>3. (m * d) * (s - 1) + m * d = m * (d * s)
  OBVIOUS
<1>4. a * (s - 1) \in Nat /\ (m * d) * (s - 1) \in Nat /\ n * d \in Nat /\ m * d \in Nat
  OBVIOUS
<1>5. QED
  BY <1>1, <1>2, <1>3, <1>4

\* One more success with n documents.
LEMMA AverageSound ==
  ASSUME StatsInv, NEW s \in Nat \ {0}, found > 0,
         NEW average, average = Average(stats.average, found, s)
  PROVE  /\ average \in Nat \X (Nat \ {0}) /\ average[1] > 0
         /\ \E i \in 1..Len(Append(sizes, found)) : average[1] <= Append(sizes, found)[i] * average[2]
<1> DEFINE a == stats.average[1]
           d == stats.average[2]
           all == Append(sizes, found)
<1>1. a \in Nat /\ d \in Nat \ {0} /\ sizes \in Seq(Nat) /\ found \in Nat
  BY DEF StatsInv
<1>2. average = <<a * (s - 1) + found * d, d * s>>
  BY DEF Average
<1>3. /\ all \in Seq(Nat) /\ Len(all) = Len(sizes) + 1 /\ Len(sizes) \in Nat
      /\ all[Len(sizes) + 1] = found /\ \A i \in 1..Len(sizes) : all[i] = sizes[i]
  BY <1>1
<1>4. a = 0 \/ \E i \in 1..Len(sizes) : a <= sizes[i] * d
  BY <1>1 DEF StatsInv, AverageInRange
<1> HIDE DEF a, d, all
<1>5. a * (s - 1) \in Nat /\ found * d \in Nat \ {0} /\ d * s \in Nat \ {0}
  <2>1. s - 1 \in Nat /\ found \in Nat \ {0}
    BY <1>1
  <2>2. \A x, y \in Nat : x * y \in Nat
    OBVIOUS
  <2>3. \A x, y \in Nat \ {0} : x * y \in Nat \ {0}
    OBVIOUS
  <2>4. QED
    BY <1>1, <2>1, <2>2, <2>3
<1>6. \E m \in Nat : a <= m * d /\ found <= m /\ \E i \in 1..Len(all) : all[i] = m
  <2>1. CASE a = 0
    <3>1. found * d \in Nat /\ Len(sizes) + 1 \in 1..Len(all)
      BY <1>1, <1>3, <1>5
    <3>2. QED
      BY <1>1, <1>3, <2>1, <3>1
  <2>2. CASE a # 0
    <3>1. PICK i \in 1..Len(sizes) : a <= sizes[i] * d
      BY <1>4, <2>2
    <3>2. sizes[i] \in Nat
      BY <1>1
    <3>3. CASE found <= sizes[i]
      BY <1>3, <3>1, <3>2, <3>3
    <3>4. CASE ~(found <= sizes[i])
      <4>1. sizes[i] * d <= found * d
        BY <1>1, <3>2, <3>4, Times
      <4>2. sizes[i] * d \in Nat /\ found * d \in Nat
        BY <1>1, <1>5, <3>2
      <4> DEFINE p == sizes[i] * d
                 q == found * d
      <4> HIDE DEF p, q
      <4>3. a <= q
        <5>1. a <= p /\ p <= q
          BY <3>1, <4>1 DEF p, q
        <5>2. p \in Nat /\ q \in Nat /\ a \in Nat
          BY <1>1, <4>2 DEF p, q
        <5>3. QED
          BY <5>1, <5>2
      <4>4. a <= found * d /\ Len(sizes) + 1 \in 1..Len(all)
        BY <1>3, <4>3 DEF q
      <4>5. \E i0 \in 1..Len(all) : all[i0] = found
        BY <1>3, <4>4
      <4>6. found \in Nat /\ found <= found
        BY <1>1
      <4> HIDE DEF p, q
      <4>7. QED
        BY <4>4, <4>5, <4>6
    <3>5. QED
      BY <3>3, <3>4
  <2>3. QED
    BY <2>1, <2>2
<1>7. PICK m \in Nat : a <= m * d /\ found <= m /\ \E i \in 1..Len(all) : all[i] = m
  BY <1>6
<1>8. a * (s - 1) + found * d <= m * (d * s)
  BY <1>1, <1>7, Mean
<1>9. QED
  BY <1>2, <1>5, <1>7, <1>8 DEF all

\* Every query ends in one of the two counts, and the average stays in range.
LEMMA StatsNext == StatsInv /\ [Next]_vars => StatsInv'
<1> SUFFICES ASSUME StatsInv, [Next]_vars PROVE StatsInv'
  OBVIOUS
<1>1. ASSUME UNCHANGED <<stats, sizes, told>>, found' \in Nat,
             phase \in Querying <=> phase' \in Querying, phase = "respond" <=> phase' = "respond"
      PROVE  StatsInv'
  BY <1>1 DEF StatsInv, QueriesAccounted, AverageInRange
<1>2. CASE Query
  <2>1. /\ stats' = [stats EXCEPT !.total = @ + 1] /\ UNCHANGED <<found, sizes, told>>
        /\ phase = "idle" /\ phase' = "embed"
    BY <1>2 DEF Query, past
  <2> DEFINE D == Nat \X (Nat \ {0})
  <2> HIDE DEF D
  <2>a. stats \in [total : Nat, successful : Nat, failed : Nat, average : D]
    BY DEF StatsInv, D
  <2>b. /\ stats' \in [total : Nat, successful : Nat, failed : Nat, average : D]
        /\ stats'.total = stats.total + 1 /\ stats'.successful = stats.successful
        /\ stats'.failed = stats.failed /\ stats'.average = stats.average
    BY <2>1, <2>a
  <2>2. /\ stats' \in [total : Nat, successful : Nat, failed : Nat, average : Nat \X (Nat \ {0})]
        /\ stats'.total = stats.total + 1 /\ stats'.successful = stats.successful
        /\ stats'.failed = stats.failed /\ stats'.average = stats.average
    BY <2>b DEF D
  <2>3. QED
    BY <2>1, <2>2 DEF StatsInv, QueriesAccounted, AverageInRange, Querying
<1>3. CASE QueryFails
  <2>1. /\ stats' = [stats EXCEPT !.failed = @ + 1] /\ found' = 0 /\ sizes' = sizes
        /\ phase \in Querying /\ phase' = "idle"
    BY <1>3 DEF QueryFails, Fails
  <2> DEFINE D == Nat \X (Nat \ {0})
  <2> HIDE DEF D
  <2>a. stats \in [total : Nat, successful : Nat, failed : Nat, average : D]
    BY DEF StatsInv, D
  <2>b. /\ stats' \in [total : Nat, successful : Nat, failed : Nat, average : D]
        /\ stats'.total = stats.total /\ stats'.successful = stats.successful
        /\ stats'.failed = stats.failed + 1 /\ stats'.average = stats.average
    BY <2>1, <2>a
  <2>2. /\ stats' \in [total : Nat, successful : Nat, failed : Nat, average : Nat \X (Nat \ {0})]
        /\ stats'.total = stats.total /\ stats'.successful = stats.successful
        /\ stats'.failed = stats.failed + 1 /\ stats'.average = stats.average
    BY <2>b DEF D
  <2>3. /\ told' \in [success : Nat, failure : Nat, late : Nat]
        /\ told'.success = told.success /\ told'.failure = told.failure + 1
        /\ told'.late = told.late + (IF phase = "respond" THEN 1 ELSE 0)
    <3>1. told \in [success : Nat, failure : Nat, late : Nat]
      BY DEF StatsInv
    <3> DEFINE n == IF phase = "respond" THEN 1 ELSE 0
    <3>2. told' = [told EXCEPT !.failure = @ + 1, !.late = @ + n] /\ n \in Nat
      BY <1>3 DEF QueryFails, Fails, TellFailure
    <3> HIDE DEF n
    <3>3. /\ told' \in [success : Nat, failure : Nat, late : Nat]
          /\ told'.success = told.success /\ told'.failure = told.failure + 1
          /\ told'.late = told.late + n
      <4>1. /\ told = [success |-> told.success, failure |-> told.failure, late |-> told.late]
            /\ told.success \in Nat /\ told.failure \in Nat /\ told.late \in Nat
        BY <3>1
      <4>2. told' = [success |-> told.success, failure |-> told.failure + 1, late |-> told.late + n]
        BY <3>2, <4>1
      <4>3. QED
        BY <3>2, <4>1, <4>2
    <3>4. QED
      BY <3>3 DEF n
  <2>4. AverageInRange'
    BY <2>1, <2>2 DEF StatsInv, AverageInRange
  <2>5. QueriesAccounted'
    <3>1. phase' # "respond" /\ phase' \notin Querying
      BY <2>1 DEF Querying
    <3>2. /\ stats.total \in Nat /\ stats.failed \in Nat /\ stats.successful \in Nat
          /\ told.success \in Nat /\ told.failure \in Nat /\ told.late \in Nat
      BY DEF StatsInv
    <3>3. stats'.total = told'.success + told'.failure /\ stats'.failed = told'.failure
      BY SMTT(30), <2>1, <2>2, <2>3, <3>2 DEF StatsInv, QueriesAccounted
    <3>4. stats'.successful = told'.success + told'.late /\ told'.late <= told'.failure
      <4>1. CASE phase = "respond"
        <5>1. stats.successful = told.success + told.late + 1 /\ told.late <= told.failure
          BY <4>1 DEF StatsInv, QueriesAccounted
        <5>2. QED
          BY <2>2, <2>3, <3>2, <4>1, <5>1
      <4>2. CASE phase # "respond"
        <5>1. stats.successful = told.success + told.late /\ told.late <= told.failure
          BY <3>2, <4>2 DEF StatsInv, QueriesAccounted
        <5>2. QED
          BY <2>2, <2>3, <3>2, <4>2, <5>1
      <4>3. QED
        BY <4>1, <4>2
    <3>5. QED
      BY <3>1, <3>2, <3>3, <3>4, <2>2, <2>3 DEF QueriesAccounted
  <2>6. QED
    BY <2>1, <2>2, <2>3, <2>4, <2>5 DEF StatsInv
<1>4. CASE ClearStats
  <2>1. phase = "idle" /\ phase' = "idle" /\ stats' = NoStats /\ sizes' = <<>> /\ found' = found
        /\ told' = NothingTold
    BY <1>4 DEF ClearStats
  <2>2. QED
    BY SMTT(30), <2>1 DEF StatsInv, QueriesAccounted, AverageInRange, Querying, NoStats, NothingTold
<1>5. CASE Generate
  <2> DEFINE done == stats.successful + 1
             average == IF found > 0 THEN Average(stats.average, found, done) ELSE stats.average
  <2>1. /\ phase = "generate" /\ phase' = "respond" /\ found' = 0 /\ sizes' = Append(sizes, found)
        /\ told' = told
        /\ stats' = [stats EXCEPT !.successful = done, !.average = average]
    BY <1>5 DEF Generate
  <2>2. /\ done \in Nat \ {0} /\ found \in Nat /\ sizes \in Seq(Nat) /\ stats.average \in Nat \X (Nat \ {0})
    BY DEF StatsInv
  <2>3. /\ sizes' \in Seq(Nat) /\ Len(sizes') = Len(sizes) + 1 /\ Len(sizes) \in Nat
        /\ sizes'[Len(sizes) + 1] = found /\ \A i \in 1..Len(sizes) : sizes'[i] = sizes[i]
    BY <2>1, <2>2
  <2>4. /\ average \in Nat \X (Nat \ {0})
        /\ average[1] > 0 <=> \E i \in 1..Len(sizes') : sizes'[i] > 0
        /\ average[1] > 0 => \E i \in 1..Len(sizes') : average[1] <= sizes'[i] * average[2]
    <3>1. CASE found > 0
      <4>1. /\ average \in Nat \X (Nat \ {0}) /\ average[1] > 0
            /\ \E i \in 1..Len(sizes') : average[1] <= sizes'[i] * average[2]
        BY <2>1, <2>2, <3>1, AverageSound
      <4>2. Len(sizes) + 1 \in 1..Len(sizes')
        BY <2>3
      <4>3. QED
        BY <2>3, <3>1, <4>1, <4>2
    <3>2. CASE ~(found > 0)
      <4>1. average = stats.average /\ found = 0
        BY <2>2, <3>2
      <4>2. /\ average[1] > 0 <=> \E i \in 1..Len(sizes) : sizes[i] > 0
            /\ average[1] > 0 => \E i \in 1..Len(sizes) : average[1] <= sizes[i] * average[2]
        BY <4>1 DEF StatsInv, AverageInRange
      <4>3. \A i \in 1..Len(sizes') : sizes'[i] > 0 => i \in 1..Len(sizes) /\ sizes'[i] = sizes[i]
        BY <2>3, <4>1
      <4>4. \A i \in 1..Len(sizes) : i \in 1..Len(sizes') /\ sizes'[i] = sizes[i]
        BY <2>3
      <4>5. QED
        BY <2>2, <4>1, <4>2, <4>3, <4>4
    <3>3. QED
      BY <3>1, <3>2
  <2> HIDE DEF average
  <2>5. /\ stats' \in [total : Nat, successful : Nat, failed : Nat, average : Nat \X (Nat \ {0})]
        /\ stats'.total = stats.total /\ stats'.successful = stats.successful + 1
        /\ stats'.failed = stats.failed /\ stats'.average = average
    BY <2>1, <2>2, <2>4 DEF StatsInv
  <2>6. AverageInRange'
    BY <2>4, <2>5 DEF AverageInRange
  <2>7. QueriesAccounted'
    <3>1. /\ stats.total = told.success + told.failure + 1
          /\ stats.successful = told.success + told.late
      BY <2>1 DEF StatsInv, QueriesAccounted, Querying
    <3>2. phase' \in Querying /\ phase' = "respond"
      BY <2>1 DEF Querying
    <3>3. QED
      BY <2>1, <2>5, <3>1, <3>2 DEF StatsInv, QueriesAccounted
  <2>8. QED
    BY <2>1, <2>3, <2>5, <2>6, <2>7 DEF StatsInv
<1>6. CASE Respond
  <2>1. /\ phase = "respond" /\ phase' = "idle" /\ UNCHANGED <<stats, sizes, found>>
        /\ told' = [told EXCEPT !.success = @ + 1]
    BY <1>6 DEF Respond
  <2>2. /\ told' \in [success : Nat, failure : Nat, late : Nat]
        /\ told'.success = told.success + 1 /\ told'.failure = told.failure /\ told'.late = told.late
    BY SMTT(30), <2>1 DEF StatsInv
  <2>3. AverageInRange'
    BY <2>1 DEF StatsInv, AverageInRange
  <2>4. QueriesAccounted'
    <3>1. /\ stats.total = told.success + told.failure + 1
          /\ stats.failed = told.failure /\ told.late <= told.failure
          /\ stats.successful = told.success + told.late + 1
      BY <2>1 DEF StatsInv, QueriesAccounted, Querying
    <3>2. phase' # "respond" /\ phase' \notin Querying
      BY <2>1 DEF Querying
    <3>3. told.success \in Nat /\ told.failure \in Nat /\ told.late \in Nat
      BY DEF StatsInv
    <3>4. QED
      BY <2>1, <2>2, <3>1, <3>2, <3>3 DEF QueriesAccounted
  <2>5. QED
    BY <2>1, <2>2, <2>3, <2>4 DEF StatsInv
<1>7. CASE Take \/ Create \/ ChangeSource \/ IndexDocument \/ IndexKnowledgeBase \/ IndexNext
  <2>1. UNCHANGED <<stats, sizes, told, found>> /\ phase \notin Querying /\ phase' \notin Querying
    <3>1. CASE Take \/ Create
      BY <3>1 DEF Take, Create, past, Querying
    <3>2. CASE ChangeSource
      BY <3>2 DEF ChangeSource, rag, Querying
    <3>3. CASE IndexDocument
      BY <3>3 DEF IndexDocument, rag, past, Querying
    <3>4. CASE IndexKnowledgeBase
      BY <3>4 DEF IndexKnowledgeBase, Querying
    <3>5. CASE IndexNext
      BY <3>5 DEF IndexNext, Onward, Querying
    <3>6. QED
      BY <1>7, <3>1, <3>2, <3>3, <3>4, <3>5
  <2>2. QED
    BY <1>1, <2>1 DEF StatsInv, Querying
<1>8. CASE Embed \/ Retrieve
  <2>1. /\ UNCHANGED <<stats, sizes, told>> /\ found' \in Nat /\ phase \in Querying /\ phase' \in Querying
        /\ phase # "respond" /\ phase' # "respond"
    <3>1. CASE Embed
      BY <3>1 DEF Embed, past, Querying, StatsInv
    <3>2. CASE Retrieve
      <4>1. found' \in Nat
        <5>1. PICK n \in 0..MaxDocs : found' = n
          BY <3>2 DEF Retrieve
        <5>2. QED
          BY <5>1
      <4>2. QED
        BY <3>2, <4>1 DEF Retrieve, past, Querying
    <3>3. QED
      BY <1>8, <3>1, <3>2
  <2>2. QED
    BY <1>1, <2>1
<1>9. CASE OtherStep \/ UNCHANGED vars
  <2>1. UNCHANGED <<phase, stats, sizes, told, found>>
    BY <1>9 DEF OtherStep, vars, rag, past
  <2>2. QED
    BY <1>1, <2>1 DEF StatsInv
<1>10. QED
  BY <1>2, <1>3, <1>4, <1>5, <1>6, <1>7, <1>8, <1>9 DEF Next

\* Every query is counted in the total once and in the failures when the caller
\* is told so; the successes are those told of and the late failures, counted
\* twice; and the average number of documents found lies in the range of what
\* the counted successes found.
THEOREM StatsAlwaysSound == Spec => []StatsSound
<1>1. Init => StatsInv
  BY DEF Init, NoStats, NothingTold, StatsInv, QueriesAccounted, AverageInRange, Querying
<1>2. StatsInv => StatsSound
  BY DEF StatsInv, StatsSound
<1>3. QED
  BY <1>1, <1>2, StatsNext, PTL DEF Spec

-----------------------------------------------------------------------------
(* The embedding cache.                                                    *)

\* A memory cache that CachesSound accepts.
Cached(m) == /\ m \in Seq(Inputs \X Inputs) /\ Len(m) <= MaxCacheSize
             /\ \A i, j \in 1..Len(m) : m[i][1] = m[j][1] => i = j
             /\ \A i \in 1..Len(m) : m[i][1] = m[i][2]

\* The types of a call, and where in its batch it is.
CallSound(c) ==
  /\ c \in [step : Steps, texts : Seq(Inputs), start : Nat, at : Nat, missed : SUBSET Nat,
            results : Seq(Inputs \cup {Nothing})]
  /\ Len(c.results) = Len(c.texts)
  /\ c.start < c.at /\ \A i \in c.missed : c.start < i /\ i < c.at
  /\ c.step \in {"get", "unlink"} => c.at <= BatchEnd(c)
  /\ c.step \in {"provide", "put", "write"} => c.at = BatchEnd(c) + 1
  /\ c.step \in {"put", "write"} => c.missed # {}

\* AnswersAligned of one call.
Aligned(c) ==
  \A i \in 1..Len(c.texts) :
    /\ c.results[i] \in {Nothing, c.texts[i]}
    /\ i < c.at /\ (i \in c.missed => c.step \in {"put", "write"}) => c.results[i] # Nothing

CacheInv ==
  /\ memory \in [Processes -> Seq(Inputs \X Inputs)]
  /\ disk \in [Inputs -> Inputs \cup {Nothing, Torn}]
  /\ call = [p \in Processes |-> call[p]]
  /\ \A p \in Processes : CallSound(call[p]) /\ Aligned(call[p]) /\ Cached(memory[p])
  /\ linked \subseteq {p \in Processes : call[p].step = "write"}
  /\ \A t \in Inputs : disk[t] \in {t, Torn, Nothing}
  /\ TornOnlyWithCause

\* What is taken out at its place: the other entries stay, in their order.
LEMMA WithoutSound ==
  ASSUME NEW m, Cached(m), NEW t \in Inputs
  PROVE  /\ Cached(Without(m, t)) /\ t \notin Keys(Without(m, t))
         /\ t \in Keys(m) => Len(Without(m, t)) < Len(m)
<1>1. CASE t \notin Keys(m)
  BY <1>1 DEF Without
<1>2. CASE t \in Keys(m)
  <2> DEFINE w == Where(m, t)
             r == SubSeq(m, 1, w - 1) \o SubSeq(m, w + 1, Len(m))
  <2>1. w \in 1..Len(m) /\ m[w][1] = t
    BY <1>2 DEF Keys, Where
  <2>2. m \in Seq(Inputs \X Inputs) /\ Len(m) \in Nat
    BY DEF Cached
  <2>3. /\ r \in Seq(Inputs \X Inputs) /\ Len(r) = Len(m) - 1
        /\ \A i \in 1..Len(r) : r[i] = IF i < w THEN m[i] ELSE m[i + 1]
    BY <2>1, <2>2, TakenOut
  <2>4. Without(m, t) = r
    BY <1>2 DEF Without
  <2> HIDE DEF r, w
  <2> DEFINE at(i) == IF i < w THEN i ELSE i + 1
  <2>5. /\ \A i \in 1..Len(r) : at(i) \in 1..Len(m) /\ at(i) # w /\ r[i] = m[at(i)]
        /\ \A i, j \in 1..Len(r) : at(i) = at(j) => i = j
    BY <2>1, <2>2, <2>3
  <2> HIDE DEF at
  <2>6. Cached(r)
    <3>1. Len(r) <= MaxCacheSize
      BY <2>2, <2>3, CacheAssumption DEF Cached
    <3>2. \A i \in 1..Len(r) : r[i][1] = r[i][2]
      BY <2>5 DEF Cached
    <3>3. ASSUME NEW i \in 1..Len(r), NEW j \in 1..Len(r), r[i][1] = r[j][1] PROVE i = j
      <4>1. at(i) \in 1..Len(m) /\ at(j) \in 1..Len(m) /\ m[at(i)][1] = m[at(j)][1]
        BY <2>5, <3>3
      <4>2. at(i) = at(j)
        BY <4>1 DEF Cached
      <4>3. QED
        BY <2>5, <4>2
    <3>4. QED
      BY <2>3, <3>1, <3>2, <3>3 DEF Cached
  <2>7. t \notin Keys(r)
    BY <2>1, <2>5 DEF Cached, Keys
  <2>8. QED
    BY <2>2, <2>3, <2>4, <2>6, <2>7
<1>3. QED
  BY <1>1, <1>2

\* An entry that is added goes to the end; the oldest leaves when there is no
\* room.
LEMMA AddedSound ==
  ASSUME NEW m, Cached(m), NEW t \in Inputs
  PROVE  Cached(Added(m, t, t))
<1> DEFINE w == Without(m, t)
           all == Append(w, <<t, t>>)
<1>1. Cached(w) /\ t \notin Keys(w)
  BY WithoutSound
<1> HIDE DEF w
<1>2. /\ all \in Seq(Inputs \X Inputs) /\ Len(all) = Len(w) + 1
      /\ all[Len(w) + 1] = <<t, t>> /\ \A i \in 1..Len(w) : all[i] = w[i]
  BY <1>1 DEF Cached
<1>3. \A i \in 1..Len(w) : w[i][1] # t
  BY <1>1 DEF Keys
<1>4. /\ \A i, j \in 1..Len(all) : all[i][1] = all[j][1] => i = j
      /\ \A i \in 1..Len(all) : all[i][1] = all[i][2]
  BY <1>1, <1>2, <1>3 DEF Cached
<1> HIDE DEF all
<1>5. CASE Len(all) > MaxCacheSize
  <2>1. /\ Tail(all) \in Seq(Inputs \X Inputs) /\ Len(Tail(all)) = Len(all) - 1
        /\ \A i \in 1..Len(Tail(all)) : Tail(all)[i] = all[i + 1] /\ i + 1 \in 1..Len(all)
    BY <1>2, <1>1 DEF Cached
  <2>2. Cached(Tail(all))
    BY <1>1, <1>2, <1>4, <2>1, CacheAssumption DEF Cached
  <2>3. QED
    BY <1>5, <2>2 DEF Added, all, w
<1>6. CASE ~(Len(all) > MaxCacheSize)
  <2>1. Cached(all)
    BY <1>1, <1>2, <1>4, <1>6, CacheAssumption DEF Cached
  <2>2. QED
    BY <1>6, <2>1 DEF Added, all, w
<1>7. QED
  BY <1>5, <1>6

\* The place that a call is at is one of its batch, and one still missed when
\* answers are put.
LEMMA PlaceSound ==
  ASSUME NEW p \in Processes, CallSound(call[p]), call[p].step \notin {"idle", "provide"}
  PROVE  /\ Place(p) \in 1..Len(call[p].texts) /\ Text(p) \in Inputs
         /\ call[p].step \in {"put", "write"} => Place(p) \in call[p].missed
<1> DEFINE c == call[p]
<1>1. c.texts \in Seq(Inputs) /\ Len(c.texts) \in Nat /\ c.at \in Nat /\ c.start \in Nat
  BY DEF CallSound
<1>a. BatchEnd(c) \in Nat /\ BatchEnd(c) <= Len(c.texts)
  BY <1>1, CacheAssumption DEF BatchEnd
<1>2. CASE c.step \in {"get", "unlink"}
  BY <1>1, <1>2, <1>a DEF CallSound, Place, Text
<1>3. CASE c.step \in {"put", "write"}
  <2>1. c.missed \in SUBSET Nat /\ c.missed # {} /\ \A i \in c.missed : c.start < i /\ i < c.at
    BY <1>3 DEF CallSound
  <2>2. FirstOf(c.missed) \in c.missed
    BY <2>1, Least DEF FirstOf
  <2>3. Place(p) = FirstOf(c.missed)
    BY <1>3 DEF Place
  <2>4. c.at = BatchEnd(c) + 1
    BY <1>3 DEF CallSound
  <2>5. QED
    BY <1>1, <1>a, <2>1, <2>2, <2>3, <2>4 DEF Text
<1>4. QED
  BY <1>2, <1>3 DEF CallSound, Steps

\* The places of a batch.
LEMMA BatchEnds ==
  ASSUME NEW c, CallSound(c)
  PROVE  /\ BatchEnd(c) \in Nat /\ BatchEnd(c) <= Len(c.texts) /\ Len(c.texts) \in Nat
         /\ c.start \in Nat /\ (c.start < Len(c.texts) => c.start < BatchEnd(c))
<1>1. c.start \in Nat /\ Len(c.texts) \in Nat
  BY DEF CallSound
<1>2. QED
  BY <1>1, CacheAssumption DEF BatchEnd

\* A call that has passed a place keeps what it has for the places before, be
\* it a hit or a miss.
LEMMA AdvanceSound ==
  ASSUME NEW p \in Processes, CallSound(call[p]), Aligned(call[p]), call[p].step \in {"get", "unlink"},
         NEW c \in {Hit(p, Text(p)), Missed(p)}
  PROVE  CallSound(c) /\ Aligned(c)
<1> DEFINE b == call[p]
           results == IF c = Hit(p, Text(p)) THEN [b.results EXCEPT ![b.at] = Text(p)] ELSE b.results
           missed == IF c = Hit(p, Text(p)) THEN b.missed ELSE b.missed \cup {b.at}
           step == IF b.at < BatchEnd(b) THEN "get" ELSE "provide"
<1>1. /\ b.at \in 1..Len(b.texts) /\ b.at <= BatchEnd(b) /\ BatchEnd(b) \in Nat /\ b.at \in Nat
      /\ Text(p) \in Inputs /\ Text(p) = b.texts[b.at] /\ Place(p) = b.at
  BY PlaceSound, BatchEnds DEF CallSound, Place, Text
<1>2. c = [b EXCEPT !.results = results, !.missed = missed, !.at = @ + 1, !.step = step]
  BY <1>1 DEF Hit, Missed, Advance
<1>3. /\ results \in Seq(Inputs \cup {Nothing}) /\ Len(results) = Len(b.texts)
      /\ \A i \in 1..Len(b.texts) : results[i] = b.results[i] \/ (i = b.at /\ results[i] = b.texts[i])
      /\ b.at \in missed \/ results[b.at] = b.texts[b.at]
      /\ missed \in SUBSET Nat /\ b.missed \subseteq missed /\ missed \subseteq b.missed \cup {b.at}
  BY <1>1, SMTT(30) DEF CallSound
<1> HIDE DEF results, missed
<1>4. /\ c.step = step /\ c.texts = b.texts /\ c.start = b.start /\ c.at = b.at + 1
      /\ c.missed = missed /\ c.results = results
      /\ c \in [step : Steps, texts : Seq(Inputs), start : Nat, at : Nat, missed : SUBSET Nat,
                results : Seq(Inputs \cup {Nothing})]
  <2>1. b \in [step : Steps, texts : Seq(Inputs), start : Nat, at : Nat, missed : SUBSET Nat,
               results : Seq(Inputs \cup {Nothing})]
    BY DEF CallSound
  <2>2. step \in Steps /\ b.at + 1 \in Nat
    BY <1>1 DEF Steps
  <2> HIDE DEF step, b
  <2>3. QED
    BY <1>2, <1>3, <2>1, <2>2
<1>5. BatchEnd(c) = BatchEnd(b)
  BY <1>4 DEF BatchEnd
<1>6. CallSound(c)
  <2>1. \A i \in c.missed : c.start < i /\ i < c.at
    BY <1>1, <1>3, <1>4 DEF CallSound
  <2>2. QED
    BY <1>1, <1>3, <1>4, <1>5, <2>1 DEF CallSound
<1>7. Aligned(c)
  <2> SUFFICES ASSUME NEW i \in 1..Len(b.texts)
               PROVE  /\ results[i] \in {Nothing, b.texts[i]}
                      /\ i < b.at + 1 /\ i \notin missed => results[i] # Nothing
    BY <1>4 DEF Aligned
  <2>1. b.texts[i] # Nothing
    BY CacheAssumption DEF CallSound
  <2>2. CASE i < b.at
    BY <1>1, <1>3, <2>1, <2>2 DEF Aligned
  <2>3. CASE ~(i < b.at)
    BY <1>1, <1>3, <2>1, <2>3 DEF Aligned
  <2>4. QED
    BY <2>2, <2>3
<1>8. QED
  BY <1>6, <1>7

\* The next batch, or the end, of a call that has all of this one.
LEMMA NextBatchSound ==
  ASSUME NEW c, CallSound(c), Aligned(c),
         c.step \in {"put", "write"} \/ (c.step = "provide" /\ c.missed = {})
  PROVE  CallSound(NextBatch(c)) /\ Aligned(NextBatch(c))
<1>1. /\ c \in [step : Steps, texts : Seq(Inputs), start : Nat, at : Nat, missed : SUBSET Nat,
                results : Seq(Inputs \cup {Nothing})]
      /\ Len(c.results) = Len(c.texts) /\ c.at = BatchEnd(c) + 1
  BY DEF CallSound
<1>2. BatchEnd(c) \in Nat /\ BatchEnd(c) <= Len(c.texts) /\ Len(c.texts) \in Nat
  BY BatchEnds
<1>3. CASE BatchEnd(c) = Len(c.texts)
  BY <1>3 DEF NextBatch, NoCall, CallSound, Aligned, Steps, BatchEnd
<1>4. CASE BatchEnd(c) # Len(c.texts)
  <2> DEFINE d == [c EXCEPT !.start = BatchEnd(c), !.missed = {}, !.step = "get"]
  <2>1. /\ d \in [step : Steps, texts : Seq(Inputs), start : Nat, at : Nat, missed : SUBSET Nat,
                  results : Seq(Inputs \cup {Nothing})]
        /\ d.step = "get" /\ d.texts = c.texts /\ d.start = BatchEnd(c) /\ d.at = c.at
        /\ d.missed = {} /\ d.results = c.results
    BY <1>1, <1>2 DEF Steps
  <2>2. NextBatch(c) = d
    BY <1>4 DEF NextBatch
  <2> HIDE DEF d
  <2>3. d.at <= BatchEnd(d) /\ d.start < d.at
    BY <1>1, <1>2, <1>4, <2>1, CacheAssumption DEF BatchEnd
  <2>4. CallSound(d)
    BY <1>1, <2>1, <2>3 DEF CallSound
  <2>5. Aligned(d)
    BY <2>1 DEF Aligned
  <2>6. QED
    BY <2>2, <2>4, <2>5
<1>5. QED
  BY <1>3, <1>4

\* After an answer has been put, the next one.
LEMMA PutNextSound ==
  ASSUME NEW p \in Processes, CallSound(call[p]), Aligned(call[p]), call[p].step \in {"put", "write"},
         PutNext(p), call = [q \in Processes |-> call[q]]
  PROVE  CallSound(call'[p]) /\ Aligned(call'[p])
<1> DEFINE c == call[p]
           left == c.missed \ {Place(p)}
           d == [c EXCEPT !.missed = left, !.step = "put"]
<1>1. call'[p] = IF left = {} THEN NextBatch(c) ELSE d
  BY DEF PutNext
<1>2. /\ c \in [step : Steps, texts : Seq(Inputs), start : Nat, at : Nat, missed : SUBSET Nat,
                results : Seq(Inputs \cup {Nothing})]
  BY DEF CallSound
<1>3. /\ d \in [step : Steps, texts : Seq(Inputs), start : Nat, at : Nat, missed : SUBSET Nat,
                results : Seq(Inputs \cup {Nothing})]
      /\ d.step = "put" /\ d.texts = c.texts /\ d.start = c.start /\ d.at = c.at
      /\ d.missed = left /\ d.results = c.results
  BY <1>2 DEF Steps
<1> HIDE DEF d
<1>4. BatchEnd(d) = BatchEnd(c)
  BY <1>3 DEF BatchEnd
<1>5. left # {} => CallSound(d) /\ Aligned(d)
  BY <1>3, <1>4 DEF CallSound, Aligned
<1>6. QED
  BY <1>1, <1>5, NextBatchSound

\* The answer that is put is the text's own embedding.
LEMMA AnswerPut ==
  ASSUME NEW p \in Processes, CallSound(call[p]), Aligned(call[p]), call[p].step \in {"put", "write"}
  PROVE  call[p].results[Place(p)] = Text(p)
<1>1. Place(p) \in 1..Len(call[p].texts) /\ Place(p) \in call[p].missed
  BY PlaceSound
<1>2. Place(p) < call[p].at
  BY <1>1 DEF CallSound
<1>3. QED
  BY <1>1, <1>2 DEF Aligned, Text

\* The provider's answers are filled in at the places that missed.
LEMMA FilledSound ==
  ASSUME NEW p \in Processes, CallSound(call[p]), Aligned(call[p]), call[p].step = "provide",
         call[p].missed # {}, NEW c, c = [call[p] EXCEPT !.results = Filled(call[p]), !.step = "put"]
  PROVE  CallSound(c) /\ Aligned(c)
<1> DEFINE b == call[p]
<1>1. /\ b \in [step : Steps, texts : Seq(Inputs), start : Nat, at : Nat, missed : SUBSET Nat,
                results : Seq(Inputs \cup {Nothing})]
      /\ Len(b.results) = Len(b.texts)
  BY DEF CallSound
<1>2. /\ Filled(b) \in Seq(Inputs \cup {Nothing}) /\ Len(Filled(b)) = Len(b.texts)
      /\ \A i \in 1..Len(b.texts) :
            Filled(b)[i] = IF i \in b.missed THEN b.texts[i] ELSE b.results[i]
  <2>1. Len(b.texts) \in Nat /\ \A i \in 1..Len(b.texts) :
                                 b.texts[i] \in Inputs /\ b.results[i] \in Inputs \cup {Nothing}
    BY <1>1
  <2>2. QED
    BY <2>1 DEF Filled
<1>3. /\ c \in [step : Steps, texts : Seq(Inputs), start : Nat, at : Nat, missed : SUBSET Nat,
                results : Seq(Inputs \cup {Nothing})]
      /\ c.step = "put" /\ c.texts = b.texts /\ c.start = b.start /\ c.at = b.at
      /\ c.missed = b.missed /\ c.results = Filled(b)
  BY <1>1, <1>2 DEF Steps
<1>4. BatchEnd(c) = BatchEnd(b)
  BY <1>3 DEF BatchEnd
<1>5. CallSound(c)
  BY <1>2, <1>3, <1>4 DEF CallSound
<1>6. \A i \in 1..Len(b.texts) : b.texts[i] # Nothing
  BY <1>1, CacheAssumption
<1>7. Aligned(c)
  BY <1>2, <1>3, <1>6 DEF Aligned
<1>8. QED
  BY <1>5, <1>7

\* Nothing is cached and no call is made at the start.
LEMMA CacheInitInv == CacheInit => CacheInv
<1> SUFFICES ASSUME CacheInit PROVE CacheInv
  OBVIOUS
<1>1. CallSound(NoCall) /\ Aligned(NoCall)
  BY DEF NoCall, CallSound, Aligned, Steps
<1>2. Cached(<<>>)
  BY CacheAssumption DEF Cached
<1>3. QED
  BY <1>1, <1>2, CacheAssumption DEF CacheInit, CacheInv, TornOnlyWithCause

\* A step of one process: its call and its memory stay sound, the others' are
\* left alone, and a file is whole or torn.
LEMMA OwnStep ==
  ASSUME CacheInv, NEW p \in Processes, Begin(p) \/ Step(p) \/ Clear(p) \/ Restart(p)
  PROVE  /\ \E c : call' = [call EXCEPT ![p] = c] /\ CallSound(c) /\ Aligned(c)
         /\ \E m : memory' = [memory EXCEPT ![p] = m] /\ Cached(m)
         /\ disk' \in [Inputs -> Inputs \cup {Nothing, Torn}]
         /\ \A t \in Inputs : disk'[t] \in {t, Torn, Nothing}
         /\ call'[p].step = "write" \/ p \notin linked'
         /\ linked' \subseteq linked \cup {p}
<1> USE DEF CacheInv
<1>0. /\ CallSound(call[p]) /\ Aligned(call[p]) /\ Cached(memory[p])
      /\ \A x : call' = [call EXCEPT ![p] = x] => call'[p] = x
      /\ memory = [memory EXCEPT ![p] = memory[p]] /\ call = [call EXCEPT ![p] = call[p]]
      /\ call[p].step # "write" => p \notin linked
  OBVIOUS
<1>1. CASE Begin(p)
  <2>a. PICK n \in 1..MaxTexts : \E ts \in [1..n -> Inputs] :
          call' = [call EXCEPT ![p] = [NoCall EXCEPT !.step = "get", !.texts = ts,
                                         !.results = [i \in 1..Len(ts) |-> Nothing]]]
    BY <1>1 DEF Begin
  <2>1. PICK ts \in [1..n -> Inputs] :
          call' = [call EXCEPT ![p] = [NoCall EXCEPT !.step = "get", !.texts = ts,
                                         !.results = [i \in 1..Len(ts) |-> Nothing]]]
    BY <2>a
  <2> DEFINE c == [NoCall EXCEPT !.step = "get", !.texts = ts,
                                 !.results = [i \in 1..Len(ts) |-> Nothing]]
  <2>2. n \in Nat /\ n >= 1 /\ ts \in Seq(Inputs) /\ Len(ts) = n
    OBVIOUS
  <2> DEFINE nothing == [i \in 1..Len(ts) |-> Nothing]
  <2>4. /\ nothing \in Seq(Inputs \cup {Nothing}) /\ Len(nothing) = n
        /\ \A i \in 1..n : nothing[i] = Nothing
    BY <2>2, SMTT(30)
  <2> HIDE DEF nothing
  <2>3. /\ c.step = "get" /\ c.texts = ts /\ c.results = nothing
        /\ c.start = 0 /\ c.at = 1 /\ c.missed = {}
        /\ c \in [step : Steps, texts : Seq(Inputs), start : Nat, at : Nat, missed : SUBSET Nat,
                  results : Seq(Inputs \cup {Nothing})]
    BY <2>2, <2>4 DEF NoCall, Steps, nothing
  <2> HIDE DEF c
  <2>5. 1 <= BatchEnd(c)
    BY <2>2, <2>3, CacheAssumption DEF BatchEnd
  <2>6. CallSound(c) /\ Aligned(c)
    BY <2>2, <2>3, <2>4, <2>5 DEF CallSound, Aligned, Steps
  <2>7. UNCHANGED <<memory, disk, linked>> /\ call[p].step = "idle"
    BY <1>1 DEF Begin
  <2>8. QED
    BY <1>0, <2>1, <2>6, <2>7 DEF c, nothing
<1>2. CASE GetFromMemory(p)
  <2> DEFINE m == memory[p]
             t == Text(p)
             e == Entry(m, t)
  <2>1. /\ call[p].step = "get" /\ t \in Keys(m) /\ UNCHANGED <<disk, linked>>
        /\ memory' = [memory EXCEPT ![p] = Append(Without(m, e[1]), e)]
        /\ call' = [call EXCEPT ![p] = Hit(p, e[2])]
    BY <1>2 DEF GetFromMemory, At
  <2>2. Where(m, t) \in 1..Len(m) /\ m[Where(m, t)][1] = t /\ t \in Inputs
    BY <1>0, <2>1, PlaceSound DEF Keys, Where
  <2>3. e = <<t, t>>
    BY <1>0, <2>2 DEF Entry, Cached
  <2> HIDE DEF m, t, e
  <2>4. Cached(Append(Without(m, t), <<t, t>>))
    <3> DEFINE w == Without(m, t)
               all == Append(w, <<t, t>>)
    <3>1. Cached(w) /\ t \notin Keys(w) /\ Len(w) < Len(m)
      BY <1>0, <2>1, <2>2, WithoutSound DEF m
    <3> HIDE DEF w
    <3>2. /\ all \in Seq(Inputs \X Inputs) /\ Len(all) = Len(w) + 1 /\ Len(w) \in Nat
          /\ all[Len(w) + 1] = <<t, t>> /\ \A i \in 1..Len(w) : all[i] = w[i]
      BY <2>2, <3>1 DEF Cached
    <3>3. \A i \in 1..Len(w) : w[i][1] # t
      BY <3>1 DEF Keys
    <3>4. Len(m) <= MaxCacheSize /\ Len(m) \in Nat
      BY <1>0 DEF Cached, m
    <3> HIDE DEF all
    <3>5. QED
      BY <3>1, <3>2, <3>3, <3>4, CacheAssumption DEF Cached, w, all
  <2>5. CallSound(Hit(p, t)) /\ Aligned(Hit(p, t))
    BY <1>0, <2>1, AdvanceSound DEF t
  <2>6. QED
    BY <1>0, <2>1, <2>3, <2>4, <2>5
<1>3. CASE GetFromDisk(p)
  <2>1. /\ call[p].step = "get" /\ UNCHANGED <<disk, linked>>
        /\ memory' = [memory EXCEPT ![p] = Added(memory[p], Text(p), disk[Text(p)])]
        /\ call' = [call EXCEPT ![p] = Hit(p, disk[Text(p)])]
        /\ disk[Text(p)] \notin {Nothing, Torn}
    BY <1>3 DEF GetFromDisk, At
  <2>2. Text(p) \in Inputs /\ disk[Text(p)] = Text(p)
    BY <1>0, <2>1, PlaceSound
  <2>3. QED
    BY <1>0, <2>1, <2>2, AdvanceSound, AddedSound
<1>4. CASE Miss(p)
  BY <1>0, <1>4, AdvanceSound DEF Miss, At
<1>5. CASE GetTorn(p)
  <2>1. /\ call[p].step = "get" /\ UNCHANGED <<memory, disk, linked>>
        /\ call' = [call EXCEPT ![p] = [call[p] EXCEPT !.step = "unlink"]]
    BY <1>5 DEF GetTorn, At
  <2> DEFINE c == [call[p] EXCEPT !.step = "unlink"]
  <2>2. CallSound(c) /\ Aligned(c)
    BY <1>0, <2>1 DEF CallSound, Aligned, Steps, BatchEnd
  <2>3. QED
    BY <1>0, <2>1, <2>2
<1>6. CASE Unlink(p)
  <2>1. /\ call[p].step = "unlink" /\ memory' = memory /\ linked' \subseteq linked
        /\ call' = [call EXCEPT ![p] = Missed(p)]
        /\ disk' = [disk EXCEPT ![Text(p)] = Nothing]
    BY <1>6 DEF Unlink, At
  <2>2. QED
    BY <1>0, <2>1, AdvanceSound
<1>7. CASE AllCached(p)
  BY <1>0, <1>7, NextBatchSound DEF AllCached, At
<1>8. CASE Provide(p)
  <2>1. /\ call[p].step = "provide" /\ call[p].missed # {} /\ UNCHANGED <<memory, disk, linked>>
        /\ call' = [call EXCEPT ![p] = [call[p] EXCEPT !.results = Filled(call[p]), !.step = "put"]]
    BY <1>8 DEF Provide, At
  <2> DEFINE c == [call[p] EXCEPT !.results = Filled(call[p]), !.step = "put"]
  <2>2. CallSound(c) /\ Aligned(c)
    BY <1>0, <2>1, FilledSound
  <2> HIDE DEF c
  <2>3. QED
    BY <1>0, <2>1, <2>2 DEF c
<1>9. ASSUME ProviderFails(p) \/ Restart(p) PROVE call' = [call EXCEPT ![p] = NoCall]
  BY <1>9 DEF ProviderFails, Restart
<1>10. CallSound(NoCall) /\ Aligned(NoCall) /\ Cached(<<>>) /\ NoCall.step = "idle"
  BY CacheAssumption DEF NoCall, CallSound, Aligned, Steps, Cached
<1>11. CASE ProviderFails(p)
  <2>1. UNCHANGED <<memory, disk, linked>> /\ call[p].step = "provide"
    BY <1>11 DEF ProviderFails, At
  <2>2. QED
    BY <1>0, <1>9, <1>10, <1>11, <2>1
<1>12. CASE Restart(p)
  <2>1. /\ memory' = [memory EXCEPT ![p] = <<>>] /\ disk' = disk /\ linked' = linked \ {p}
    BY <1>12 DEF Restart
  <2>2. QED
    BY <1>0, <1>9, <1>10, <1>12, <2>1
<1>13. CASE Clear(p)
  <2>1. /\ memory' = [memory EXCEPT ![p] = <<>>] /\ disk' = [t \in Inputs |-> Nothing]
        /\ linked' = {} /\ call' = call
    BY <1>13 DEF Clear
  <2>2. QED
    BY <1>0, <1>10, <2>1
<1>14. CASE Put(p)
  <2>1. /\ call[p].step = "put" /\ linked' = linked \cup {p}
        /\ memory' = [memory EXCEPT ![p] = Added(memory[p], Text(p), call[p].results[Place(p)])]
        /\ disk' = [disk EXCEPT ![Text(p)] = Torn]
        /\ call' = [call EXCEPT ![p] = [call[p] EXCEPT !.step = "write"]]
    BY <1>14 DEF Put, At
  <2> DEFINE c == [call[p] EXCEPT !.step = "write"]
  <2>2. CallSound(c) /\ Aligned(c) /\ c.step = "write"
    BY <1>0, <2>1 DEF CallSound, Aligned, Steps, BatchEnd
  <2>3. Text(p) \in Inputs /\ call[p].results[Place(p)] = Text(p)
    BY <1>0, <2>1, PlaceSound, AnswerPut
  <2>4. Cached(Added(memory[p], Text(p), call[p].results[Place(p)]))
    BY <1>0, <2>3, AddedSound
  <2> HIDE DEF c
  <2>5. call' = [call EXCEPT ![p] = c]
    BY <2>1 DEF c
  <2>6. QED
    BY <1>0, <2>1, <2>2, <2>4, <2>5
<1>15. ASSUME call[p].step \in {"put", "write"}, PutNext(p)
       PROVE  \E c : call' = [call EXCEPT ![p] = c] /\ CallSound(c) /\ Aligned(c)
  <2>1. CallSound(call'[p]) /\ Aligned(call'[p])
    BY <1>0, <1>15, PutNextSound
  <2>2. QED
    BY <1>0, <1>15, <2>1 DEF PutNext
<1>16. CASE FinishWrite(p) \/ WriteFails(p)
  <2>1. /\ call[p].step = "write" /\ linked' = linked \ {p} /\ memory' = memory /\ PutNext(p)
    BY <1>16 DEF FinishWrite, WriteFails, At
  <2>2. disk' \in {disk, [disk EXCEPT ![Text(p)] = Torn],
                   [disk EXCEPT ![Text(p)] = call[p].results[Place(p)]]}
    BY <1>16 DEF FinishWrite, WriteFails
  <2>3. Text(p) \in Inputs /\ call[p].results[Place(p)] = Text(p)
    BY <1>0, <2>1, PlaceSound, AnswerPut
  <2>4. /\ disk' \in [Inputs -> Inputs \cup {Nothing, Torn}]
        /\ \A t \in Inputs : disk'[t] \in {t, Torn, Nothing}
    BY <2>2, <2>3
  <2>5. QED
    BY <1>0, <1>15, <2>1, <2>4
<1>17. CASE OpenFails(p)
  <2>1. /\ call[p].step = "put" /\ UNCHANGED <<disk, linked>> /\ PutNext(p)
        /\ memory' = [memory EXCEPT ![p] = Added(memory[p], Text(p), call[p].results[Place(p)])]
    BY <1>17 DEF OpenFails, At
  <2>2. Text(p) \in Inputs /\ call[p].results[Place(p)] = Text(p)
    BY <1>0, <2>1, PlaceSound, AnswerPut
  <2>3. Cached(Added(memory[p], Text(p), call[p].results[Place(p)]))
    BY <1>0, <2>2, AddedSound
  <2>4. PICK c : call' = [call EXCEPT ![p] = c] /\ CallSound(c) /\ Aligned(c)
    BY <1>15, <2>1
  <2>5. QED
    BY <1>0, <2>1, <2>3, <2>4
<1>18. QED
  BY <1>1, <1>2, <1>3, <1>4, <1>5, <1>6, <1>7, <1>8, <1>11, <1>12, <1>13, <1>14, <1>16, <1>17 DEF Step

\* A file that becomes torn has a writer, or one that crashed, failed or was not
\* alone.
LEMMA TornNext ==
  ASSUME CacheInv, NEW p \in Processes, Begin(p) \/ Step(p) \/ Clear(p) \/ Restart(p)
  PROVE  TornOnlyWithCause'
<1> USE DEF CacheInv
<1>0. /\ \A q \in Processes \ {p} : call'[q] = call[q] /\ Text(q)' = Text(q)
      /\ CallSound(call[p]) /\ Aligned(call[p])
      /\ linked \subseteq Processes /\ \A q \in linked : call[q].step = "write"
  <2>1. \A q \in Processes \ {p} : call'[q] = call[q]
    BY OwnStep
  <2>2. QED
    BY <2>1 DEF Text, Place
<1>1. CASE Begin(p) \/ GetFromMemory(p) \/ GetFromDisk(p) \/ Miss(p) \/ GetTorn(p)
           \/ AllCached(p) \/ Provide(p) \/ ProviderFails(p) \/ OpenFails(p)
  <2>1. UNCHANGED <<disk, linked, damaged>> /\ call[p].step # "write"
    BY <1>1 DEF Begin, GetFromMemory, GetFromDisk, Miss, GetTorn, AllCached, Provide,
                ProviderFails, OpenFails, At
  <2>2. QED
    BY <1>0, <2>1 DEF TornOnlyWithCause
<1>2. CASE Unlink(p)
  <2>1. /\ call[p].step = "unlink" /\ disk' = [disk EXCEPT ![Text(p)] = Nothing]
        /\ linked' = {q \in linked : Text(q) # Text(p)} /\ damaged' = damaged \ {Text(p)}
    BY <1>2 DEF Unlink, At
  <2>2. Text(p) \in Inputs
    BY <1>0, <2>1, PlaceSound
  <2>3. QED
    BY <1>0, <2>1, <2>2, CacheAssumption DEF TornOnlyWithCause
<1>3. CASE Put(p)
  <2>1. /\ call[p].step = "put" /\ linked' = linked \cup {p}
        /\ disk' = [disk EXCEPT ![Text(p)] = Torn]
        /\ damaged \ {Text(p)} \subseteq damaged'
        /\ call' = [call EXCEPT ![p] = [call[p] EXCEPT !.step = "write"]]
    BY <1>3 DEF Put, At
  <2>2. Text(p)' = Text(p)
    BY <1>0, <2>1 DEF Text, Place, CallSound
  <2>3. QED
    BY <1>0, <2>1, <2>2 DEF TornOnlyWithCause
<1>4. CASE FinishWrite(p)
  <2>1. call[p].step = "write" /\ linked' = linked \ {p}
    BY <1>4 DEF FinishWrite, At
  <2>2. Text(p) \in Inputs /\ call[p].results[Place(p)] = Text(p)
    BY <1>0, <2>1, PlaceSound, AnswerPut
  <2>3. CASE p \notin linked
    <3>1. UNCHANGED <<disk, damaged>>
      BY <1>4, <2>3 DEF FinishWrite
    <3>2. QED
      BY <1>0, <2>1, <2>3, <3>1 DEF TornOnlyWithCause
  <2>4. CASE p \in linked /\ disk' = [disk EXCEPT ![Text(p)] = Text(p)]
             /\ damaged \ {Text(p)} \subseteq damaged'
    BY <1>0, <2>1, <2>2, <2>4, CacheAssumption DEF TornOnlyWithCause
  <2>5. CASE p \in linked /\ disk' = [disk EXCEPT ![Text(p)] = Torn]
             /\ damaged' = damaged /\ Text(p) \in damaged
    BY <1>0, <2>1, <2>2, <2>5 DEF TornOnlyWithCause
  <2>6. QED
    BY <1>4, <2>2, <2>3, <2>4, <2>5 DEF FinishWrite
<1>5. CASE WriteFails(p) \/ Restart(p)
  <2>1. /\ linked' = linked \ {p}
        /\ damaged' = IF p \in linked THEN damaged \cup {Text(p)} ELSE damaged
        /\ disk' = disk \/ (p \in linked /\ disk' = [disk EXCEPT ![Text(p)] = Torn])
    BY <1>5 DEF WriteFails, Restart
  <2>2. QED
    BY <1>0, <2>1 DEF TornOnlyWithCause
<1>6. CASE Clear(p)
  BY <1>6, CacheAssumption DEF Clear, TornOnlyWithCause
<1>7. QED
  BY <1>1, <1>2, <1>3, <1>4, <1>5, <1>6 DEF Step

\* The parts of the invariant together are inductive.
LEMMA CacheNextInv == CacheInv /\ [CacheNext]_caches => CacheInv'
<1> SUFFICES ASSUME CacheInv, [CacheNext]_caches PROVE CacheInv'
  OBVIOUS
<1>1. ASSUME NEW p \in Processes, Begin(p) \/ Step(p) \/ Clear(p) \/ Restart(p) PROVE CacheInv'
  <2>1. PICK c : call' = [call EXCEPT ![p] = c] /\ CallSound(c) /\ Aligned(c)
    BY <1>1, OwnStep
  <2>2. PICK m : memory' = [memory EXCEPT ![p] = m] /\ Cached(m)
    BY <1>1, OwnStep
  <2>3. /\ disk' \in [Inputs -> Inputs \cup {Nothing, Torn}]
        /\ \A t \in Inputs : disk'[t] \in {t, Torn, Nothing}
        /\ call'[p].step = "write" \/ p \notin linked'
        /\ linked' \subseteq linked \cup {p}
    BY <1>1, OwnStep
  <2>4. TornOnlyWithCause'
    BY <1>1, TornNext
  <2>5. /\ call' = [q \in Processes |-> IF q = p THEN c ELSE call[q]]
        /\ memory' = [q \in Processes |-> IF q = p THEN m ELSE memory[q]]
    BY <2>1, <2>2 DEF CacheInv
  <2>6. /\ memory' \in [Processes -> Seq(Inputs \X Inputs)]
        /\ call' = [q \in Processes |-> call'[q]]
    BY <2>2, <2>5 DEF CacheInv, Cached
  <2>7. \A q \in Processes : CallSound(call'[q]) /\ Aligned(call'[q]) /\ Cached(memory'[q])
    BY <2>1, <2>2, <2>5 DEF CacheInv
  <2>8. linked' \subseteq {q \in Processes : call'[q].step = "write"}
    BY <2>3, <2>5 DEF CacheInv
  <2>9. QED
    BY <2>3, <2>4, <2>6, <2>7, <2>8 DEF CacheInv, CallSound, Aligned, Cached, BatchEnd
<1>2. CASE UNCHANGED caches
  <2>1. memory' = memory /\ disk' = disk /\ call' = call /\ linked' = linked /\ damaged' = damaged
    BY <1>2 DEF caches
  <2>2. TornOnlyWithCause'
    BY <2>1 DEF CacheInv, TornOnlyWithCause, Text, Place
  <2>3. QED
    BY <2>1, <2>2 DEF CacheInv, CallSound, Aligned, Cached, BatchEnd
<1>3. QED
  BY <1>1, <1>2 DEF CacheNext

\* A batch of texts gets for each its own embedding, in the order of the texts,
\* however hits, misses, repeated texts, evictions and batches mix.
THEOREM AnswersAlwaysAligned == CacheSpec => []AnswersAligned
<1>1. CacheInv => AnswersAligned
  BY DEF CacheInv, Aligned, AnswersAligned
<1>2. QED
  BY <1>1, CacheInitInv, CacheNextInv, PTL DEF CacheSpec

\* No key answers with the embedding of another text, memory is bounded and has
\* each key once, and a torn file has a writer or one that was interrupted.
THEOREM CachesAlwaysSound == CacheSpec => []CachesSound
<1>1. CacheInv => CachesSound
  BY DEF CacheInv, Cached, CachesSound, OwnEmbeddings
<1>2. QED
  BY <1>1, CacheInitInv, CacheNextInv, PTL DEF CacheSpec
=============================================================================
