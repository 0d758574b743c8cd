------------------------------ MODULE RAGSystem ------------------------------
(***************************************************************************)
(* day_53/rag_system.py: a RAGSystem indexes the facts and nodes of its    *)
(* stores as documents of a VectorStore, which other processes may share,  *)
(* and answers queries in steps (embed, retrieve, generate from a context, *)
(* respond), counting them.  Facts and graph nodes are the items of        *)
(* LinkedItems, which both stores implement: the indexer reads nothing but *)
(* their ids and contents.                                                 *)
(*                                                                         *)
(* Text formatting and timings are left out: an item's content stands for  *)
(* the text made of it, a query for how many documents it finds.           *)
(***************************************************************************)
EXTENDS VectorStore, Sequences

CONSTANTS Own,        \* the VectorStore of the RAGSystem
          Sources,    \* ids of facts and nodes; other DocIds are made up
          MaxDocs,    \* max_retrieved_docs
          MaxQueries  \* bound: queries between two clear_stats

ASSUME RAGAssumption == Own \in Stores /\ Sources \subseteq DocIds /\ None \notin Texts

VARIABLES table,    \* the items of the stores: id -> content, or None
          phase,    \* what the RAGSystem is doing
          todo,     \* items index_knowledge_base has still to index
          report,   \* its counts: indexed (facts and nodes), errors
          found,    \* documents retrieved for the query
          stats,    \* counts of queries, and the average as a fraction
          counted,  \* history: items counted as indexed, ...
          passed,   \* ... items of the pass, ...
          taken,    \* ... documents another operation has removed since, ...
          altered,  \* ... items whose document the item has outrun, ...
          sizes,    \* ... how many documents each counted success found, ...
          told      \* ... and what the callers were told since clear_stats

rag == <<phase, todo, report, found, stats>>
past == <<counted, passed, taken, altered, sizes, told>>
vars == <<store, table, rag, past>>

Items == INSTANCE LinkedItems WITH Ids <- Sources, Contents <- Texts, Absent <- None,
                                   table <- table, links <- {}

Querying == {"embed", "retrieve", "generate", "respond"}
Phases == {"closed", "creating", "idle", "indexing"} \cup Querying

NoStats == [total |-> 0, successful |-> 0, failed |-> 0, average |-> <<0, 1>>]

\* late: of the failures, those of queries that were counted as a success.
NothingTold == [success |-> 0, failure |-> 0, late |-> 0]

TypeOK == /\ VectorTypeOK
          /\ table \in [Sources -> Texts \cup {None}]
          /\ phase \in Phases
          /\ todo \subseteq Sources
          /\ report.indexed + report.errors <= Cardinality(Sources)
          /\ found \in 0..MaxDocs
          /\ stats.total \in 0..MaxQueries
          /\ UNION {counted, passed, taken, altered} \subseteq DocIds

Init == /\ VectorInit
        /\ table = [i \in Sources |-> None]
        /\ phase = "closed" /\ todo = {} /\ found = 0
        /\ report = [indexed |-> 0, errors |-> 0]
        /\ stats = NoStats
        /\ counted = {} /\ passed = {} /\ taken = {} /\ altered = {} /\ sizes = <<>>
        /\ told = NothingTold

-----------------------------------------------------------------------------
(* __init__ takes the collection, or creates it when it gets none.         *)

Take ==
  /\ phase = "closed"
  /\ IF Handle(Own) # 0
     THEN /\ phase' = "idle"
          /\ handle' = [handle EXCEPT ![Own] = Handle(Own)]
     ELSE phase' = "creating" /\ UNCHANGED handle
  /\ UNCHANGED <<live, made, docs, bereft, table, todo, report, found, stats, past>>

Create ==
  /\ phase = "creating"
  /\ \/ CreateCollection(Own) /\ phase' = "idle"
     \/ live # 0 /\ phase' = "closed" /\ UNCHANGED store
  /\ UNCHANGED <<table, todo, report, found, stats, past>>

-----------------------------------------------------------------------------
(* Indexing.                                                               *)

\* The facts and the graph change between the calls of the RAGSystem.
ChangeSource ==
  /\ phase = "idle"
  /\ \E i \in Sources :
       /\ \/ \E c \in Texts : Items!Put(i, c, {}) \/ Items!Change(i, c)
          \/ Items!Remove(i)
       /\ altered' = altered \cup {i}
  /\ UNCHANGED <<store, rag, counted, passed, taken, sizes, told>>

\* index_document of a text of the caller's.
IndexDocument ==
  /\ phase = "idle"
  /\ \E d \in DocIds \ Sources, text \in Texts : AddDocuments(Own, [e \in {d} |-> text])
  /\ UNCHANGED <<table, rag, past>>

IndexKnowledgeBase ==
  /\ phase = "idle"
  /\ Items!Present # {}
  /\ phase' = "indexing"
  /\ todo' = Items!Present /\ passed' = Items!Present
  /\ report' = [indexed |-> 0, errors |-> 0]
  /\ counted' = {} /\ taken' = {}
  /\ UNCHANGED <<store, table, found, stats, altered, sizes, told>>

\* The pass goes on, and ends after its last item.
Onward(i) == /\ todo' = todo \ {i}
             /\ phase' = IF todo = {i} THEN "idle" ELSE "indexing"

\* Seeded fault: the content of another item.
TextOfAny(i) == table[CHOOSE j \in passed : TRUE]

TextOf(i) == table[i]

\* index_fact and index_node.
Index(i) ==
  /\ AddDocuments(Own, [e \in {i} |-> TextOf(i)])
  /\ report' = [report EXCEPT !.indexed = @ + 1]
  /\ counted' = counted \cup {i}
  /\ altered' = IF docs[i] = None THEN altered \ {i} ELSE altered

\* Seeded fault: an item is counted before its embedding or the collection fails.
CountFirst(i) ==
  /\ report' = [report EXCEPT !.indexed = @ + 1]
  /\ counted' = counted \cup {i}
  /\ UNCHANGED <<store, altered>>

\* The embedding or the collection fails, the latter with a handle or without.
IndexFails(i) ==
  /\ report' = [report EXCEPT !.errors = @ + 1]
  /\ UNCHANGED store \/ Through(Own, docs)
  /\ UNCHANGED <<counted, altered>>

IndexNext ==
  /\ phase = "indexing"
  /\ \E i \in todo : (Index(i) \/ IndexFails(i)) /\ Onward(i)
  /\ UNCHANGED <<table, found, stats, passed, taken, sizes, told>>

-----------------------------------------------------------------------------
(* Queries.                                                                *)

Query ==
  /\ phase = "idle" /\ stats.total < MaxQueries
  /\ stats' = [stats EXCEPT !.total = @ + 1]
  /\ phase' = "embed"
  /\ UNCHANGED <<store, table, todo, report, found, past>>

Embed ==
  /\ phase = "embed"
  /\ phase' = "retrieve"
  /\ UNCHANGED <<store, table, todo, report, found, stats, past>>

\* retrieve_knowledge: as many as there are, max_retrieved_docs at most, less
\* those that are not similar enough.
Retrieve ==
  /\ phase = "retrieve"
  /\ \E n \in 0..MaxDocs :
       /\ n <= Cardinality({d \in DocIds : docs[d] # None})
       /\ found' = n
  /\ Through(Own, docs)
  /\ phase' = "generate"
  /\ UNCHANGED <<table, todo, report, stats, past>>

\* The mean so far, as a fraction, with the n documents of one more success.
Average(average, n, successful) ==
  <<average[1] * (successful - 1) + n * average[2], average[2] * successful>>

\* build_context and generate_response; then the success is counted.  A query
\* that found nothing leaves the average.
Generate ==
  /\ phase = "generate"
  /\ LET done == stats.successful + 1 IN
     stats' = [stats EXCEPT
       !.successful = done,
       !.average = IF found > 0 THEN Average(@, found, done) ELSE @]
  /\ sizes' = Append(sizes, found)
  /\ phase' = "respond" /\ found' = 0
  /\ UNCHANGED <<store, table, todo, report, counted, passed, taken, altered, told>>

\* The response names the model and its dimension, for which get_dimension loads
\* the model or the client.
Respond ==
  /\ phase = "respond"
  /\ phase' = "idle"
  /\ told' = [told EXCEPT !.success = @ + 1]
  /\ UNCHANGED <<store, table, todo, report, found, stats, counted, passed, taken, altered, sizes>>

\* The caller is told of a failure.
TellFailure ==
  told' = [told EXCEPT !.failure = @ + 1, !.late = @ + (IF phase = "respond" THEN 1 ELSE 0)]

\* Seeded fault: only errors of the generator count as failures.
FailsUncounted ==
  /\ stats' = IF phase = "generate" THEN [stats EXCEPT !.failed = @ + 1] ELSE stats
  /\ TellFailure
  /\ phase' = "idle" /\ found' = 0
  /\ UNCHANGED <<store, table, todo, report, counted, passed, taken, altered, sizes>>

\* An empty query, or an error of the provider, the collection, the template or
\* the generator, ends in a response that says so; the provider may still fail
\* after the success was counted, if no embedding of this process made it load.
Fails ==
  /\ stats' = [stats EXCEPT !.failed = @ + 1]
  /\ TellFailure
  /\ phase' = "idle" /\ found' = 0
  /\ UNCHANGED <<store, table, todo, report, counted, passed, taken, altered, sizes>>

QueryFails == phase \in Querying /\ Fails

ClearStats ==
  /\ phase = "idle"
  /\ stats' = NoStats /\ sizes' = <<>> /\ told' = NothingTold
  /\ UNCHANGED <<store, table, phase, todo, report, found, counted, passed, taken, altered>>

-----------------------------------------------------------------------------
\* Other processes use the store at any time, the RAGSystem's own user between
\* its calls.
OtherStep ==
  /\ \E s \in Stores : (s = Own => phase = "idle") /\ StoreStep(s)
  /\ taken' = taken \cup {d \in DocIds : docs[d] # None /\ docs'[d] = None}
  /\ altered' = altered \cup {d \in DocIds : docs'[d] \notin {None, docs[d]}}
  /\ UNCHANGED <<table, rag, counted, passed, sizes, told>>

Next == \/ Take \/ Create \/ ChangeSource \/ IndexDocument \/ IndexKnowledgeBase \/ IndexNext
        \/ Query \/ Embed \/ Retrieve \/ Generate \/ Respond
        \/ QueryFails \/ ClearStats \/ OtherStep

Spec == Init /\ [][Next]_vars

-----------------------------------------------------------------------------
(* Properties.                                                             *)

\* A document that was indexed from an item says what the item says, unless
\* the item was changed or removed, or the document overwritten, after it was
\* indexed.
OutdatedOnlyWithCause ==
  \A i \in Sources : docs[i] \notin {None, table[i]} => i \in altered

\* What index_knowledge_base reports adds up to the items it was to index, and
\* an item it counts has a document, unless that was deleted since, be there
\* errors of the embedder, stale handles or deletions meanwhile.
ReportIsTrue ==
  /\ report.indexed + report.errors + Cardinality(todo) = Cardinality(passed)
  /\ report.indexed = Cardinality(counted)
  /\ \A i \in counted : docs[i] # None \/ i \in taken

\* total_queries counts the responses, whichever step a query ends in, and
\* failed_queries those that tell of a failure; successful_queries counts one
\* query too many for each that failed only when its response was put together,
\* which is counted twice.
QueriesAccounted ==
  /\ stats.total = told.success + told.failure + (IF phase \in Querying THEN 1 ELSE 0)
  /\ stats.failed = told.failure
  /\ stats.successful = told.success + told.late + (IF phase = "respond" THEN 1 ELSE 0)
  /\ told.late <= told.failure

\* The average number of documents found is positive when any query found one,
\* and no more than the most that one query found.
AverageInRange ==
  LET num == stats.average[1]
      den == stats.average[2]
  IN  /\ num > 0 <=> \E i \in 1..Len(sizes) : sizes[i] > 0
      /\ num > 0 => \E i \in 1..Len(sizes) : num <= sizes[i] * den

\* What a RAGSystem retrieves is what it indexed, and where it retrieves it from
\* is the collection that exists, but for what others did.
IndexSound == OutdatedOnlyWithCause /\ StaleHandleOnlyByOthers

\* What get_stats tells of the queries is true of them, but for the late failures.
StatsSound == QueriesAccounted /\ AverageInRange

=============================================================================
