# A TLA+ verification project for the agent memory systems

This directory holds TLA+ models of the memory systems of this repository
(`day_47` to `day_54`), the configurations with which TLC checks them on small
instances, and proofs that TLAPS checks for every instance.  It says what the
code is relied on to do, where it does it, and where it does something else.

Paths below are relative to the repository; `tla/` is this directory.

- [1. The system](#1-the-system)
- [2. The modules](#2-the-modules)
- [3. The runs](#3-the-runs)
- [4. Fairness](#4-fairness)
- [5. What is proved](#5-what-is-proved)
- [6. Where code and words part](#6-where-code-and-words-part)
- [7. What only TLC checks, and what is not modelled](#7-what-only-tlc-checks-and-what-is-not-modelled)
- [8. Plan](#8-plan)

## 1. The system

A library of memory systems for an AI agent.  Each day's directory is a layer
on those before it; objects call one another directly, in one process.
Behaviour is more than one call after another in six places: database accesses
that fail and are retried, several processes on one database or one vector
collection, a directory of cache files that processes share, thread pools that
fan a query out, and threads that share a `ProfileRetrieval`, a
`SecureProfileStorage` or a `MemoryCoordinator`.

| component | state it keeps | operations that change it | hard about it | module |
|---|---|---|---|---|
| `day_48/persistence_manager.py`, `sql_store.py` | table `memories`; per manager a FIFO cache | save, retrieve (cache), update, delete, bulk_save | errors after a commit, retries, other managers' commits | `PersistenceManager` |
| `day_48/memory_storage.py` | a dictionary | save, update, delete | objects shared with the caller | `MemoryStorage` |
| `day_49/event_store.py` | events, ordered timeline, relation in the event objects | store, link, delete | equal timestamps, self-links | `EventStore` |
| `day_49/experience_tracker.py` | experiences in the order logged | log, add_feedback | late scores, windows at the boundary | `ExperienceTracker` |
| `day_50/fact_store.py` | facts, four indexes, relationships | store, update, delete, link, unlink | indexes against in-place changes, cleaning up | `FactStore` |
| `day_50/knowledge_graph.py` | nodes, edges, three indexes, two adjacency tables | add, update, remove | cascades, self-loops, searches with bounds | `KnowledgeGraph`, `GraphSearch` |
| `day_50/rag_integration.py` | documents twice, in a collection and a dictionary; a map to facts | add, batch, delete, retrieve | two stores that drift apart, facts deleted under their documents | `RAGIntegration` |
| `day_51/hybrid_memory.py` | the four stores above, cross-links | store, delete, cross_link | one id in several sources, swallowed errors | `HybridMemory` |
| `day_51/memory_router.py` | scores, history | route, record_outcome, reset | learning that feeds on its own decisions | `MemoryRouter` |
| `day_51/cross_type_queries.py`, the queries of `day_52/memory_coordinator.py` | a pool of threads per call | none of the memory | order of completion, failures, changes meanwhile | `CrossTypeQueries` |
| `day_52/memory_coordinator.py` | event queue, sync states, two locks | emit, process, clear, store, synchronise | handlers outside and inside the lock, state read in parts | `MemoryCoordinator` |
| `day_52/unified_memory.py` | the subsystems | store, delete, build_context, clear | ids that are places in a list | `UnifiedMemory` |
| `day_52/type_selector.py` | learned patterns, cache, outcomes | select, record_outcome, set_algorithm, reset | cached answers against learning | `TypeSelector` |
| `day_53/embedding_generator.py` | an LRU cache, JSON files | generate, generate_batch, clear | torn files, positions of hits and misses | `EmbeddingCache` |
| `day_53/vector_store.py` | handles by name; the collection | create, delete, add, update | handles of collections that are gone | `VectorStore` |
| `day_53/rag_system.py` | counts | index, query, clear_stats | partial failures, averages | `RAGSystem` |
| `day_54/profile_retrieval.py` | two tables, three caches, a connection pool | reads (caches), store_profile, close | threads, SQLite locks, open transactions in the pool | `ProfileRetrieval` |
| `day_54/user_profile.py`, `profile_storage.py` | encrypted rows, an audit log, tokens | store, retrieve, update, delete | version never compared, two databases | `ProfileStorage` |
| `day_47/conversation_manager.py` | the message list | add, set_strategy, clear | slices at the boundary | `ConversationManager` |
| `day_47/context_manager.py` | the component list | add, remove, clear | selection and truncation under a budget | `ContextManager`, `ContextSelection` |
| `day_47/token_counter.py` | usage, budgets, alerts | track, allocate, reset | alerts that outlive their cause | `TokenBudget` |

How they interact: `PersistenceManager` calls a storage; `HybridMemory` calls
the event store, experience tracker, fact store and graph and swallows their
errors; `CrossTypeQueries` and `MemoryRouter` call `HybridMemory`;
`UnifiedMemory` holds a `HybridMemory` and the `day_47` managers;
`MemoryCoordinator` calls `UnifiedMemory`, reads the counters of its parts
without a lock of theirs, and calls an event handler of the user's;
`ContextManager` takes snapshots of a `ConversationManager`; `RAGIntegration`
and `RAGSystem` mirror the fact store and the graph in a vector store.
`ProfileRetrieval` and `SecureProfileStorage` stand alone over SQLite.

The modules follow these calls.  `HybridMemory` extends `EventStore`,
`RAGIntegration` extends `FactStore`, `UnifiedMemory` extends `ContextManager`
which extends `ConversationManager`, `RAGSystem` extends `VectorStore`;
`SequenceParts` holds what Python's comprehensions return, for the modules that
take parts of lists.
Components that one run holds side by side, as `EmbeddingCache` beside
`RAGSystem`, are extended by its MC module together; their names are chosen so
that they can be, and proof modules extend them in the same way.  The
indexer of `day_53` reads nothing of its stores but ids and contents, so
`RAGSystem` instantiates `LinkedItems`, the abstract memory that `FactStore` and
`KnowledgeGraph` are proved to implement.

The hazards of the code, each at its line and with the properties that would
catch it, are listed in `PROJECT.json` under `hazards`.

## 2. The modules

State variables and actions carry the names of the fields and methods they
model.  Data no property distinguishes (contents, descriptions, time stamps,
counters that no guard reads) is left out, and each module's head says what.
An operator whose comment begins with *Seeded fault* is a wrong version of the
definition under it and is used by no specification: it is the bug against
which a property has been tried (`mutants` in `PROJECT.json` says which), and
each property of a passing run is violated when its fault is put in place.
Each module has a type invariant; it is a part of the inductive invariant where
there are proofs.

### PersistenceManager, MemoryStorage (day_48)

A manager runs one call at a time; a call is a sequence of database accesses
(`access`, `commit`, `refresh`, `confirm`), each an action; the accesses of
several managers on one database interleave.  `Fail` is `SQLAlchemyError` at
any access that `_retry` covers, `RetryOrRaise` the rest of the loop, `Restart`
the end of a process between any two steps.  `refresh` is the re-read that
`to_memory()` makes because the session expires its objects on commit: it is
the one access that fails *after* the change is durable.

- `CacheBounded`: the cache respects `cache_size` and knows its keys.
- `StaleOnlyWithCause`: a cache entry differs from the table only if another
  manager committed to the row or the manager's own re-read after a commit
  failed.  Both causes are real: the history variable `excused` records them,
  and with any further one the invariant fails.
- `MetadataLostOnlyByOverlap`: `update` merges metadata; a key is lost only
  when the row changed between the read and the write of the merge.
- `EveryCallEnds`: retries are bounded.

The code is exposed to more, which the model shows and no property forbids: a
`save` whose re-read failed is retried and stores a second row under a new
uuid, or, with an id given, conflicts with its own row until it is reported as
a `PersistenceError`; a `delete` that finds no row leaves the cache entry.

`MemoryStorage` gives the two backends of `MemoryStorageInterface` the same
calls.  Objects are identities in a `heap`: the in-memory backend keeps the
caller's metadata dictionary, and hands out its own objects.

What a row makes of them is `Str` (`str(content)`) and `Json` (an entry of the
metadata, read back or refused): constants, of which nothing is assumed but
their types.  In the run two contents, `7` and `"7"`, become the same text, and
one entry is refused.

- `BackendsAgree`: under an id the backends hold the same memory and give the
  same answers, until it is saved while the table has it, it is given a content
  or metadata that a row does not give back as they were, or its dictionary is
  written to by a caller or through a memory that shares it.

### EventStore, ExperienceTracker (day_49), HybridMemory (day_51)

`InsertionPoint` is the binary search of `_insert_in_order`.  `Delete` and
`DeleteSelfLinked` are the two ways `delete` ends: Python raises when a set
changes while it is iterated over, and the set's order, which decides what has
been cleaned up by then, is any order.

- `TimelineSound`, `ArrivalOrderKept`: ordered, complete, and stable for equal
  timestamps.
- `OneWayOnlyAfterFailedDelete`: the relation is symmetric but for events whose
  delete has failed.  `RelationshipsBidirectional`, the claim of the documents,
  is refuted.  The delete that fails has taken the event out of its own set, so
  that a second one succeeds.

`HybridMemory` extends `EventStore` with the ids of the other three sources and
the cross-links.  `HybridDelete` is `delete`: it falls through the sources in
order and past every error, so that a half-failed event delete may be followed
by the deletion of a fact with the same id.

- `LinksJoinItems`: the clean-up by bare id leaves no link to an item its named
  source no longer holds.
- `FoundIsDeletable`, the claim of the README, is refuted by experiences.

`ExperienceTracker` keeps the experiences and the feedback that comes later;
lessons and trends are operators over them.

- `LearningSound`: every experience, those without a score too, counts in the
  lesson of its action and in no other, and whether scores improve depends on
  the last two windows and on nothing older.

### FactStore, KnowledgeGraph, GraphSearch, LinkedItems (day_50)

One action per method; dictionaries of sets are total functions, since a
missing key and an empty set are treated alike everywhere.  A method that takes
something out of the indexes, changes it and puts it back is one action.

- `QueryIsScan`: what an intersection of indexes returns is what a scan would.
- `RelationsSound`, `EdgesAnchored`: what is deleted leaves nothing behind that
  a later item of the same id could inherit.
- `TraverseByDistance`, `SearchSound`: the searches against definitions by
  walks that share nothing with them, for every start, end, filter, direction
  and depth bound, in every reachable graph.

`LinkedItems` is what both stores promise: items under ids, and links that can
be made between items that exist only and go with either of them.  `FactStore`
implements it with symmetric sets, `KnowledgeGraph` with directed edges, several
of which may stand for one link; the refinement mappings are `table` and `links`
in each module's `INSTANCE`.  The graph's is checked by TLC
(`ImplementsItems`), and both are proved.  `GraphSearch` adds the searches to
`KnowledgeGraph`: a round of a search is a step from one record of queue,
visited nodes and parents to the next, and the rounds are a recursive function.

### RAGIntegration (day_50)

The vector store keeps every document in the Chroma collection and in a
dictionary.  `AddBatch` fills the dictionary item by item and the collection at
the end; `Reopen` is a new `VectorStore` over a collection that has documents.
A search returns any of the documents in any order: `Retrieved` is the loop
that maps them to facts, skips those deleted and adds related ones.

- `StoresAgree`: the two differ in documents of a failed batch or of an earlier
  store only.
- `RetrievedOnce`: every fact found that exists is listed, each once, and with
  `include_related` nothing but facts related to those.

### MemoryRouter, CrossTypeQueries (day_51), TypeSelector (day_52)

`CrossTypeQueries` splits a call into tasks, each of which asks the episodic
stores and then the semantic ones.  Workers take tasks in order, finish in any
order, and may fail; `Change` is another thread that stores or deletes an item
meanwhile.  Six kinds of calls: combined, sequential, parallel, multi-hop, and
the coordinator's two.

- `ResultsRight`: an item that was in memory all through a call and matches a
  query of it that did not fail is in the result, or one of its id is, or the
  limit cut it off; the result holds nothing that never matched and no id
  twice; and no query is left running when the call is over.
- `EveryCallEnds`: with fewer workers than queries, and any of them failing.

`MemoryRouter` and `TypeSelector` see a query as its keyword counts.

- `RoutingSound`: a decision names sources of its type, however it came about;
  and past the first three queries the scores of an intent that are close are
  changed by no routing (see section 6).
- `SelectionSound`: with an algorithm that does not learn a cached selection is
  what the algorithm would answer now, also after the algorithm was swapped; a
  report of results never turns queries away from the layer reported on.

### MemoryCoordinator (day_52)

Threads take critical sections: `AppendEvent` and `HandleEmitted` are the
locked and the unlocked half of `_emit_event`, `ProcessEvent` one handler call
under the lock, `ReadPart` one counter of `_get_layer_state`, `Record` and
`ReportConflict` the two ends of a layer's synchronisation.  `ChangeDirectly`
is any change of the memory not made through the coordinator.  An event object
is one of `Events` and is free again when nothing refers to it.

- `AcceptedAtMostTwice`: by its emitter and by one `process_events`.
- `ConflictsExplained`: a synchronisation finds a conflict only in a layer of
  which a counter changed since that counter was read for the record.  That is
  less than "Unexpected state change" says: a change between two of the reads is
  a cause too, and the conflict it makes is false (see section 6).  What is
  ruled out is any further cause, such as a record of another thread's read.

### UnifiedMemory (day_52), ContextManager, ContextSelection, ConversationManager, TokenBudget (day_47)

`LastOf` is Python's `[-k:]` for every integer `k`.  `ContextManager` is the list
of components, `ContextSelection` the choice among them.  `HandleOverflow` is a set
of results because how many words of a truncated component fit is left open.
Where numbers of a list are added up, as tokens are here, spending in
`TokenBudget` and lessons in `ExperienceTracker`, the sum is written as the size
of a set that holds each number's tokens under its place.

- `HistorySound`, `KeptByStrategy`: what each truncation strategy keeps.  Under
  truncation by importance (`ImportantKept`) every important message in the
  history stays and the oldest of the others go first; but the message added
  is dropped when the important ones fill the history with it (see section 6).
- `ContextSound`: the context fits the budget but for the ellipsis of a
  truncated component; a critical component is dropped only when critical ones
  have used up the budget; `select_components` leaves out nothing that fits (the
  truncation after it may make room again).
- `IdsHoldUntilTruncated`: the id of a message, which is its place in the
  history, gets that message until the history is truncated.
- `BudgetSound`: allocations never add up to more than the total; every overrun
  has its alert unless it was cleared or the budget came later; the alert about
  the total stands only while it is exceeded.

### EmbeddingCache, VectorStore, RAGSystem (day_53)

`EmbeddingCache` is the two-level cache: an LRU list per process and shared
files, which are truncated when they are opened (`Torn`) and whole when the
write is through, so that a crash, an error or a second writer shows.  A call
walks over its texts in batches.

- `AnswersAligned`: every text gets its own embedding, in its place, however
  hits, misses, repetitions, evictions and batches mix.
- `CachesSound`: no key ever answers with another text's embedding; a torn file
  is being written, or was left by a writer that crashed, failed or was not
  alone.

`VectorStore` models the handles of collections: each names one creation of the
collection, and is of no use once that is deleted.  `RAGSystem` indexes a
changing memory through one store while other stores use the collection, and
answers queries that may fail in any of four steps.

- `IndexSound`: a document says something else than its item only if the item
  or the document was changed after it was indexed, and a handle is stale only
  by another store's deletion.
- `ReportIsTrue`: the counts of a pass add up, and an item counted as indexed
  has a document unless that was deleted since.
- `StatsSound`: total and failures are what the callers were told (`told`); the
  successes are one too many for each query that failed after its success was
  counted, when the response asked the provider for its dimension (`Respond`,
  see section 6); the average is within what queries found.

### ProfileRetrieval, ProfileStorage (day_54)

A call of a thread on `ProfileRetrieval` is a sequence of critical sections: one
cache operation, one pool operation, one SQL statement.  SQLite's part is
modelled as its default rollback journal behaves through Python's `sqlite3`: an
INSERT opens a transaction that only `commit` ends, an exception leaves it open
in the pooled connection, and a commit that meets a reader times out holding
the pending lock.  `draft` is what the writing connection sees.

- `PoolSound`: a connection serves one call, is not in the pool meanwhile, and
  the pool respects `max_connections`, also when `close` closes connections in
  use.
- `StaleOnlyWithCause`: a cache entry differs from the database only between a
  store's commit and its invalidation of that cache, or if a commit came
  between a read and its `put`, the read saw uncommitted rows, or a store
  committed the rows a failed store of another user had left.
- `TornOnlyAfterFailure`: a user's profile and preferences are from the same
  store, unless a store of the user failed between its INSERTs.

The first cause is the classic one: a reader selects the old row, a store
commits and invalidates, the reader puts the old row; in the LRU cache it stays
until the next store of that user, against `profile_retrieval.py:702` "Store
profile in database and invalidate cache." and `:750` "Invalidate all cached
data for a user."

`ProfileStorage` lets clients edit profile objects and pass them to a shared
storage, whose calls authorise a token and then make up to three accesses in
transactions of their own; the audit log is another database.  `Midnight` is
the expiry of tokens, `Restart` the end of the process between any two steps.

- `ChangedByOwnerOrAdmin`: whoever logs in, out or expires meanwhile, a profile
  is changed for its owner or an administrator and removed for the latter.  The
  profile without a user_id (`NoId`) has no owner, and is changed for every
  account (see section 6).
- `LostOnlyByStaleCopy`: a stored profile loses an edit only in the write of a
  copy that was not made from the row as it is.
- `LogTellsState`: between calls the newest audit entry of a change tells
  whether the profile exists, unless an entry was lost to an error or a crash
  or calls overlapped.

## 3. The runs

| run | shows |
|---|---|
| `persistence_shared` | `StaleOnlyWithCause`, `MetadataLostOnlyByOverlap`; `BackendsAgree` |
| `persistence_solo` | `CacheBounded`, `EveryCallEnds` |
| `hybrid_memory` | `TimelineSound`, `ArrivalOrderKept`; `OneWayOnlyAfterFailedDelete`, `LinksJoinItems`; `LearningSound` |
| `event_store_bidirectional` | `RelationshipsBidirectional` is violated |
| `hybrid_delete` | `FoundIsDeletable` is violated |
| `knowledge_graph` | `EdgesAnchored`, `SearchSound`, `ImplementsItems` |
| `rag_integration` | `RelationsSound`, `QueryIsScan`, `TraverseByDistance`; `StoresAgree`; `RetrievedOnce` |
| `queries` | `ResultsRight`, `EveryCallEnds`; `RoutingSound`; `SelectionSound` |
| `memory_coordinator` | `AcceptedAtMostTwice`, `ConflictsExplained`; `LogTellsState`, `LostOnlyByStaleCopy`, `ChangedByOwnerOrAdmin` |
| `unified_memory` | `HistorySound`, `KeptByStrategy`, `ContextSound`; `IdsHoldUntilTruncated`; `BudgetSound` |
| `rag_system` | `IndexSound`, `ReportIsTrue`; `StatsSound`; `AnswersAligned`, `CachesSound` |
| `profile_retrieval` | `PoolSound`, `StaleOnlyWithCause`, `TornOnlyAfterFailure` |

Most runs hold several workloads, of one component each or of one component
under different calls: the variable `workload` is chosen in the initial state
and never changes, so that the state space is the disjoint union of the
workloads', and what a property says of one is not weakened by the others.  The
MC modules say which there are and what each restricts.

The instances, and why they are enough for the questions asked:

- `persistence_shared`: two managers, one row, two metadata keys, two attempts,
  a cache of one; or, for the two backends, two ids, one shared dictionary, two
  contents and three entries of metadata of which JSON keeps one, changes one and
  refuses one.
  `persistence_solo`: one manager, one name, two uuids, two contents, a cache of
  two.  Every hazard listed is a race of two, eviction happens at once, and two
  attempts make both branches of the retry loop reachable.
- `hybrid_memory`: three events over three timestamps exercise both halves of
  the binary search and ties on either side; two ids free for all four sources;
  three experiences of two actions, with scores 0.2, 0.9 and one out of range, and
  a window of one (longer windows are the theorem's, for every size).
- `knowledge_graph`: three nodes, three edges of two types give cycles,
  self-loops, parallel edges and a two-edge path beside a one-edge one.  With
  three nodes a breadth-first and a depth-first queue return paths of the same
  length: the order of the queue as such is not distinguished.
- `rag_integration`: three facts of two subjects and objects; two facts and a
  document of the caller's with batches of two; three related facts retrieved
  in every order.
- `queries`: an event and a node of one id, a fact and an experience, words that
  match one, both or neither; two workers for three queries; two changes of the
  memory meanwhile; the router's scores within six steps of 0.02 of their start
  and an exploration threshold of 5; the selector's patterns up to 4.  The
  counts of queries (`query_count`, the router's is `routed`) stop at the
  thresholds that the code compares them to.
- `memory_coordinator`: two threads, two layers, two counters, two event
  objects; or an owner, a stranger and an administrator, two clients, two
  versions, one refused edit at a time; or the same with the profile that has no
  user_id, one client at a time, as who may change it does not depend on another.
- `unified_memory`: a history of two out of three messages, three components,
  budget of four; the stores behind it with one item, messages in three roles;
  two components' budgets
  of 0 to 5 against a total of four.  The 1000 tokens of the size penalty are
  scaled to `Large`.
- `rag_system`: two facts and two documents of the caller's, two texts, two
  stores, two creations of the collection, three queries; two processes and two
  texts, or one process and three texts in batches of two with a cache of two.
- `profile_retrieval`: two threads; two users' profiles through the LRU cache,
  or one user's preferences, metadata and search through the TTL caches, each of
  size one, a pool of one.  The workloads split the kinds of reads between them,
  as the caches are disjoint.  `CleanupEvery` is 1: every `put` of a TTL cache
  cleans up, as every hundredth size does in the code.  With one value of
  profiles, stale means the row that is not there yet.

Bounds that are guards in the modules: `UuidsLeft` (saves without an id),
`EventsFor` (event objects), `MaxCount` (counters; a version is 0 or more than
0, as the code asks), `MaxAdded` (messages), `MaxComponents`, `MaxItems`,
`MaxUsed` (tokens), `MaxQueries`, `MaxCollections`, `MaxChanges`, `MaxScore`,
`MaxLearned`, `MaxOutcomes`, `MaxVersion`.

Symmetry is declared over identifiers the specifications do not order: managers
and metadata keys, ids of events, facts, nodes and edges, threads and
connections.  No run with symmetry checks liveness.

The two runs that end in a violation are findings about the code:

- `event_store_bidirectional`: store `v1`; store `v2` related to `v1`; link `v1`
  to itself; delete `v1`.  The delete raises after `v2` may have forgotten `v1`,
  and `v1` stays, related to `v2`, until it is deleted again.
- `hybrid_delete`: store an experience; `get` finds it, `delete` does not.

## 4. Fairness

Two specifications state fairness.

`SoloSpec` of `MCPersistenceManager` has `WF_vars(Step(m))` for each manager, as
`PersistenceManager!Spec` does: the steps of a call in progress.  A thread that
has begun a call goes on with it: it waits only for the database, which answers
or raises, and sleeps for a finite time between attempts.  Nothing is assumed
about whether accesses succeed: `EveryCallEnds` holds although `Fail` may happen
every time.

`MCSpec` of `MCTypeSelector` has weak fairness of `Worker` and of `Caller` of
`CrossTypeQueries`: some thread of the pool that has a task goes on with it, and the
thread that waits in `as_completed` goes on once a future is done.  A
`ThreadPoolExecutor` runs what was submitted to it, and a query reads
dictionaries without waiting for a lock.  Which worker goes on is not assumed,
nor that a query succeeds.

Beginning a call is never fair: nobody need call.  The threads of the other
modules wait for locks under which user code runs (`MemoryCoordinator`) or for a
database that another process may hold (`ProfileRetrieval`, `ProfileStorage`),
and no liveness is claimed for them.

## 5. What is proved

TLAPS checks the theorems for every value of the constants.  Each proof module
extends the modules it is about, states an inductive invariant as a conjunction
of named parts, and proves that the initial states satisfy it and every step
keeps it, one lemma or step per action.

| module | about | theorems |
|---|---|---|
| `PersistenceManagerProofs` | `PersistenceManager` | `InvHolds`, `TypeCorrect`; `StalenessExplained` (`StaleOnlyWithCause`); `MetadataLossExplained` (`MetadataLostOnlyByOverlap`); `CacheAlwaysBounded` (`CacheBounded`) |
| | `MemoryStorage` | `BackendsAlwaysAgree` (`BackendsAgree`) |
| `HybridMemoryProofs` | `EventStore`, `HybridMemory` | `TypeCorrect`; `RelationHolds` (`OneWayOnlyAfterFailedDelete`); `LinksHold` (`LinksJoinItems`); `TimelineAlwaysSound` (`TimelineSound`); `ArrivalOrderAlwaysKept` (`ArrivalOrderKept`) |
| | `MemoryRouter` | `RoutingAlwaysSound` (`RoutingSound`) |
| | `TypeSelector` | `SelectionAlwaysSound` (`SelectorTypeOK`, `SelectionSound`) |
| | `CrossTypeQueries` | `QueriesTyped`; `ResultsAlwaysRight` (`ResultsRight`) |
| | `ExperienceTracker` | `LearningAlwaysSound` (`TrackerTypeOK`, `LearningSound`) |
| `FactStoreProofs` | `FactStore` | `FactStoreInv`, `TypeCorrect`; `RelationsAlwaysSound` (`RelationsSound`); `QueriesAreScans` (`QueryIsScan`); `TraversesByDistance` (`TraverseByDistance`, for every depth); `StoreImplementsItems` (refinement of `LinkedItems`) |
| | `RAGIntegration` | `RAGInvHolds`; `StoresAlwaysAgree` (`StoresAgree`); `AlwaysRetrievedOnce` (`RetrievedOnce`) |
| `KnowledgeGraphProofs` | `KnowledgeGraph` | `KnowledgeGraphInv`, `TypeCorrect`; `EdgesAlwaysAnchored` (`EdgesAnchored`); `QueriesAreScans`; `SubgraphsClosed`; `GraphImplementsItems` (refinement of `LinkedItems`) |
| | `GraphSearch` | `SearchAlwaysSound` (`SearchSound`, and its parts for every depth) |
| `MemoryCoordinatorProofs` | `MemoryCoordinator` | `EventsAcceptedAtMostTwice` (`AcceptedAtMostTwice`); `ConflictsAlwaysExplained` (`ConflictsExplained`) |
| | `ConversationManager` | `HistoryAlwaysSound` (`HistorySound`); `StrategiesAlwaysKeep` (`KeptByStrategy`) |
| | `UnifiedMemory` | `UnifiedTypeCorrect`; `UnifiedHistorySound` (`HistorySound`); `IdsAlwaysHold` (`IdsHoldUntilTruncated`) |
| | `ContextSelection` | `ContextAlwaysSound` (`ContextTypeOK`, `ContextSound`), and with `UnifiedMemory` around it `UnifiedContextSound` |
| | `TokenBudget` | `BudgetsAlwaysSound` (`BudgetSound`) |
| `RAGSystemProofs` | `RAGSystem` | `IndexAlwaysSound` (`IndexSound`); `ReportAlwaysTrue` (`ReportIsTrue`); `StatsAlwaysSound` (`StatsSound`) |
| | `EmbeddingCache` | `AnswersAlwaysAligned` (`AnswersAligned`); `CachesAlwaysSound` (`CachesSound`) |
| `ProfileRetrievalProofs` | `ProfileRetrieval` | `PoolHolds` (`PoolSound`); `RowsOfOneStore` (`TornOnlyAfterFailure`); `StalenessHasCause` (`StaleOnlyWithCause`) |
| | `ProfileStorage` | `StorageInvHolds`; `ProfileChangesAuthorized` (`ChangedByOwnerOrAdmin`); `LossesExplained` (`LostOnlyByStaleCopy`); `LogAlwaysTells` (`LogTellsState`) |
| `DataLemmas` | | lemmas only: least numbers, induction and recursion over them; sequences with an element put in or taken out, in order, and parts of parts; binary search |

The library's theorems on induction take an operator, which the provers cannot
instantiate.  `DataLemmas` goes another way: strict inclusion of finite sets is
well-founded, so a set of numbers has a least one (`Least`), a set of numbers
that has 0 and the successor of each of its members has them all (`Induction`),
and a function exists that is defined at each number from the one before it
(`Recursion`, whose step is a function).  On these rest the proofs about what
recursive functions compute: the binary search of the timeline
(`HalvingExists`, `HalvingFinds`), the levels of `traverse`, the loop of
`retrieve`, the rounds of a graph search, the passes over the components of a
context.  What a definition takes by CHOOSE, the order of a sort or of a
comprehension, is shown to exist: a finite set can be listed by any order that
is total on it (`Sortable`), numbers in ascending order (`ListedInOrder`,
`AtPlacesIs`).

Why the properties alone are not inductive, and what is added:

- `FactStore`, `KnowledgeGraph`: `IndexesExact`, an id is in the index set of a
  value exactly if it is stored with that value.  An operation removes an id
  from the sets of the *old* values only, so that without exactness a stray id
  could stay behind; and the equality of queries with scans is one set equation
  away from it.  The refinements prove that initial states map to initial
  states and each action to one of `LinkedItems` or to a stutter; for the graph
  this rests on `EdgesAnchored`, as a link goes with the last of its edges.
- `traverse`: by induction on the depth, what is visited after `d` levels is
  what a chain of at most `d` relationships reaches.  `LevelIsDistance` says so
  at every depth, and needs of the state that relationships are typed and join
  stored facts.
- `GraphSearch`: the state is that of `KnowledgeGraph`; the induction is on the
  rounds of one search.  Between rounds (`Searched`) a queued path is a walk to a
  visited node that no walk reaches in fewer steps (`Queued`), the queue goes
  from shorter to longer paths, no two more than a step apart (`ByLength`), and a
  visited node is still queued, or its neighbours are visited, or it is too far
  away (`Expanded`).  It follows that all nodes nearer than the paths in the
  queue have been visited (`CloseVisited`), so that the first path to the end is
  a shortest one, and an empty queue means that there is none.  That the queue
  is empty after as many rounds as there are nodes is `Counted`: each round takes
  a path, and a node is queued once.
- `CrossTypeQueries`: `CallInv` says of a query in any of its steps what it has
  found (`FoundRight`): matching items that were in memory at some time of the
  call, and, of the stores it has read, all that were there all through it.
  `OneByOne` says that outside the pool one query runs at a time, so that a call
  that raises leaves none running.  Merging and ranking come at the end: by
  whatever order they sort, of every id they keep one item.
- `ContextSelection`: the state needs no more than its types (`ContextInv`); the
  inductions are on the components passed by each loop.  `ChosenWell`: the
  critical ones are chosen, what else is chosen fits, and what was passed over
  does not.  `TruncatedWell`: what is kept fits but for the ellipsis, and a
  critical component passed is kept, or critical ones have used up the budget,
  which needs that truncation comes to the critical ones first
  (`TruncatedStays`).
- `ExperienceTracker`: `TrackerTypeOK` is inductive; it says that the timeline
  lists every id once.  The places in the timeline and the numbers counted in
  the lessons are in bijection (`LessonsCover`), and the end of the end of a
  list is its end (`PartOfEnd`).
- `RAGIntegration`: `RAGInv` adds to the fact store's invariant that the facts
  and the documents are finitely many, without which the related facts of one
  have no order to be listed in.  For the loop of `retrieve`, its list is at each round without
  repetitions and holds the existing facts of the documents passed.
- `HybridMemory`: the two properties of relation and links are inductive
  together with the types; the work is in the delete, whose every partial
  outcome (`EventsKept`, `LinksKept`) has to keep both.  The timeline needs that
  the binary search ends at the first later event, which holds because the
  places that are not later are a beginning of the timeline: the order that the
  property asks for is what makes the next insertion right.
- `MemoryRouter`: `Fits` says of every decision, recorded or not, what
  `SourcesFitType` says of the last.  The action property is a case of the
  strategies: with close scores the decision is for both types or was made
  before the third query.
- `TypeSelector`: confidences are bounded by how shares and votes are computed;
  `StaleOnlyByLearning` is inductive with the types.  That a report turns no
  query away is a chain of lemmas about one answer and the next: a learned
  answer for the layer reported on gets surer, any other no surer, and one that
  changes goes to that layer (`Rises`, by `LearnedRises` and, where the
  heuristic gives way to what is learned, `FirstRises`); and a vote that rises
  so cannot lose the layer the majority (`VotedRises`).  The first maximum of a
  dictionary is unique (`FirstMaxOnly`), which is what the ties come down to.
- `MemoryCoordinator`: `AtMostTwice` adds to the acceptances an event has had
  those that are still possible - by the thread that emits it, by a
  `process_events` - and bounds the sum.  It needs `EmittersApart` (an event is
  one emitter's) and `BatchLocked` (only the holder of the lock has a batch, all
  of it in the queue).  For the records, `SyncLocked` (who synchronises holds
  the lock, so that nobody else writes a record meanwhile) and `ReadInOrder`: a
  synchronisation half-way has read the first counters of its layer, and each
  has the value read or is among those that changed since (`moved`), which are
  counters that changed since the record before it too (`drifted`).
- `ConversationManager`: `HistoryOK`, the messages are numbered in order and no
  more than `max_messages`; both may fail when `max_messages` is 1 and a
  strategy keeps a prompt, since `[-0:]` is everything, and the invariant says
  exactly that.  What a strategy keeps is described by the places it keeps
  (`KeptPlaces`), and what stands at places in order is a part of the history
  (`PartOf`).  For truncation by importance there are two cases: the places kept
  are all of them and the cut drops the last (`CrowdedKeepsAll`), or they are no
  more than there is room for and the cut drops nothing (`SelectiveKeeps`).
- `UnifiedMemory`: `StateOK` is stated of a record, as one `coordinate_store`
  adds to several subsystems one after the other and each addition has to keep
  it.  `Untruncated`: while no more than `max_messages` were added since the
  history was cleared, the place in an id is the place of its message, whatever
  the roles: it is only a truncation that moves a message.
- `TokenBudget`: types and `BudgetSound` are inductive together.  The sum of
  what is spent is the number of the tokens themselves (`TokensOf`), so that
  statements about sums are statements about the size of finite sets.
- `ProfileRetrieval`: `ConnsApart` (connections in calls and pool are disjoint),
  `StoresMade`, and `DraftSound`: one connection writes at a time, `draft` is
  the committed tables when none does, and where its two rows of a user differ,
  a store is between its inserts or one has failed.  For the caches,
  `CallsInOrder` and `ReadsSound`: the rows a read has in hand are those of the
  database, or a commit has come since and the read's call knows whose it was.
- `ProfileStorage`: `CallsAuthorized` carries the check at a call's start
  through its later accesses; `FreshCopies` says that a copy not marked stale
  has at least what the row has; `AloneTrue` that a call nobody overlapped still
  finds the row as it looked it up.
- `RAGSystem`: `PassSound`, that the items to index are stored ones, not counted
  yet, so that a count and a document come in the same step.  `StatsInv` is the
  property with its types: every step of a query keeps the counts in step with
  what the callers are told, and the average moves between what queries found.
- `EmbeddingCache`: `CallSound` says where in its batch a call is at each of its
  steps; a place passed and not missed has its result (`Aligned`); an entry of a
  memory cache is a text with its own embedding, each text once (`Cached`).
- `PersistenceManager`: `CallsSound` and `ReadsHold`, that before its commit an
  update that no other manager overlapped has read the row as it is.  For the
  size of the caches, `CachesInOrder`: the keys in order are the keys there are,
  each once.
- `MemoryStorage`: `OwnDictionaries`, a memory has the dictionary of a caller or
  one of its own; without it, a write to one dictionary could change two
  memories.  That what is read back of a faithful entry is the entry itself
  (`FaithfulReadBack`) is all the proof needs of the conversions.

Assumptions: the named `ASSUME`s of the modules (that `None` and its like are
none of the values they stand beside, that bounds, sizes and counts are natural
numbers, that names and uuids are disjoint, that the spenders of a budget are
finitely many, that `max_messages` is not 0, that nodes are finitely many, that
tokens, budgets and given scores are numbers), which TLC evaluates in the runs.
Six theorems say more in their statement: `PoolHolds`, `RowsOfOneStore` and
`StalenessHasCause` assume `MaxConnections >= 1` (the constructor sets up the
tables through the pool, which the modules' initial states leave with that one
connection), `LogAlwaysTells` that `Missing` is no call, `IndexAlwaysSound` and
`ReportAlwaysTrue` that the items are finitely many, as the report counts them.

## 6. Where code and words part

Two disagreements are checked, as the runs that end in a violation.  The others
were met when the modules were written; the modules follow the code, and their
properties are stated so as to be true of it.

| the words | the code | module |
|---|---|---|
| README.md:376 "Implements MemoryStorageInterface for full compatibility" | `memory_storage.py:65` puts a memory over one with the same id; `sql_store.py:74` raises `MemoryConflictError` | `MemoryStorage`: `parted` |
| README.md:376 "Implements MemoryStorageInterface for full compatibility" | `sql_store.py:64` keeps `str(content)` and `:65` JSON text, or raises TypeError; `memory_storage.py:65` keeps any object | `MemoryStorage`: `Str`, `Json` |
| `event_store.py:147` "Reconstruct full timeline (or last N events)." | `timeline(limit=0)` evaluates `_timeline[-0:]`, all events | |
| `hybrid_memory.py:365` "Get all memory items linked to the given ID via cross-links." | `:371` looks a linked id up in the sources in turn: an event with the id of a linked fact is returned in its place | |
| `experience_tracker.py:167` "Chronological list of scores for trend analysis." | in the order of logging, whatever the time stamps | `ExperienceTracker`: `ScoreTrend` |
| `test_rag_integration.py:459` `test_deleted_fact_skipped` | with `include_related`, `rag_integration.py:375` asks for the relations of the deleted fact and raises `FactNotFoundError` | `RAGIntegration`: `Raises` |
| `memory_router.py:260` "Learns from past query outcomes to improve routing over time." | a fallback to both types, taken when scores are close, earns no credit (`:342`): the scores stay close and the fallback stays | `MemoryRouter`: `RoutingSound` |
| `cross_type_queries.py:249` "Boost primary items slightly so they rank above secondary ties" | items start at a relevance of 1.0, to which `min(1.0, ...)` adds nothing | `CrossTypeQueries`: `Capped` |
| `memory_coordinator.py:584` "Store in specific layer via unified interface" | `store` is not told the layer; what is stored depends on the keyword arguments alone | `MemoryCoordinator` |
| `memory_coordinator.py:508` "Unexpected state change" | the counters of a layer are read one by one (`:474-491`): a store between two reads makes a record that was never the state, and the synchronisations after it find a conflict, though nobody changed the layer since | `MemoryCoordinator`: `ConflictsExplained` |
| `unified_memory.py:174` "Retrieve item by ID with optional layer scoping." | `msg_N` is a place in the list, and truncation moves the messages | `UnifiedMemory`: `IdsHoldUntilTruncated` |
| `unified_memory.py:389` "Clear all memory layers." | clears the conversation, the context and the token tracking; facts, nodes, events and experiences stay | `UnifiedMemory`: `ClearAll` |
| README.md:180 "Cross-type query patterns (combined, sequential, parallel)" | `unified_memory.py:321` passes `"episodic"` in the place of `kwargs`: the parallel pattern raises `TypeError` | |
| `type_selector.py:14` "SelectionOptimizer tracks outcomes and tunes selector weights over time." | `select` serves cached answers, which no outcome changes | `TypeSelector`: `SelectionSound` |
| `conversation_manager.py:74` "Keep important messages and recent context.", `day_47/README.md:79` "Retains messages marked as important plus recent context." | with `max_messages - 1` important messages in a full history a new important one is dropped, as `[-0:]` is everything and the cut keeps the first, and an old unimportant one stays (`:77`, `:88`); a new message that is not important is kept while there is room for it beside the important ones | `ConversationManager`: `ImportantKept` |
| `day_47/README.md:716` "Always preserve CRITICAL components" | a critical component that finds no budget left is dropped (`context_manager.py:190`) | `ContextSelection`: `ContextSound` |
| README.md:566 "Build context with automatic overflow handling" | `build_messages` sends every message of the conversation in place of the counted history | |
| `rag_system.py:306` "Index all facts and nodes from connected knowledge bases." | an item that changed after it was indexed keeps its old document and is counted | `RAGSystem`: `IndexSound` |
| `rag_system.py:484` "Update statistics" of a success | the response is put together after it, and `get_dimension()` (`:502`) may raise, as when the embedding of the query came from the disk cache and the model cannot be loaded (`embedding_generator.py:121`, `:182`): the query is counted as a failure too (`:509`) | `RAGSystem`: `StatsSound` |
| `demo_rag_system.py:134` "Average retrieved docs" | queries that found nothing weigh in, but do not update the average | `RAGSystem`: `StatsSound` |
| `profile_retrieval.py:702` "Store profile in database and invalidate cache." | a reader may put the row it read before into the cache after the invalidation | `ProfileRetrieval`: `StaleOnlyWithCause` |
| `profile_storage.py:191` "users can only access their own profiles unless admin" | `:192` asks for the owner only if there is a user_id; a guest's profile, which is not validated (`user_profile.py:135`), may have an empty one, and belongs to nobody | `ProfileStorage`: `Authorizes`, `ChangedByOwnerOrAdmin` |
| `user_profile.py:164` "# Rollback on validation failure" | the version goes back, the refused values stay in the object, and another call may store them | `ProfileStorage`: `UpdateProfileFails` |

## 7. What only TLC checks, and what is not modelled

Model-checked only, on the instances of section 3:

- Liveness (`EveryCallEnds`, twice): fairness and ENABLED are out of the
  prover's reach.
- The two claims that are refuted, as there is nothing to prove.

Every other property of a run is stated by a theorem of section 5.

Not modelled:

- `ConversationMemory` of `day_49/conversation_memory.py`: lists of messages
  under an id, without bound, order or sharing; `ConversationManager` models the
  history the rest of the system uses.
- Operations that only read one store: filters of queries, `list_profiles`,
  `get_audit_log`, statistics, `can_fit_in_budget`, `optimize_context`.  Also
  `update_edge`, whose change is to data left out, and `optimize_database`,
  which runs VACUUM and ANALYZE.
- The embedding providers, the encryption of profiles, the hashing of keys and
  tokens, tokenizers, formatting, logging.  A search is any of what there is to
  be found, in any order; a count of tokens is any of a small set.
- A handler that calls back into the coordinator.  `event_lock` is not
  reentrant and `process_events` holds it while the handler runs
  (`memory_coordinator.py:540`), so such a handler waits for itself; the
  library's own default handler does not call back.
- Identity of objects handed out, but for the in-memory backend: the event
  store keeps the caller's set of related ids, the embedding cache hands out the
  result object it holds, and the profile cache the `UserProfile` it holds
  (`profile_retrieval.py:461`, `:479`), so that a caller who edits it changes the
  entry before anything is stored: a cause of staleness beside those that
  `StaleOnlyWithCause` names of rows.
- Examples, demonstrations, tests.

## 8. Plan

What would come next, in this order:

1. Query filters and limits of `HybridMemory` beside `CrossTypeQueries`, against
   scans of the four sources.
2. A handler that calls back into `MemoryCoordinator`, with `event_lock` as a
   variable of its own.
3. `ConversationMemory`, with the tags and the search over messages.
4. Larger instances: four nodes in `knowledge_graph`, where the order of the
   queue of a search begins to matter; three threads in `profile_retrieval`.
