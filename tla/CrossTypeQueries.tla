-------------------------- MODULE CrossTypeQueries --------------------------
(***************************************************************************)
(* Queries that fan out: day_51/cross_type_queries.py asks HybridMemory    *)
(* several times, in a thread pool or one after the other, and             *)
(* day_52/memory_coordinator.py asks several layers likewise.  Each asks   *)
(* the episodic stores and then the semantic ones, while other threads may *)
(* store and delete; a query may raise (an argument HybridMemory does not  *)
(* know, a dictionary that changes while it is read).                      *)
(*                                                                         *)
(* A query text is a word; an item is found by the words it holds.         *)
(* Relevance is in hundredths.  The filters of HybridMemory.query are left *)
(* out, and so is the working layer of the coordinator.                    *)
(***************************************************************************)
EXTENDS Integers, Sequences, FiniteSets, Functions

CONSTANTS Items,        \* [id, source, words, key, relevance, ts] of each item
          Texts,        \* the words asked for
          Calls,        \* the calls made: [kind, text, ranking, types, limit], limit 0 is none
          MaxWorkers,   \* threads of the engine's pool
          MaxChanges    \* bound: items stored or deleted by other threads

Kinds == {"combined", "sequential", "multi_hop", "parallel",    \* CrossTypeQueryEngine
          "layers", "coordinated"}                              \* MemoryCoordinator
Pooled == {"parallel", "coordinated"}
Skipping == {"layers", "coordinated"}
Hopping == {"sequential", "multi_hop"}  \* one query after the other
AskedTypes == {"episodic", "semantic", "both"}
Rankings == {"relevance", "timestamp", "source_priority"}
Joined == "joined"  \* several keywords in one text, which no item holds
Priority == [fact |-> 5, node |-> 4, event |-> 3, experience |-> 2]

ASSUME ItemsAssumption ==
  /\ IsFiniteSet(Items)
  /\ \A i \in Items : /\ i.source \in DOMAIN Priority /\ i.key \in Texts
                      /\ i.relevance \in Nat /\ i.ts \in Nat

ASSUME CallsAssumption ==
  /\ Calls \subseteq [kind : Kinds, text : Texts, ranking : Rankings, types : Seq(AskedTypes),
                     limit : Nat, status : {"none"}, result : {<<>>}]
  /\ MaxWorkers \in Nat /\ MaxChanges \in Nat

VARIABLES memory,       \* the items in the stores
          call,         \* the call under way or, with status # "open", the last one
          tasks,        \* its queries: [text, type, pc, found]
          lists,        \* the tasks whose results it has collected, in order
          changes,      \* history: stores and deletions by others
          throughout,   \* history: the items in memory all through the call
          ever          \* history: the items in memory at some time in the call

queryVars == <<memory, call, tasks, lists, changes, throughout, ever>>

TypeOf(i) == IF i.source \in {"event", "experience"} THEN "episodic" ELSE "semantic"

\* A store holds one item of an id.
Consistent(items) == \A i, j \in items : i.id = j.id /\ i.source = j.source => i = j

NoCall == [kind |-> "combined", text |-> Joined, ranking |-> "relevance",
           types |-> <<>>, limit |-> 0, status |-> "none", result |-> <<>>]

QueriesInit ==
  /\ memory \in {items \in SUBSET Items : Consistent(items)}
  /\ call = NoCall
  /\ tasks = <<>> /\ lists = <<>> /\ changes = 0
  /\ throughout = {} /\ ever = {}

-----------------------------------------------------------------------------
(* Ranking and merging.                                                    *)

Capped(n) == IF n > 100 THEN 100 ELSE n

\* _text_relevance.
TextRelevance(i, boost, text) ==
  LET relevance == Capped(i.relevance + boost) IN
  IF text \in i.words THEN Capped(relevance + 30) ELSE relevance \div 2

\* What rank_items sorts by; the coordinator has a ranking of its own.
Rank(i, boost) ==
  CASE call.kind \in Skipping           -> 100 * i.relevance + i.ts
    [] call.ranking = "timestamp"       -> i.ts
    [] call.ranking = "source_priority" -> 1000 * Priority[i.source] + Capped(i.relevance + boost)
    [] call.ranking = "relevance"       -> TextRelevance(i, boost, call.text) + Priority[i.source]

\* The items that a query finds, newest first.
Newest(items) == CHOOSE found \in [1..Cardinality(items) -> items] :
                   \A k, l \in DOMAIN found :
                     k < l => found[k] # found[l] /\ found[k].ts >= found[l].ts

\* The places <<n, k>> of the results, the k-th of the n-th list, in order.
Places == UNION {{n} \X DOMAIN tasks[lists[n]].found : n \in DOMAIN lists}
Earlier(p, q) == p[1] < q[1] \/ (p[1] = q[1] /\ p[2] < q[2])
ItemAt(p) == tasks[lists[p[1]]].found[p[2]]

\* The results of the first query of a sequential call are boosted.
RankAt(p) == Rank(ItemAt(p), IF call.kind = "sequential" /\ p[1] = 1 THEN 10 ELSE 0)

\* Seeded fault: nothing is merged.
MergedAll == Places

\* merge_items: the first item of each id, whatever its source.
Merged == {p \in Places : \A q \in Places : Earlier(q, p) => ItemAt(q).id # ItemAt(p).id}

\* A stable sort, highest rank first, and the limit.
Better(p, q) == RankAt(p) > RankAt(q) \/ (RankAt(p) = RankAt(q) /\ Earlier(p, q))
Sorted == CHOOSE order \in [1..Cardinality(Merged) -> Merged] :
            \A m, n \in DOMAIN order : m < n => Better(order[m], order[n])
Ranked == LET count == Cardinality(Merged)
              order == Sorted
          IN  [n \in 1..(IF call.limit \in 1..count THEN call.limit ELSE count)
                 |-> ItemAt(order[n])]

-----------------------------------------------------------------------------
(* The caller.                                                             *)

Task(text, type) == [text |-> text, type |-> type, pc |-> "queued", found |-> <<>>]

\* A sequential or multi-hop call makes its queries one at a time.
Begin(c) ==
  /\ call.status # "open"
  /\ call' = [c EXCEPT !.status = "open"]
  /\ tasks' = [n \in {n \in DOMAIN c.types : c.kind \in Hopping => n = 1}
                |-> Task(c.text, c.types[n])]
  /\ lists' = <<>>
  /\ throughout' = memory /\ ever' = memory
  /\ UNCHANGED <<memory, changes>>

\* _default_bridge: the keywords of the results, as one text.
Hint(found, text) ==
  LET keys == {found[k].key : k \in DOMAIN found} IN
  CASE keys = {} -> text
    [] Cardinality(keys) = 1 -> CHOOSE key \in keys : TRUE
    [] OTHER -> Joined

\* Texts of the next query; a hop may have a bridge, which chooses any text.
NextTexts == LET last == tasks[Len(tasks)] IN
  IF call.kind = "sequential" THEN {Hint(last.found, call.text)}
  ELSE {last.text} \cup {text \in Texts : Places # {}}

Ended(k) == tasks[k].pc \in {"done", "failed"}
Failed == \E k \in DOMAIN tasks : tasks[k].pc = "failed"

\* A result is collected.  The pool's come as they are completed, those that
\* were completed before the caller waits for them in no order.
Collect(k) ==
  /\ call.status = "open"
  /\ tasks[k].pc = "done" /\ k \notin Range(lists)
  /\ call.kind \notin Pooled =>
       \A l \in 1..k - 1 : l \in Range(lists) \/ tasks[l].pc = "failed"
  /\ lists' = Append(lists, k)
  /\ UNCHANGED <<memory, call, tasks, changes, throughout, ever>>

NextHop ==
  /\ call.status = "open" /\ call.kind \in Hopping
  /\ Len(lists) = Len(tasks) /\ Len(tasks) < Len(call.types)
  /\ \E text \in NextTexts : tasks' = Append(tasks, Task(text, call.types[Len(tasks) + 1]))
  /\ UNCHANGED <<memory, call, lists, changes, throughout, ever>>

\* Seeded fault: the failed queries are waited for as well.
AllCollectedOrFailed == Len(lists) = Len(tasks)

\* Every query has been answered; the coordinator passes over those that fail.
AllCollected == \A k \in DOMAIN tasks :
                  k \in Range(lists) \/ (call.kind \in Skipping /\ tasks[k].pc = "failed")

Return ==
  /\ call.status = "open"
  /\ AllCollected
  /\ call.kind \in Hopping => Len(tasks) = Len(call.types)
  /\ call' = [call EXCEPT !.status = "returned", !.result = Ranked]
  /\ UNCHANGED <<memory, tasks, lists, changes, throughout, ever>>

\* The error leaves the with block of the pool when every query has ended,
\* the queued ones included.
Raise ==
  /\ call.status = "open" /\ call.kind \notin Skipping /\ Failed
  /\ call.kind \in Pooled => \A k \in DOMAIN tasks : Ended(k)
  /\ call' = [call EXCEPT !.status = "raised"]
  /\ UNCHANGED <<memory, tasks, lists, changes, throughout, ever>>

-----------------------------------------------------------------------------
(* A query, by a thread of the pool or by the caller himself.              *)

Running(k) == tasks[k].pc \in {"episodic", "semantic"}
Workers == CASE call.kind = "parallel" -> MaxWorkers
             [] call.kind = "coordinated" -> Len(call.types)
             [] OTHER -> 1

Step(k, pc, found) == /\ tasks' = [tasks EXCEPT ![k].pc = pc, ![k].found = found]
                      /\ UNCHANGED <<memory, call, lists, changes, throughout, ever>>

Start(k) ==
  /\ call.status = "open"
  /\ tasks[k].pc = "queued" /\ \A l \in 1..k - 1 : tasks[l].pc # "queued"
  /\ Cardinality({l \in DOMAIN tasks : Running(l)}) < Workers
  /\ Failed => call.kind \in Pooled \cup Skipping
  /\ Step(k, IF tasks[k].type = "semantic" THEN "semantic" ELSE "episodic", <<>>)

Matching(k, type) == {i \in memory : TypeOf(i) = type /\ tasks[k].text \in i.words}

\* HybridMemory.query: _query_episodic, _query_semantic, newest first.
ReadEpisodic(k) ==
  /\ tasks[k].pc = "episodic"
  /\ Step(k, IF tasks[k].type = "both" THEN "semantic" ELSE "done",
          Newest(Matching(k, "episodic")))

ReadSemantic(k) ==
  /\ tasks[k].pc = "semantic"
  /\ Step(k, "done", Newest(Matching(k, "semantic") \cup Range(tasks[k].found)))

Fail(k) == Running(k) /\ Step(k, "failed", <<>>)

\* Another thread stores or deletes an item.
Change(i) ==
  /\ changes < MaxChanges
  /\ memory' = IF i \in memory THEN memory \ {i} ELSE memory \cup {i}
  /\ Consistent(memory')
  /\ changes' = changes + 1
  /\ throughout' = IF call.status = "open" THEN throughout \cap memory' ELSE throughout
  /\ ever' = IF call.status = "open" THEN ever \cup memory' ELSE ever
  /\ UNCHANGED <<call, tasks, lists>>

-----------------------------------------------------------------------------
Worker == \E k \in DOMAIN tasks : Start(k) \/ ReadEpisodic(k) \/ ReadSemantic(k) \/ Fail(k)
Caller == \/ \E k \in DOMAIN tasks : Collect(k)
          \/ NextHop \/ Return \/ Raise

QueriesNext == \/ \E c \in Calls : Begin(c)
               \/ Worker \/ Caller
               \/ \E i \in Items : Change(i)

\* Threads that can run do.
QueriesSpec == QueriesInit /\ [][QueriesNext]_queryVars
               /\ WF_queryVars(Worker) /\ WF_queryVars(Caller)

-----------------------------------------------------------------------------
(* Properties.                                                             *)

QueriesTypeOK ==
  /\ memory \subseteq Items /\ changes \in 0..MaxChanges
  /\ call.status \in {"none", "open", "returned", "raised"}
  /\ \A k \in DOMAIN tasks :
       /\ tasks[k].pc \in {"queued", "episodic", "semantic", "done", "failed"}
       /\ tasks[k].text \in Texts \cup {Joined} /\ tasks[k].type \in AskedTypes
       /\ Range(tasks[k].found) \subseteq Items
  /\ Range(lists) \subseteq DOMAIN tasks /\ IsInjective(lists)

\* A call that has returned or raised leaves no query behind in a thread: what
\* the caller does next - closing a store - meets none of them.
NothingLeftRunning == call.status # "open" => \A k \in DOMAIN tasks : ~Running(k)

\* An item that is in memory all through a call and matches one of its queries
\* that did not fail is in its result, or an item of the same id is, or the
\* limit has cut it off.
SteadyItemsFound ==
  call.status = "returned" =>
    \A i \in throughout, k \in DOMAIN tasks :
      /\ tasks[k].pc = "done" /\ tasks[k].text \in i.words
      /\ tasks[k].type \in {TypeOf(i), "both"}
      => \/ \E n \in DOMAIN call.result : call.result[n].id = i.id
         \/ (call.limit > 0 /\ Len(call.result) = call.limit)

\* A result holds items that matched one of the queries at some time during
\* the call, one of an id.
ResultSound ==
  call.status = "returned" =>
    /\ \A n \in DOMAIN call.result :
         /\ call.result[n] \in ever
         /\ \E k \in DOMAIN tasks : tasks[k].text \in call.result[n].words
    /\ \A m, n \in DOMAIN call.result : m # n => call.result[m].id # call.result[n].id
    /\ call.limit > 0 => Len(call.result) <= call.limit

\* The result of a call is complete and holds nothing else, and the call is over
\* when it has been returned.
ResultsRight == SteadyItemsFound /\ ResultSound /\ NothingLeftRunning

\* Every call returns or raises, with fewer workers than queries and with any
\* of them failing.
EveryCallEnds == call.status = "open" ~> call.status # "open"
=============================================================================
