------------------------- MODULE PersistenceManager -------------------------
(***************************************************************************)
(* day_48: PersistenceManager objects (persistence_manager.py), each with  *)
(* its own cache and its own retry loop, over one SQL database             *)
(* (sql_store.py).  A manager runs one call at a time; several managers -  *)
(* several agent processes - share the database.  A call is a sequence of  *)
(* database accesses, each of which may fail with SQLAlchemyError, and the *)
(* accesses of different managers interleave.                              *)
(*                                                                         *)
(*   save      insert+commit, re-read of the committed row (to_memory),    *)
(*             confirming retrieve, _cache_put                             *)
(*   retrieve  cache, else one read and _cache_put                         *)
(*   update    read, merge, commit of the changed columns, re-read,        *)
(*             _cache_put                                                  *)
(*   delete    read, delete+commit, _cache_remove                          *)
(*                                                                         *)
(* bulk_save is a loop of saves whose errors are swallowed: in this model  *)
(* it is a sequence of save calls.  list_memories changes nothing.  The    *)
(* _stats counters, which no guard reads, and time stamps are left out.    *)
(***************************************************************************)
EXTENDS Naturals, Sequences, FiniteSets

CONSTANTS Managers,    \* PersistenceManager objects over one database
          Names,       \* ids a caller passes as memory_id
          Uuids,       \* ids uuid4 returns: bounds the saves without memory_id
          Contents,    \* values of the content column
          Tags,        \* keys of the metadata dictionary
          None,        \* Python's None: an argument not given, a missing row
          MaxRetries,  \* max_retries
          CacheSize    \* cache_size

ASSUME RetriesAssumption == MaxRetries \in Nat \ {0}
ASSUME CacheSizeAssumption == CacheSize \in Nat \ {0}
ASSUME IdsAssumption == Names \cap Uuids = {} /\ None \notin Names \cup Uuids
ASSUME NoneAssumption == None \notin Contents \cup Tags

Ids == Names \cup Uuids
Rows == [content : Contents, meta : SUBSET Tags]

ASSUME RowAssumption == None \notin Rows

VARIABLES rows,     \* the memories table: id -> row, or None
          minted,   \* uuids drawn so far
          cache,    \* manager -> _cache: id -> the Memory cached, or None
          order,    \* manager -> insertion order of _cache's keys
          call,     \* manager -> the call in progress
          excused,  \* history: ids whose cached copy may be stale, see below
          overlap   \* history: a foreign commit hit the row since it was read

vars == <<rows, minted, cache, order, call, excused, overlap>>

Steps == {"idle", "access", "commit", "refresh", "confirm"}

Calls == [step : Steps, op : {"save", "retrieve", "update", "delete", None},
          arg : Ids \cup {None}, id : Ids \cup {None},
          content : Contents \cup {None}, tag : Tags \cup {None},
          attempt : 0..MaxRetries, seen : Rows \cup {None}]

NoCall == [step |-> "idle", op |-> None, arg |-> None, id |-> None,
           content |-> None, tag |-> None, attempt |-> 0, seen |-> None]

TypeOK == /\ rows \in [Ids -> Rows \cup {None}]
          /\ minted \subseteq Uuids
          /\ cache \in [Managers -> [Ids -> Rows \cup {None}]]
          /\ order \in [Managers -> Seq(Ids)]
          /\ call \in [Managers -> Calls]
          /\ excused \in [Managers -> SUBSET Ids]
          /\ overlap \in [Managers -> BOOLEAN]

Init == /\ rows = [id \in Ids |-> None]
        /\ minted = {}
        /\ cache = [m \in Managers |-> [id \in Ids |-> None]]
        /\ order = [m \in Managers |-> <<>>]
        /\ call = [m \in Managers |-> NoCall]
        /\ excused = [m \in Managers |-> {}]
        /\ overlap = [m \in Managers |-> FALSE]

-----------------------------------------------------------------------------
(* The cache: a Python dict, so its iteration order is insertion order and *)
(* assigning to a key that is present keeps its place.                     *)

KeysIn(s) == {s[i] : i \in 1..Len(s)}

\* Seeded fault: a cache one entry too large.
EvictLate(m) ==
  IF Len(order[m]) > CacheSize THEN Tail(order[m]) ELSE order[m]

\* _cache_put on a full cache drops the oldest key first, even when the key
\* to insert is already there.
EvictOldest(m) ==
  IF Len(order[m]) >= CacheSize THEN Tail(order[m]) ELSE order[m]

CachePut(m, id, row) ==
  LET kept == EvictOldest(m) IN
  /\ order' = [order EXCEPT
                 ![m] = IF id \in KeysIn(kept) THEN kept ELSE Append(kept, id)]
  /\ cache' = [cache EXCEPT
                 ![m] = [i \in Ids |-> IF i = id THEN row
                                       ELSE IF i \in KeysIn(kept) THEN @[i]
                                       ELSE None]]
  /\ excused' = [excused EXCEPT ![m] = @ \ {id}]

\* Distinct keys without the key id.
Dropped(keys, id) ==
  IF id \notin KeysIn(keys) THEN keys
  ELSE LET at == CHOOSE i \in 1..Len(keys) : keys[i] = id
       IN  SubSeq(keys, 1, at - 1) \o SubSeq(keys, at + 1, Len(keys))

CacheRemove(m, id) ==
  /\ order' = [order EXCEPT ![m] = Dropped(@, id)]
  /\ cache' = [cache EXCEPT ![m][id] = None]

-----------------------------------------------------------------------------
(* History.  excused[m] holds the ids whose entry in m's cache may differ  *)
(* from the table: another manager committed a change of the row, or m's   *)
(* own commit was followed by a failing re-read, so that m never saw the   *)
(* row it wrote.  overlap[m] says that another manager changed the row of  *)
(* m's call after m had read it.                                           *)

Committed(m, id) ==
  /\ excused' = [n \in Managers |-> IF n = m THEN excused[n]
                                    ELSE excused[n] \cup {id}]
  /\ overlap' = [n \in Managers |-> IF n # m /\ call[n].id = id THEN TRUE
                                    ELSE overlap[n]]

-----------------------------------------------------------------------------
(* Starting a call.                                                        *)

Begin(m, op, id, content, tag) ==
  call' = [call EXCEPT ![m] = [NoCall EXCEPT
             !.step = "access", !.op = op, !.arg = id, !.id = id,
             !.content = content, !.tag = tag, !.attempt = 1]]

Idle(m) == call[m].step = "idle"
InUse == Names \cup minted

\* Bound: a save without memory_id starts only while each attempt of each such
\* save in progress can draw a uuid.
UuidsLeft(m) ==
  LET drawing == {n \in Managers : call[n].op = "save" /\ call[n].arg = None}
  IN  Cardinality(Uuids \ minted) >= MaxRetries * Cardinality(drawing \cup {m})

BeginSave(m) ==
  /\ Idle(m)
  /\ \E id \in Names \cup (IF UuidsLeft(m) THEN {None} ELSE {}), c \in Contents, t \in Tags \cup {None} :
        Begin(m, "save", id, c, t)
  /\ UNCHANGED <<rows, minted, cache, order, excused, overlap>>

\* retrieve answers from the cache when it can: such a call changes nothing.
BeginRetrieve(m) ==
  /\ Idle(m)
  /\ \E id \in InUse : /\ cache[m][id] = None
                       /\ Begin(m, "retrieve", id, None, None)
  /\ UNCHANGED <<rows, minted, cache, order, excused, overlap>>

BeginUpdate(m) ==
  /\ Idle(m)
  /\ \E id \in InUse, c \in Contents \cup {None}, t \in Tags \cup {None} :
        Begin(m, "update", id, c, t)
  /\ UNCHANGED <<rows, minted, cache, order, excused, overlap>>

BeginDelete(m) ==
  /\ Idle(m)
  /\ \E id \in InUse : Begin(m, "delete", id, None, None)
  /\ UNCHANGED <<rows, minted, cache, order, excused, overlap>>

-----------------------------------------------------------------------------
(* The ends of a call, and the retry loop (_retry).                        *)

Return(m) == call' = [call EXCEPT ![m] = NoCall]

At(m, op, step) == call[m].op = op /\ call[m].step = step

\* Seeded fault: attempts are not counted.
RetryUncounted(m) ==
  call' = [call EXCEPT ![m].step = "access", ![m].id = call[m].arg, ![m].seen = None]

\* Any other MemoryStorageError - a conflict too - starts the next attempt
\* while there is one, and is a PersistenceError after the last.
RetryOrRaise(m) ==
  \/ /\ call[m].attempt < MaxRetries
     /\ call' = [call EXCEPT ![m].step = "access", ![m].id = call[m].arg,
                               ![m].attempt = @ + 1, ![m].seen = None]
  \/ /\ call[m].attempt >= MaxRetries
     /\ Return(m)

-----------------------------------------------------------------------------
(* SQLStorage.save: one insert and commit; then to_memory() re-reads the   *)
(* row, because the commit expired it; then the manager's confirmation.    *)

SavedRow(m) == [content |-> call[m].content,
                meta |-> IF call[m].tag = None THEN {} ELSE {call[m].tag}]

Insert(m) ==
  /\ At(m, "save", "access")
  /\ \E id \in IF call[m].arg = None THEN Uuids \ minted ELSE {call[m].arg} :
        /\ rows[id] = None
        /\ rows' = [rows EXCEPT ![id] = SavedRow(m)]
        /\ minted' = minted \cup ({id} \cap Uuids)
        /\ call' = [call EXCEPT ![m].step = "refresh", ![m].id = id]
        /\ Committed(m, id)
  /\ UNCHANGED <<cache, order>>

\* The primary key is taken: MemoryConflictError, which _retry retries.
Conflict(m) ==
  /\ At(m, "save", "access")
  /\ call[m].arg # None
  /\ rows[call[m].arg] # None
  /\ RetryOrRaise(m)
  /\ UNCHANGED <<rows, minted, cache, order, excused, overlap>>

RefreshSaved(m) ==
  /\ At(m, "save", "refresh")
  /\ rows[call[m].id] # None
  /\ call' = [call EXCEPT ![m].step = "confirm"]
  /\ UNCHANGED <<rows, minted, cache, order, excused, overlap>>

Confirm(m) ==
  /\ At(m, "save", "confirm")
  /\ rows[call[m].id] # None
  /\ CachePut(m, call[m].id, rows[call[m].id])
  /\ Return(m)
  /\ UNCHANGED <<rows, minted, overlap>>

\* The confirming retrieve is not retried: an error of it, the row gone too,
\* is a PersistenceError.
ConfirmFails(m) ==
  /\ At(m, "save", "confirm")
  /\ Return(m)
  /\ UNCHANGED <<rows, minted, cache, order, excused, overlap>>

-----------------------------------------------------------------------------
(* retrieve, update and delete of a row.                                   *)

Read(m) ==
  /\ At(m, "retrieve", "access")
  /\ rows[call[m].id] # None
  /\ CachePut(m, call[m].id, rows[call[m].id])
  /\ Return(m)
  /\ UNCHANGED <<rows, minted, overlap>>

\* update and delete read the row (session.get) before they write it.
Fetch(m) ==
  /\ At(m, "update", "access") \/ At(m, "delete", "access")
  /\ rows[call[m].id] # None
  /\ call' = [call EXCEPT ![m].step = "commit", ![m].seen = rows[call[m].id]]
  /\ overlap' = [overlap EXCEPT ![m] = FALSE]
  /\ UNCHANGED <<rows, minted, cache, order, excused>>

\* MemoryNotFoundError leaves _retry at once and touches no cache.
NotFound(m) ==
  /\ call[m].op \in {"retrieve", "update", "delete"}
  /\ call[m].step = "access"
  /\ rows[call[m].id] = None
  /\ Return(m)
  /\ UNCHANGED <<rows, minted, cache, order, excused, overlap>>

\* Seeded fault: the metadata given replaces the metadata read.
ReplacedRow(m, rewritten) ==
  LET c == call[m] IN
  [content |-> IF c.content = None THEN rows[c.id].content ELSE c.content,
   meta |-> IF c.tag = None THEN rows[c.id].meta ELSE {c.tag}]

\* The flush writes a column when the attribute differs from the value read:
\* the metadata column holds the merge into the metadata that was read, unless
\* the merge changes nothing; rewritten: a key it has gets another value.
UpdatedRow(m, rewritten) ==
  LET c == call[m]  now == rows[c.id] IN
  [content |-> IF c.content \in {None, c.seen.content}
               THEN now.content ELSE c.content,
   meta |-> IF c.tag = None \/ (c.tag \in c.seen.meta /\ ~rewritten)
            THEN now.meta ELSE c.seen.meta \cup {c.tag}]

\* A row that is gone by now makes the flush fail (StaleDataError): Fail.
CommitUpdate(m) ==
  /\ At(m, "update", "commit")
  /\ rows[call[m].id] # None
  /\ \E rewritten \in BOOLEAN : rows' = [rows EXCEPT ![call[m].id] = UpdatedRow(m, rewritten)]
  /\ call' = [call EXCEPT ![m].step = "refresh"]
  /\ Committed(m, call[m].id)
  /\ UNCHANGED <<minted, cache, order>>

\* Seeded fault: update forgets the cache.
RefreshUncached(m) ==
  /\ At(m, "update", "refresh")
  /\ rows[call[m].id] # None
  /\ Return(m)
  /\ UNCHANGED <<rows, minted, cache, order, excused, overlap>>

RefreshUpdated(m) ==
  /\ At(m, "update", "refresh")
  /\ rows[call[m].id] # None
  /\ CachePut(m, call[m].id, rows[call[m].id])
  /\ Return(m)
  /\ UNCHANGED <<rows, minted, overlap>>

\* Deleting a row that is gone by now only draws a warning.
CommitDelete(m) ==
  /\ At(m, "delete", "commit")
  /\ rows' = [rows EXCEPT ![call[m].id] = None]
  /\ CacheRemove(m, call[m].id)
  /\ Return(m)
  /\ Committed(m, call[m].id)
  /\ UNCHANGED minted

-----------------------------------------------------------------------------
(* SQLAlchemyError from the access a retried storage operation is at.  At  *)
(* "refresh" the change is committed and stays: the caller of _retry sees  *)
(* a failed attempt all the same, and its cache keeps the old row.         *)
Fail(m) ==
  /\ call[m].step \in {"access", "commit", "refresh"}
  /\ RetryOrRaise(m)
  /\ excused' = IF call[m].step = "refresh"
                THEN [excused EXCEPT ![m] = @ \cup {call[m].id}]
                ELSE excused
  /\ UNCHANGED <<rows, minted, cache, order, overlap>>

\* The process ends and a new manager opens the same database: the cache and
\* the call in progress are gone, what was committed stays.
Restart(m) ==
  /\ cache' = [cache EXCEPT ![m] = [id \in Ids |-> None]]
  /\ order' = [order EXCEPT ![m] = <<>>]
  /\ excused' = [excused EXCEPT ![m] = {}]
  /\ Return(m)
  /\ UNCHANGED <<rows, minted, overlap>>

\* The steps of a call in progress.
Step(m) == \/ Insert(m) \/ Conflict(m) \/ RefreshSaved(m) \/ Confirm(m)
           \/ ConfirmFails(m) \/ Read(m) \/ Fetch(m) \/ NotFound(m)
           \/ CommitUpdate(m) \/ RefreshUpdated(m) \/ CommitDelete(m) \/ Fail(m)

Next == \E m \in Managers : \/ BeginSave(m) \/ BeginRetrieve(m)
                            \/ BeginUpdate(m) \/ BeginDelete(m)
                            \/ Step(m) \/ Restart(m)

\* A thread that runs a call goes on with it: the code waits for nothing but
\* the database, which answers or raises, and sleeps a finite time.
Spec == Init /\ [][Next]_vars /\ \A m \in Managers : WF_vars(Step(m))

-----------------------------------------------------------------------------
(* Properties.                                                             *)

\* A manager's cache holds at most cache_size entries, and evicting in
\* insertion order loses track of none of them.
CacheBounded ==
  \A m \in Managers : /\ Len(order[m]) <= CacheSize
                      /\ KeysIn(order[m]) = {id \in Ids : cache[m][id] # None}

\* What retrieve serves from the cache is the row in the table, unless
\* another manager has changed the row since it was cached or the manager's
\* own re-read after a commit failed.  (While an update sits between its
\* commit and its re-read the cached copy is about to be replaced.)
StaleOnlyWithCause ==
  \A m \in Managers, id \in Ids :
    \/ cache[m][id] = None
    \/ cache[m][id] = rows[id]
    \/ id \in excused[m]
    \/ call[m].id = id /\ At(m, "update", "refresh")

\* update merges: a metadata key disappears from a row that stays only by a
\* metadata update that read the row before another manager changed it.
MetadataLostOnlyByOverlap ==
  [][\A id \in Ids :
        rows[id] # None /\ rows'[id] # None /\ ~(rows[id].meta \subseteq rows'[id].meta)
        => \E m \in Managers : /\ At(m, "update", "commit")
                               /\ call[m].id = id
                               /\ call[m].tag # None
                               /\ call'[m].step = "refresh"
                               /\ overlap[m]]_vars

\* However often the database fails, every call ends: retries are bounded.
EveryCallEnds == \A m \in Managers : call[m].step # "idle" ~> call[m].step = "idle"

=============================================================================
