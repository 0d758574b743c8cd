-------------------------- MODULE ProfileRetrieval --------------------------
(***************************************************************************)
(* day_54/profile_retrieval.py: ProfileRetrieval, shared by the threads of *)
(* a process.  A call of a thread is a sequence of critical sections - a   *)
(* cache under its lock, the connection pool under its lock, one SQL       *)
(* statement - and those of different threads interleave.                  *)
(*                                                                         *)
(*   read    get_profile, get_profiles_batch, search_profiles,             *)
(*           get_preferences, get_profile_metadata: look up, acquire,      *)
(*           select, put, release                                          *)
(*   store   store_profile: acquire, insert profile, insert preferences,   *)
(*           commit, release, invalidate                                   *)
(*                                                                         *)
(* A value stands for the contents of one stored UserProfile: a store      *)
(* writes it to the user's row of both tables.  A search is one by one     *)
(* profile field.  The counters, which nothing reads back, result order    *)
(* and limits, and optimize_database are left out.                         *)
(***************************************************************************)
EXTENDS Naturals, Sequences, FiniteSets

CONSTANTS Threads, Users, Values, None,
          Conns,           \* sqlite3 connection objects: one per thread is enough
          Kinds,           \* the kinds of reads made
          MaxConnections,  \* max_connections: what the pool keeps
          CacheSize,       \* store -> max_size
          CleanupEvery     \* the 100 of TTLCache.put

Stores == {"profiles", "preferences", "queries"}
TTLStores == {"preferences", "queries"}

ASSUME KindsAssumption == Kinds \subseteq {"profile", "prefs", "meta", "search"}
ASSUME SizesAssumption == /\ MaxConnections \in Nat
                          /\ CacheSize \in [Stores -> Nat \ {0}]
                          /\ CleanupEvery \in Nat \ {0}
ASSUME ConnsAssumption == Cardinality(Conns) = Cardinality(Threads)
ASSUME NoneAssumption == None \notin Conns \cup Users

Keys == {k \in Kinds \X (Users \cup Values) :
            k[2] \in IF k[1] = "search" THEN Values ELSE Users}

StoreOf(k) == CASE k[1] = "profile" -> "profiles"
                [] k[1] = "prefs"   -> "preferences"
                [] OTHER            -> "queries"

UsersOf(k) == IF k[1] = "search" THEN Users ELSE {k[2]}

Tables == [profiles : [Users -> Values \cup {None}],
           preferences : [Users -> Values \cup {None}]]

Rows == [user : Users, profile : Values \cup {None}, prefs : Values \cup {None}]

\* The rows the SELECT of key k returns: profiles LEFT JOIN preferences for a
\* profile and a search, one table for the others.
Answer(k, d) ==
  LET row(u) == [user |-> u,
                 profile |-> IF k[1] = "prefs" THEN None ELSE d.profiles[u],
                 prefs |-> IF k[1] = "meta" THEN None ELSE d.preferences[u]]
      from == IF k[1] = "prefs" THEN d.preferences ELSE d.profiles
  IN  {row(u) : u \in {w \in UsersOf(k) :
                         /\ from[w] # None
                         /\ k[1] = "search" => from[w] = k[2]}}

VARIABLES db,       \* the committed tables
          draft,    \* what the writing connection sees: db while none writes
          txn,      \* connection -> state of its transaction
          pool,     \* ConnectionPool._pool, a stack
          cache,    \* the three caches: key -> the rows cached, or None
          order,    \* store -> order of its keys
          expired,  \* keys of TTL caches whose time is over
          call,     \* thread -> the call in progress
          excused,  \* history: keys whose cached rows may differ from db
          torn      \* history: users a store failed for between its two inserts

vars == <<db, draft, txn, pool, cache, order, expired, call, excused, torn>>

NoCall == [step |-> "idle", keep |-> FALSE, look |-> {}, miss |-> {}, got |-> {},
           conn |-> None, user |-> None, value |-> None, done |-> FALSE,
           changed |-> {}]

Steps == {"idle", "lookup", "acquire", "select", "put", "profile", "preference",
          "commit", "release"} \cup Stores  \* a store: about to be invalidated

Calls == [step : Steps, keep : BOOLEAN, look : SUBSET Keys, miss : SUBSET Keys,
          got : SUBSET [key : Keys, rows : SUBSET Rows],
          conn : Conns \cup {None}, user : Users \cup {None},
          value : Values \cup {None}, done : BOOLEAN,
          changed : SUBSET Users] \* users committed since the select

TypeOK == /\ db \in Tables /\ draft \in Tables
          /\ txn \in [Conns -> {"none", "begun", "reading", "writing",
                                "pending", "closed"}]
          /\ pool \in Seq(Conns)
          /\ cache \in [Keys -> (SUBSET Rows) \cup {None}]
          /\ order \in [Stores -> Seq(Keys)]
          /\ expired \subseteq {k \in Keys : cache[k] # None}
          /\ call \in [Threads -> Calls]
          /\ excused \subseteq {k \in Keys : cache[k] # None}
          /\ torn \subseteq Users

Init == /\ db = [profiles |-> [u \in Users |-> None],
                 preferences |-> [u \in Users |-> None]]
        /\ draft = db
        /\ txn = [c \in Conns |-> "none"]
        /\ \E c \in Conns : pool = <<c>>  \* the one _init_database used
        /\ cache = [k \in Keys |-> None]
        /\ order = [s \in Stores |-> <<>>]
        /\ expired = {}
        /\ call = [t \in Threads |-> NoCall]
        /\ excused = {}
        /\ torn = {}

-----------------------------------------------------------------------------
(* The caches.  Keys are kept in dict order: the profile cache moves a key *)
(* to the end when it is read or put (LRUCache), the other two keep the    *)
(* place of a key that is put again (TTLCache).                            *)

KeysIn(s) == {s[i] : i \in 1..Len(s)}
Without(s, K) == SelectSeq(s, LAMBDA k : k \notin K)

\* Every change of a cache goes through here: K are the keys that leave.
Keep(K) == /\ expired' = expired \ K
           /\ excused' = excused \ K

Drop(K) == /\ cache' = [k \in Keys |-> IF k \in K THEN None ELSE cache[k]]
           /\ order' = [s \in Stores |-> Without(order[s], K)]
           /\ Keep(K)

\* Order of store s when k is put, and before that the keys that leave it.
Purged(k) ==
  LET s == StoreOf(k) IN
  IF s \in TTLStores /\ Len(order[s]) % CleanupEvery = 0
  THEN expired \cap KeysIn(order[s]) ELSE {}

PutOrder(k) ==
  LET s == StoreOf(k)
      kept == Without(order[s], Purged(k))
      room == IF Len(kept) >= CacheSize[s] /\ k \notin KeysIn(kept)
              THEN Tail(kept) ELSE kept
  IN  IF k \notin KeysIn(room) THEN Append(room, k)
      ELSE IF s \in TTLStores THEN room
      ELSE Append(Without(room, {k}), k)

\* put: suspect says that the rows may not be what the database holds.
Put(k, rows, suspect) ==
  LET s == StoreOf(k)
      kept == PutOrder(k)
      gone == KeysIn(order[s]) \ KeysIn(kept)
  IN  /\ order' = [order EXCEPT ![s] = kept]
      /\ cache' = [i \in Keys |-> IF i = k THEN rows
                                  ELSE IF i \in gone THEN None ELSE cache[i]]
      /\ expired' = expired \ (gone \cup {k})
      /\ excused' = (excused \ (gone \cup {k})) \cup (IF suspect THEN {k} ELSE {})

Serves(k) == cache[k] # None /\ k \notin expired

\* Time passes for an entry of a TTL cache.
Expire(k) ==
  /\ StoreOf(k) \in TTLStores
  /\ cache[k] # None
  /\ expired' = expired \cup {k}
  /\ UNCHANGED <<db, draft, txn, pool, cache, order, call, excused, torn>>

\* get_performance_metrics, at one of the caches: TTLCache.get_stats drops
\* what has expired.
GetPerformanceMetrics(s) ==
  /\ expired \cap KeysIn(order[s]) # {}
  /\ Drop(expired \cap KeysIn(order[s]))
  /\ UNCHANGED <<db, draft, txn, pool, call, torn>>

-----------------------------------------------------------------------------
(* The connection pool and the database.  With sqlite3's default           *)
(* isolation an INSERT opens a transaction and only commit ends it; a      *)
(* connection goes back to the pool with its transaction open if an        *)
(* exception left the block.  States of a connection's transaction:        *)
(*   begun    opened by an INSERT that found the database locked           *)
(*   reading  begun, and it has read since: it holds the read lock         *)
(*   writing  it holds the write lock, its rows are uncommitted            *)
(*   pending  writing, and its commit met a reader: new readers are locked *)
(*            out                                                          *)

Writing(c) == txn[c] \in {"writing", "pending"}
View(c) == IF Writing(c) THEN draft ELSE db

InUse == {call[t].conn : t \in Threads} \ {None}

\* Seeded fault: the connection is not popped.
AcquirePeeking(t) ==
  /\ call[t].step = "acquire"
  /\ \E c \in Conns :
        /\ IF pool = <<>> THEN c \notin InUse ELSE c = pool[Len(pool)]
        /\ call' = [call EXCEPT
                      ![t].conn = c,
                      ![t].step = IF call[t].user = None THEN "select" ELSE "profile"]
  /\ UNCHANGED <<db, draft, txn, pool, cache, order, expired, excused, torn>>

Acquire(t) ==
  /\ call[t].step = "acquire"
  /\ \E c \in Conns :
        /\ IF pool = <<>> THEN c \notin InUse ELSE c = pool[Len(pool)]
        /\ pool' = IF pool = <<>> THEN pool ELSE SubSeq(pool, 1, Len(pool) - 1)
        /\ call' = [call EXCEPT
                      ![t].conn = c,
                      ![t].step = IF call[t].user = None THEN "select" ELSE "profile"]
  /\ UNCHANGED <<db, draft, txn, cache, order, expired, excused, torn>>

\* The finally clause of get_connection.  Closing rolls back.
Release(t) ==
  LET c == call[t].conn
      room == Len(pool) < MaxConnections
  IN  /\ call[t].step = "release"
      /\ pool' = IF room THEN Append(pool, c) ELSE pool
      /\ txn' = IF room THEN txn ELSE [txn EXCEPT ![c] = "none"]
      /\ draft' = IF ~room /\ Writing(c) THEN db ELSE draft
      /\ call' = [call EXCEPT
                    ![t] = IF @.done THEN [@ EXCEPT !.step = "profiles", !.conn = None]
                           ELSE IF @.got # {} THEN [@ EXCEPT !.step = "put", !.conn = None]
                           ELSE NoCall]
      /\ UNCHANGED <<db, cache, order, expired, excused, torn>>

\* An exception leaves the with block.
Raise(t) == call' = [call EXCEPT ![t].step = "release"]

-----------------------------------------------------------------------------
(* Reads.                                                                  *)

\* Point reads take one key; get_profiles_batch a set of profile keys.
BeginRead(t) ==
  /\ call[t].step = "idle"
  /\ \E K \in SUBSET Keys, keep \in BOOLEAN :
        /\ K # {}
        /\ Cardinality(K) > 1 => \A k \in K : k[1] = "profile"
        /\ call' = [call EXCEPT ![t] = IF keep
             THEN [NoCall EXCEPT !.step = "lookup", !.keep = TRUE, !.look = K]
             ELSE [NoCall EXCEPT !.step = "acquire", !.miss = K]]
  /\ UNCHANGED <<db, draft, txn, pool, cache, order, expired, excused, torn>>

\* One cache.get.  Rows that are empty are falsy: found, but not used.
Lookup(t) ==
  /\ call[t].step = "lookup"
  /\ \E k \in call[t].look :
        LET left == call[t].look \ {k}
            miss == IF Serves(k) /\ cache[k] # {} THEN call[t].miss
                    ELSE call[t].miss \cup {k}
        IN  /\ call' = [call EXCEPT ![t] =
                          IF left # {} THEN [@ EXCEPT !.look = left, !.miss = miss]
                          ELSE IF miss = {} THEN NoCall
                          ELSE [@ EXCEPT !.step = "acquire", !.look = {}, !.miss = miss]]
            /\ IF k \in expired THEN Drop({k})
               ELSE /\ order' = IF cache[k] # None /\ StoreOf(k) = "profiles"
                                THEN [order EXCEPT !["profiles"] = Append(Without(@, {k}), k)]
                                ELSE order
                    /\ UNCHANGED <<cache, expired, excused>>
  /\ UNCHANGED <<db, draft, txn, pool, torn>>

\* While a commit is pending only the connections that hold the read lock read.
LockedOut(c) == /\ txn[c] # "reading"
                /\ \E d \in Conns \ {c} : txn[d] = "pending"

\* One SELECT.  A point read that finds no row puts nothing.
Select(t) ==
  LET c == call[t].conn
      searching == \E k \in call[t].miss : k[1] = "search"
      found == {[key |-> k, rows |-> Answer(k, View(c))] : k \in call[t].miss}
      got == IF call[t].keep
             THEN {f \in found : f.rows # {} \/ searching} ELSE {}
      unsure == {u \in Users : \/ draft.profiles[u] # db.profiles[u]
                               \/ draft.preferences[u] # db.preferences[u]}
  IN  /\ call[t].step = "select"
      /\ txn[c] # "closed" /\ ~LockedOut(c)
      /\ txn' = IF txn[c] = "begun" THEN [txn EXCEPT ![c] = "reading"] ELSE txn
      /\ call' = [call EXCEPT ![t].step = IF got = {} \/ searching THEN "release" ELSE "put",
                              ![t].miss = {}, ![t].got = got,
                              ![t].changed = IF Writing(c) THEN unsure ELSE {}]
      /\ UNCHANGED <<db, draft, pool, cache, order, expired, excused, torn>>

\* "database is locked", or the connection was closed under the call.
SelectFails(t) ==
  /\ call[t].step = "select"
  /\ txn[call[t].conn] = "closed" \/ LockedOut(call[t].conn)
  /\ Raise(t)
  /\ UNCHANGED <<db, draft, txn, pool, cache, order, expired, excused, torn>>

\* One cache.put of rows that were read; the database may have moved on.  An
\* entry is its rows: that it is the object the caller got is left out.
\* search_profiles has released its connection before.
PutRows(t) ==
  /\ call[t].step = "put"
  /\ \E f \in call[t].got :
        /\ Put(f.key, f.rows, UsersOf(f.key) \cap call[t].changed # {})
        /\ call' = [call EXCEPT ![t] =
                      IF @.got # {f} THEN [call[t] EXCEPT !.got = @ \ {f}]
                      ELSE IF @.conn = None THEN NoCall
                      ELSE [@ EXCEPT !.got = {}, !.step = "release", !.changed = {}]]
  /\ UNCHANGED <<db, draft, txn, pool, torn>>

-----------------------------------------------------------------------------
(* store_profile.                                                          *)

BeginStore(t) ==
  /\ call[t].step = "idle"
  /\ \E u \in Users, v \in Values :
        call' = [call EXCEPT ![t] = [NoCall EXCEPT
                   !.step = "acquire", !.user = u, !.value = v]]
  /\ UNCHANGED <<db, draft, txn, pool, cache, order, expired, excused, torn>>

Locked(c) == \E d \in Conns \ {c} : Writing(d)

\* Seeded fault: autocommit, which commits the first INSERT by itself.
InsertProfileCommitted(t) ==
  /\ call[t].step = "profile"
  /\ txn[call[t].conn] # "closed" /\ ~Locked(call[t].conn)
  /\ draft' = [draft EXCEPT !.profiles[call[t].user] = call[t].value]
  /\ db' = draft'
  /\ call' = [call EXCEPT ![t].step = "preference"]
  /\ UNCHANGED <<txn, pool, cache, order, expired, excused, torn>>

\* INSERT OR REPLACE INTO profiles: takes the write lock.
InsertProfile(t) ==
  LET c == call[t].conn IN
  /\ call[t].step = "profile"
  /\ txn[c] # "closed" /\ ~Locked(c)
  /\ draft' = [draft EXCEPT !.profiles[call[t].user] = call[t].value]
  /\ txn' = IF Writing(c) THEN txn ELSE [txn EXCEPT ![c] = "writing"]
  /\ call' = [call EXCEPT ![t].step = "preference"]
  /\ UNCHANGED <<db, pool, cache, order, expired, excused, torn>>

\* tags or custom_data are not JSON (nothing is executed) or the connection is
\* closed; the database stays locked or a value cannot be bound, behind the
\* BEGIN of the INSERT; or a column must not be null: the row is not written,
\* the write lock is kept.
InsertProfileFails(t) ==
  LET c == call[t].conn IN
  /\ call[t].step = "profile"
  /\ \/ txn' = txn
     \/ /\ txn[c] = "none"
        /\ txn' = [txn EXCEPT ![c] = "begun"]
     \/ /\ txn[c] \in {"none", "begun", "reading"} /\ ~Locked(c)
        /\ txn' = [txn EXCEPT ![c] = "writing"]
  /\ Raise(t)
  /\ UNCHANGED <<db, draft, pool, cache, order, expired, excused, torn>>

InsertPreferences(t) ==
  /\ call[t].step = "preference"
  /\ txn[call[t].conn] # "closed"
  /\ draft' = [draft EXCEPT !.preferences[call[t].user] = call[t].value]
  /\ call' = [call EXCEPT ![t].step = "commit"]
  /\ UNCHANGED <<db, txn, pool, cache, order, expired, excused, torn>>

\* custom_settings are not JSON, or the connection is closed.  The profile row
\* stays in the connection's open transaction.
InsertPreferencesFails(t) ==
  /\ call[t].step = "preference"
  /\ torn' = torn \cup {call[t].user}
  /\ Raise(t)
  /\ UNCHANGED <<db, draft, txn, pool, cache, order, expired, excused>>

\* History: a commit changes what other calls have read, and the keys of users
\* it changes without being their store (rows left in the transaction) are
\* not going to be invalidated.
Commit(t) ==
  LET c == call[t].conn
      changed == {u \in Users : \/ draft.profiles[u] # db.profiles[u]
                                \/ draft.preferences[u] # db.preferences[u]}
      others == changed \ {call[t].user}
  IN  /\ call[t].step = "commit"
      /\ Writing(c)
      /\ \A d \in Conns \ {c} : txn[d] # "reading"
      /\ db' = draft
      /\ txn' = [txn EXCEPT ![c] = "none"]
      /\ call' = [s \in Threads |->
                    IF s = t THEN [call[s] EXCEPT !.step = "release", !.done = TRUE]
                    ELSE IF call[s].got # {}
                         THEN [call[s] EXCEPT !.changed = @ \cup changed]
                         ELSE call[s]]
      /\ excused' = excused \cup {k \in Keys : /\ cache[k] # None
                                               /\ UsersOf(k) \cap others # {}}
      /\ UNCHANGED <<draft, pool, cache, order, expired, torn>>

\* A reader holds its lock past the busy timeout, or the connection is closed.
CommitFails(t) ==
  LET c == call[t].conn IN
  /\ call[t].step = "commit"
  /\ \/ /\ txn[c] = "closed"
        /\ txn' = txn
     \/ /\ Writing(c)
        /\ \E d \in Conns \ {c} : txn[d] = "reading"
        /\ txn' = [txn EXCEPT ![c] = "pending"]
  /\ Raise(t)
  /\ UNCHANGED <<db, draft, pool, cache, order, expired, excused, torn>>

\* Seeded fault: the profile stays.
InvalidatedButProfile(u) ==
  {k \in Keys : StoreOf(k) = "queries" \/ (k[1] = "prefs" /\ k[2] = u)}

\* invalidate_cache, after the connection is back in the pool: the user's
\* entries and the whole query cache.
Invalidated(u) == {k \in Keys : StoreOf(k) = "queries" \/ k[2] = u}

\* One cache after the other.
AfterStore == [profiles |-> "preferences", preferences |-> "queries"]

InvalidateCache(t) ==
  LET s == call[t].step IN
  /\ s \in Stores
  /\ Drop({k \in Invalidated(call[t].user) : StoreOf(k) = s})
  /\ call' = [call EXCEPT ![t] = IF s = "queries" THEN NoCall
                                 ELSE [@ EXCEPT !.step = AfterStore[s]]]
  /\ UNCHANGED <<db, draft, txn, pool, torn>>

-----------------------------------------------------------------------------
\* close, taken as one step: every connection, in use or not, and every cache.
\* A connection in use goes back to the pool all the same when its call
\* releases it.
Close ==
  /\ pool # <<>> \/ InUse # {}
  /\ pool' = <<>>
  /\ txn' = [c \in Conns |-> IF c \in InUse THEN "closed" ELSE "none"]
  /\ draft' = db
  /\ Drop(Keys)
  /\ UNCHANGED <<db, call, torn>>

Step(t) == \/ BeginRead(t) \/ Lookup(t) \/ Acquire(t) \/ Select(t) \/ SelectFails(t)
           \/ PutRows(t) \/ BeginStore(t) \/ InsertProfile(t) \/ InsertProfileFails(t)
           \/ InsertPreferences(t) \/ InsertPreferencesFails(t) \/ Commit(t)
           \/ CommitFails(t) \/ Release(t) \/ InvalidateCache(t)

Next == \/ \E t \in Threads : Step(t)
        \/ \E k \in Keys : Expire(k)
        \/ \E s \in TTLStores : GetPerformanceMetrics(s)
        \/ Close

Spec == Init /\ [][Next]_vars

-----------------------------------------------------------------------------
(* Properties.                                                             *)

\* get_connection gives a connection to one call at a time, keeps it out of
\* the pool meanwhile, and the pool keeps no more than max_connections.
PoolSound ==
  /\ Len(pool) <= MaxConnections
  /\ Cardinality(KeysIn(pool)) = Len(pool)
  /\ KeysIn(pool) \cap InUse = {}
  /\ \A t, s \in Threads : t # s /\ call[t].conn # None => call[t].conn # call[s].conn

\* The keys that a store has committed to and not invalidated yet.
ToInvalidate(t) ==
  IF ~call[t].done THEN {}
  ELSE {k \in Invalidated(call[t].user) :
          \/ call[t].step \in {"release", "profiles", StoreOf(k)}
          \/ call[t].step = "preferences" /\ StoreOf(k) = "queries"}

\* What the caches hold is what the database holds, except between the commit
\* and the invalidation of a store, or where a commit came between a read and
\* its put, the read saw uncommitted rows, or rows left by a failed store were
\* committed by the store of another user.  (Of rows only: the profile cache
\* keeps the UserProfile that it hands out, and a caller who edits that object
\* edits the entry before anything is stored.)
StaleOnlyWithCause ==
  \A k \in Keys :
    \/ cache[k] \in {None, Answer(k, db)}
    \/ k \in excused
    \/ \E t \in Threads : k \in ToInvalidate(t)

\* A user's two rows come from the same store, unless a store failed for the
\* user between its two inserts.
TornOnlyAfterFailure ==
  \A u \in Users : db.profiles[u] # db.preferences[u] => u \in torn

=============================================================================
