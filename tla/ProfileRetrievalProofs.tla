----------------------- MODULE ProfileRetrievalProofs -----------------------
(***************************************************************************)
(* For every set of threads, users and connections and every size of the   *)
(* pool: a connection is one call's or the pool's, the two rows of a user  *)
(* come from one store unless a store failed between its inserts, and what *)
(* the caches hold is what the database holds, or there is a cause.  And   *)
(* of the storage of profiles, for every set of clients, accounts and      *)
(* profiles: profiles are changed for those who may, lost only through     *)
(* stale copies, and the audit log tells which of them exist.              *)
(***************************************************************************)
EXTENDS ProfileRetrieval, ProfileStorage, FiniteSetTheorems, TLAPS

\* TypeOK but for the caches: no property depends on the order of their keys.
Types == /\ db \in Tables /\ draft \in Tables
         /\ txn \in [Conns -> {"none", "begun", "reading", "writing", "pending", "closed"}]
         /\ pool \in Seq(Conns)
         /\ call \in [Threads -> Calls]

\* A call that is at the database has a connection; two calls have two; those
\* of the pool are different and in no call.
Holds(t) == call[t].step \in {"select", "profile", "preference", "commit", "release"}

ConnsApart ==
  /\ Len(pool) <= MaxConnections
  /\ \A t \in Threads : Holds(t) => call[t].conn # None
  /\ \A t \in Threads : \A i \in 1..Len(pool) : pool[i] # call[t].conn
  /\ \A i, j \in 1..Len(pool) : i # j => pool[i] # pool[j]
  /\ \A t, s \in Threads : t # s /\ call[t].conn # None => call[t].conn # call[s].conn

\* A store is of a user, with a value.
StoresMade ==
  \A t \in Threads : /\ call[t].step \in {"profile", "preference", "commit"}
                         => call[t].user # None
                     /\ call[t].user # None => call[t].value \in Values

\* Between the inserts of a store that can still go on.
Between(t, u) == /\ call[t].step = "preference" /\ call[t].user = u
                 /\ Writing(call[t].conn)

\* One connection writes at a time, and the draft is its view; what it has of
\* two rows that differ is the first half of a store, or a failed one's.
DraftSound ==
  /\ \A c, d \in Conns : Writing(c) /\ Writing(d) => c = d
  /\ (\A c \in Conns : ~Writing(c)) => draft = db
  /\ \A t \in Threads : call[t].step \in {"preference", "commit"}
                           => txn[call[t].conn] \in {"writing", "pending", "closed"}
  /\ \A t \in Threads, u \in Users : Between(t, u) => draft.profiles[u] = call[t].value
  /\ \A u \in Users : draft.profiles[u] # draft.preferences[u]
                        => u \in torn \/ \E t \in Threads : Between(t, u)

\* A read and a store are different calls: only a read has rows in hand, and
\* only a store that has committed invalidates.
CallsInOrder ==
  \A t \in Threads :
    /\ call[t].step = "select" => call[t].user = None
    /\ call[t].user # None => call[t].got = {}
    /\ call[t].done => call[t].step \in {"release"} \cup Stores /\ call[t].user # None
    /\ call[t].step \in Stores => call[t].done

\* Rows in hand are those of the database, or the call knows of a change.
ReadsSound ==
  \A t \in Threads : \A f \in call[t].got :
    f.rows = Answer(f.key, db) \/ UsersOf(f.key) \cap call[t].changed # {}

Inv == /\ Types /\ ConnsApart /\ StoresMade /\ DraftSound /\ TornOnlyAfterFailure
       /\ CallsInOrder /\ ReadsSound /\ StaleOnlyWithCause

\* No call has a connection at the start, and nothing is stored.
LEMMA InitInv == MaxConnections >= 1 /\ Init => Inv
<1> SUFFICES ASSUME Init, MaxConnections >= 1 PROVE Inv
  OBVIOUS
<1> USE NoneAssumption DEF NoCall
<1>1. PICK c \in Conns : pool = <<c>>
  BY DEF Init
<1>2. Types
  BY <1>1 DEF Init, Types, Tables, Calls, Steps
<1>3. ConnsApart
  BY <1>1, SizesAssumption DEF Init, ConnsApart, Holds
<1>4. StoresMade /\ DraftSound /\ TornOnlyAfterFailure
  BY DEF Init, StoresMade, DraftSound, TornOnlyAfterFailure, Between, Writing
<1>5. CallsInOrder /\ ReadsSound /\ StaleOnlyWithCause
  BY DEF Init, CallsInOrder, ReadsSound, StaleOnlyWithCause, Stores
<1>6. QED
  BY <1>2, <1>3, <1>4, <1>5 DEF Inv

-----------------------------------------------------------------------------
(* Types.                                                                  *)

\* A SELECT on a connection returns rows of the tables it sees.
LEMMA AnswerTypes ==
  ASSUME NEW k \in Keys, NEW d \in Tables
  PROVE  Answer(k, d) \in SUBSET Rows
BY DEF Answer, Rows, Tables, UsersOf, Keys

\* Every operation keeps the types.
LEMMA TypesNext == Types /\ ConnsApart /\ StoresMade /\ [Next]_vars => Types'
<1> SUFFICES ASSUME Types, ConnsApart, StoresMade, [Next]_vars PROVE Types'
  OBVIOUS
<1> USE DEF Types
<1>0. /\ NoCall \in Calls
      /\ \A t \in Threads : call[t] \in Calls
  BY DEF NoCall, Calls, Steps
<1>1. ASSUME NEW t \in Threads, BeginRead(t) PROVE Types'
  <2>1. PICK K \in SUBSET Keys, keep \in BOOLEAN :
          call' = [call EXCEPT ![t] = IF keep
             THEN [NoCall EXCEPT !.step = "lookup", !.keep = TRUE, !.look = K]
             ELSE [NoCall EXCEPT !.step = "acquire", !.miss = K]]
    BY <1>1 DEF BeginRead
  <2>2. /\ [NoCall EXCEPT !.step = "lookup", !.keep = TRUE, !.look = K] \in Calls
        /\ [NoCall EXCEPT !.step = "acquire", !.miss = K] \in Calls
    BY DEF NoCall, Calls, Steps
  <2>3. QED
    BY <1>1, <2>1, <2>2 DEF BeginRead
<1>2. ASSUME NEW t \in Threads, Lookup(t) PROVE Types'
  <2>1. PICK k \in call[t].look :
          LET left == call[t].look \ {k}
              miss == IF Serves(k) /\ cache[k] # {} THEN call[t].miss
                      ELSE call[t].miss \cup {k}
          IN  call' = [call EXCEPT ![t] =
                          IF left # {} THEN [call[t] EXCEPT !.look = left, !.miss = miss]
                          ELSE IF miss = {} THEN NoCall
                          ELSE [call[t] EXCEPT !.step = "acquire", !.look = {}, !.miss = miss]]
    BY <1>2 DEF Lookup
  <2>2. k \in Keys
    BY <1>0, <2>1 DEF Calls
  <2>3. \A left, miss \in SUBSET Keys :
          /\ [call[t] EXCEPT !.look = left, !.miss = miss] \in Calls
          /\ [call[t] EXCEPT !.step = "acquire", !.look = {}, !.miss = miss] \in Calls
    BY <1>0 DEF Calls, Steps
  <2>4. call[t].look \in SUBSET Keys /\ call[t].miss \in SUBSET Keys
    BY <1>0 DEF Calls
  <2>5. call' \in [Threads -> Calls]
    BY <1>0, <2>1, <2>2, <2>3, <2>4
  <2>6. QED
    BY <1>2, <2>5 DEF Lookup
<1>3. ASSUME NEW t \in Threads, Acquire(t) PROVE Types'
  <2>1. PICK c \in Conns :
          /\ pool' = IF pool = <<>> THEN pool ELSE SubSeq(pool, 1, Len(pool) - 1)
          /\ call' = [call EXCEPT
                        ![t] = [call[t] EXCEPT
                          !.conn = c,
                          !.step = IF call[t].user = None THEN "select" ELSE "profile"]]
    BY <1>3 DEF Acquire
  <2>2. \A step \in {"select", "profile"} : [call[t] EXCEPT !.conn = c, !.step = step] \in Calls
    BY <1>0 DEF Calls, Steps
  <2>3. pool' \in Seq(Conns)
    BY <2>1
  <2>4. call' \in [Threads -> Calls]
    BY <2>1, <2>2
  <2>5. QED
    BY <1>3, <2>3, <2>4 DEF Acquire
<1>4. ASSUME NEW t \in Threads, Select(t) PROVE Types'
  <2> DEFINE c == call[t].conn
             searching == \E k \in call[t].miss : k[1] = "search"
             found == {[key |-> k, rows |-> Answer(k, View(c))] : k \in call[t].miss}
             got == IF call[t].keep THEN {f \in found : f.rows # {} \/ searching} ELSE {}
             unsure == {u \in Users : \/ draft.profiles[u] # db.profiles[u]
                                      \/ draft.preferences[u] # db.preferences[u]}
  <2>1. View(c) \in Tables
    BY DEF View
  <2>2. found \in SUBSET [key : Keys, rows : SUBSET Rows]
    BY <1>0, <2>1, AnswerTypes DEF Calls
  <2>3. got \in SUBSET [key : Keys, rows : SUBSET Rows] /\ unsure \in SUBSET Users
    BY <2>2
  <2>4. call' = [call EXCEPT
                   ![t] = [call[t] EXCEPT
                     !.step = IF got = {} \/ searching THEN "release" ELSE "put",
                     !.miss = {}, !.got = got, !.changed = IF Writing(c) THEN unsure ELSE {}]]
    BY <1>4 DEF Select
  <2> HIDE DEF got, searching, unsure
  <2>5. \A step \in {"release", "put"}, changed \in SUBSET Users :
          [call[t] EXCEPT !.step = step, !.miss = {}, !.got = got, !.changed = changed] \in Calls
    BY <1>0, <2>3 DEF Calls, Steps
  <2>6. call' \in [Threads -> Calls]
    BY <2>3, <2>4, <2>5
  <2>7. QED
    BY <1>4, <2>6 DEF Select
<1>5. ASSUME NEW t \in Threads, Raise(t) PROVE call' \in [Threads -> Calls]
  <2>1. [call[t] EXCEPT !.step = "release"] \in Calls
    BY <1>0 DEF Calls, Steps
  <2>2. QED
    BY <1>5, <2>1 DEF Raise
<1>6. ASSUME NEW t \in Threads,
             SelectFails(t) \/ InsertProfileFails(t) \/ InsertPreferencesFails(t) \/ CommitFails(t)
      PROVE  Types'
  BY <1>5, <1>6 DEF SelectFails, InsertProfileFails, InsertPreferencesFails, CommitFails
<1>7. ASSUME NEW t \in Threads, PutRows(t) PROVE Types'
  <2>1. PICK f : call' = [call EXCEPT ![t] =
                      IF call[t].got # {f} THEN [call[t] EXCEPT !.got = @ \ {f}]
                      ELSE IF call[t].conn = None THEN NoCall
                      ELSE [call[t] EXCEPT !.got = {}, !.step = "release", !.changed = {}]]
    BY <1>7 DEF PutRows
  <2>2. /\ [call[t] EXCEPT !.got = @ \ {f}] \in Calls
        /\ [call[t] EXCEPT !.got = {}, !.step = "release", !.changed = {}] \in Calls
    BY <1>0 DEF Calls, Steps
  <2>3. call' \in [Threads -> Calls]
    BY <1>0, <2>1, <2>2
  <2>4. QED
    BY <1>7, <2>3 DEF PutRows
<1>8. ASSUME NEW t \in Threads, BeginStore(t) PROVE Types'
  <2>1. \A u \in Users, v \in Values :
          [NoCall EXCEPT !.step = "acquire", !.user = u, !.value = v] \in Calls
    BY DEF NoCall, Calls, Steps
  <2>2. QED
    BY <1>8, <2>1 DEF BeginStore
<1>9. ASSUME NEW t \in Threads, InsertProfile(t) PROVE Types'
  <2>1. [call[t] EXCEPT !.step = "preference"] \in Calls
    BY <1>0 DEF Calls, Steps
  <2>2. call[t].user \in Users /\ call[t].value \in Values
    <3>1. call[t].step = "profile" /\ call[t].user \in Users \cup {None}
      BY <1>0, <1>9 DEF InsertProfile, Calls
    <3>2. QED
      BY <3>1 DEF StoresMade
  <2>3. draft' \in Tables
    BY <1>9, <2>2 DEF InsertProfile, Tables
  <2>4. QED
    BY <1>9, <2>1, <2>3 DEF InsertProfile
<1>10. ASSUME NEW t \in Threads, InsertPreferences(t) PROVE Types'
  <2>1. [call[t] EXCEPT !.step = "commit"] \in Calls
    BY <1>0 DEF Calls, Steps
  <2>2. call[t].user \in Users /\ call[t].value \in Values
    <3>1. call[t].step = "preference" /\ call[t].user \in Users \cup {None}
      BY <1>0, <1>10 DEF InsertPreferences, Calls
    <3>2. QED
      BY <3>1 DEF StoresMade
  <2>3. draft' \in Tables
    BY <1>10, <2>2 DEF InsertPreferences, Tables
  <2>4. QED
    BY <1>10, <2>1, <2>3 DEF InsertPreferences
<1>11. ASSUME NEW t \in Threads, Commit(t) PROVE Types'
  <2> DEFINE changed == {u \in Users : \/ draft.profiles[u] # db.profiles[u]
                                       \/ draft.preferences[u] # db.preferences[u]}
  <2>1. \A s \in Threads :
          /\ [call[s] EXCEPT !.step = "release", !.done = TRUE] \in Calls
          /\ [call[s] EXCEPT !.changed = @ \cup changed] \in Calls
    BY <1>0 DEF Calls, Steps
  <2>2. call' = [s \in Threads |->
                    IF s = t THEN [call[s] EXCEPT !.step = "release", !.done = TRUE]
                    ELSE IF call[s].got # {}
                         THEN [call[s] EXCEPT !.changed = @ \cup changed]
                         ELSE call[s]]
    BY <1>11 DEF Commit
  <2> HIDE DEF changed
  <2>3. call' \in [Threads -> Calls]
    BY <1>0, <2>1, <2>2
  <2>4. QED
    BY <1>11, <2>3 DEF Commit
<1>12. ASSUME NEW t \in Threads, Release(t) PROVE Types'
  <2>1. /\ [call[t] EXCEPT !.step = "profiles", !.conn = None] \in Calls
        /\ [call[t] EXCEPT !.step = "put", !.conn = None] \in Calls
    BY <1>0 DEF Calls, Steps, Stores
  <2>2. call' \in [Threads -> Calls]
    BY <1>0, <1>12, <2>1 DEF Release
  <2>3. call[t].conn \in Conns
    BY <1>0, <1>12 DEF Release, ConnsApart, Holds, Calls
  <2>4. pool' \in Seq(Conns)
    BY <1>12, <2>3 DEF Release
  <2>5. QED
    BY <1>12, <2>2, <2>4 DEF Release
<1>13. ASSUME NEW t \in Threads, InvalidateCache(t) PROVE Types'
  <2>1. \A s \in {"preferences", "queries"} : [call[t] EXCEPT !.step = s] \in Calls
    BY <1>0 DEF Calls, Steps, Stores
  <2>2. call' \in [Threads -> Calls]
    BY <1>0, <1>13, <2>1 DEF InvalidateCache, AfterStore, Stores
  <2>3. QED
    BY <1>13, <2>2 DEF InvalidateCache
<1>14. CASE (\E k \in Keys : Expire(k)) \/ (\E s \in TTLStores : GetPerformanceMetrics(s)) \/ Close
  <2>1. CASE \E k \in Keys : Expire(k)
    BY <2>1 DEF Expire
  <2>2. CASE \E s \in TTLStores : GetPerformanceMetrics(s)
    BY <2>2 DEF GetPerformanceMetrics
  <2>3. CASE Close
    BY <2>3 DEF Close
  <2>4. QED
    BY <1>14, <2>1, <2>2, <2>3
<1>15. CASE UNCHANGED vars
  BY <1>15 DEF vars
<1>16. QED
  BY <1>1, <1>2, <1>3, <1>4, <1>6, <1>7, <1>8, <1>9, <1>10, <1>11, <1>12, <1>13, <1>14, <1>15
     DEF Next, Step

-----------------------------------------------------------------------------
(* What a step does to the calls.                                          *)

\* Of a call, what the pool and the tables depend on.
Same(s) == /\ call'[s].step = call[s].step /\ call'[s].conn = call[s].conn
           /\ call'[s].user = call[s].user /\ call'[s].value = call[s].value

\* Every operation of a thread leaves the calls of the others alone, as far as
\* connections and stores go.
LEMMA OthersSame ==
  ASSUME Types, NEW t \in Threads, Step(t), NEW s \in Threads \ {t}
  PROVE  Same(s)
<1> USE DEF Types
<1>1. CASE Commit(t)
  <2>1. call[s] \in Calls
    OBVIOUS
  <2>2. \/ call'[s] = call[s]
        \/ \E changed : call'[s] = [call[s] EXCEPT !.changed = @ \cup changed]
    BY <1>1 DEF Commit
  <2>3. QED
    BY <2>1, <2>2 DEF Same, Calls
<1>2. CASE ~Commit(t)
  <2>1. call'[s] = call[s]
    BY <1>2 DEF Step, BeginRead, Lookup, Acquire, Select, SelectFails, PutRows, BeginStore,
                InsertProfile, InsertProfileFails, InsertPreferences, InsertPreferencesFails,
                CommitFails, Release, InvalidateCache, Raise
  <2>2. QED
    BY <2>1 DEF Same
<1>3. QED
  BY <1>1, <1>2

\* Between acquiring and releasing, a call keeps its connection and what it
\* stores: only an insert brings it to the next insert or the commit.
LEMMA OwnCall ==
  ASSUME Types, ConnsApart, StoresMade, NEW t \in Threads, Step(t), ~Acquire(t), ~Release(t)
  PROVE  /\ pool' = pool
         /\ call'[t].conn \in {call[t].conn, None}
         /\ Holds(t)' => call'[t].conn # None
         /\ call'[t].user # None => call'[t].value \in Values
         /\ \/ call'[t].step \notin {"profile", "preference", "commit"}
            \/ /\ call'[t].conn = call[t].conn
               /\ call'[t].user = call[t].user /\ call'[t].user # None
               /\ call'[t].value = call[t].value
               /\ \/ call'[t].step = "preference" /\ InsertProfile(t)
                  \/ call'[t].step = "commit" /\ InsertPreferences(t)
<1> DEFINE Kept(steps) == /\ call'[t].step \in steps /\ call'[t].conn = call[t].conn
                          /\ call'[t].user = call[t].user /\ call'[t].value = call[t].value
<1> USE DEF Types
<1>0. /\ call[t] \in Calls
      /\ Holds(t) => call[t].conn # None
      /\ call[t].user # None => call[t].value \in Values
      /\ call[t].step \in {"profile", "preference", "commit"} => call[t].user # None
  BY DEF ConnsApart, StoresMade
<1>1. CASE BeginRead(t)
  BY <1>1 DEF BeginRead, NoCall, Holds
<1>2. CASE BeginStore(t)
  BY <1>2 DEF BeginStore, NoCall, Holds
<1>3. CASE Lookup(t)
  <2>1. pool' = pool /\ call[t].step = "lookup"
    BY <1>3 DEF Lookup
  <2>2. call'[t] = NoCall \/ Kept({"lookup", "acquire"})
    <3>1. PICK k \in call[t].look :
            LET left == call[t].look \ {k}
                miss == IF Serves(k) /\ cache[k] # {} THEN call[t].miss
                        ELSE call[t].miss \cup {k}
            IN  call' = [call EXCEPT ![t] =
                            IF left # {} THEN [call[t] EXCEPT !.look = left, !.miss = miss]
                            ELSE IF miss = {} THEN NoCall
                            ELSE [call[t] EXCEPT !.step = "acquire", !.look = {}, !.miss = miss]]
      BY <1>3 DEF Lookup
    <3> DEFINE left == call[t].look \ {k}
               miss == IF Serves(k) /\ cache[k] # {} THEN call[t].miss ELSE call[t].miss \cup {k}
    <3>4. \/ call'[t] = [call[t] EXCEPT !.look = left, !.miss = miss]
          \/ call'[t] = NoCall
          \/ call'[t] = [call[t] EXCEPT !.step = "acquire", !.look = {}, !.miss = miss]
      BY <3>1
    <3> HIDE DEF left, miss
    <3>5. CASE call'[t] = [call[t] EXCEPT !.look = left, !.miss = miss]
      BY <1>0, <2>1, <3>5 DEF Calls
    <3>6. CASE call'[t] = [call[t] EXCEPT !.step = "acquire", !.look = {}, !.miss = miss]
      BY <1>0, <3>6 DEF Calls
    <3>7. QED
      BY <3>4, <3>5, <3>6
  <2>3. QED
    BY <1>0, <2>1, <2>2 DEF NoCall, Holds
<1>4. CASE Select(t)
  <2>1. pool' = pool /\ call[t].step = "select"
    BY <1>4 DEF Select
  <2>2. Kept({"release", "put"})
    BY <1>0, <1>4 DEF Select, Calls
  <2>3. QED
    BY <1>0, <2>1, <2>2 DEF Holds
<1>5. CASE SelectFails(t) \/ InsertProfileFails(t) \/ InsertPreferencesFails(t) \/ CommitFails(t)
  <2>1. pool' = pool /\ Holds(t) /\ Raise(t)
    BY <1>5 DEF SelectFails, InsertProfileFails, InsertPreferencesFails, CommitFails, Holds
  <2>2. Kept({"release"})
    BY <1>0, <2>1 DEF Raise, Calls
  <2>3. QED
    BY <1>0, <2>1, <2>2 DEF Holds
<1>6. CASE PutRows(t)
  <2>1. pool' = pool /\ call[t].step = "put"
    BY <1>6 DEF PutRows
  <2>2. PICK f : call'[t] = IF call[t].got # {f} THEN [call[t] EXCEPT !.got = @ \ {f}]
                      ELSE IF call[t].conn = None THEN NoCall
                      ELSE [call[t] EXCEPT !.got = {}, !.step = "release", !.changed = {}]
    BY <1>6 DEF PutRows
  <2>3. call'[t] = NoCall \/ Kept({"put"}) \/ (Kept({"release"}) /\ call[t].conn # None)
    <3>1. CASE call'[t] = [call[t] EXCEPT !.got = @ \ {f}]
      BY <1>0, <2>1, <3>1 DEF Calls
    <3>2. CASE call'[t] = [call[t] EXCEPT !.got = {}, !.step = "release", !.changed = {}]
               /\ call[t].conn # None
      BY <1>0, <3>2 DEF Calls
    <3>3. QED
      BY <2>2, <3>1, <3>2
  <2>4. QED
    BY <1>0, <2>1, <2>3 DEF NoCall, Holds
<1>7. CASE InsertProfile(t)
  <2>1. pool' = pool /\ call[t].step = "profile" /\ Kept({"preference"})
    BY <1>0, <1>7 DEF InsertProfile, Calls
  <2>2. QED
    BY <1>0, <1>7, <2>1 DEF Holds
<1>8. CASE InsertPreferences(t)
  <2>1. pool' = pool /\ call[t].step = "preference" /\ Kept({"commit"})
    BY <1>0, <1>8 DEF InsertPreferences, Calls
  <2>2. QED
    BY <1>0, <1>8, <2>1 DEF Holds
<1>9. CASE Commit(t)
  <2>1. pool' = pool /\ call[t].step = "commit"
    BY <1>9 DEF Commit
  <2>2. call'[t] = [call[t] EXCEPT !.step = "release", !.done = TRUE]
    BY <1>9 DEF Commit
  <2>3. Kept({"release"})
    BY <1>0, <2>2 DEF Calls
  <2>4. QED
    BY <1>0, <2>1, <2>3 DEF Holds
<1>10. CASE InvalidateCache(t)
  <2>1. pool' = pool
    BY <1>10 DEF InvalidateCache
  <2>2. call'[t] = NoCall \/ Kept({"preferences", "queries"})
    BY <1>0, <1>10 DEF InvalidateCache, AfterStore, Stores, Calls
  <2>3. QED
    BY <1>0, <2>1, <2>2 DEF NoCall, Holds
<1>11. QED
  BY <1>1, <1>2, <1>3, <1>4, <1>5, <1>6, <1>7, <1>8, <1>9, <1>10 DEF Step

\* Acquiring takes the connection from the top of the pool, or a new one.
LEMMA AcquireStep ==
  ASSUME Types, NEW t \in Threads, Acquire(t)
  PROVE  \E c \in Conns :
           /\ IF pool = <<>> THEN c \notin InUse /\ pool' = pool
              ELSE c = pool[Len(pool)] /\ pool' = SubSeq(pool, 1, Len(pool) - 1)
           /\ call'[t].conn = c /\ call'[t].user = call[t].user /\ call'[t].value = call[t].value
           /\ call'[t].step = IF call[t].user = None THEN "select" ELSE "profile"
<1>1. PICK c \in Conns :
        /\ IF pool = <<>> THEN c \notin InUse ELSE c = pool[Len(pool)]
        /\ pool' = IF pool = <<>> THEN pool ELSE SubSeq(pool, 1, Len(pool) - 1)
        /\ call' = [call EXCEPT ![t] = [call[t] EXCEPT
             !.conn = c, !.step = IF call[t].user = None THEN "select" ELSE "profile"]]
  BY DEF Acquire
<1>2. call[t] \in Calls
  BY DEF Types
<1>3. /\ call'[t].conn = c /\ call'[t].user = call[t].user /\ call'[t].value = call[t].value
      /\ call'[t].step = IF call[t].user = None THEN "select" ELSE "profile"
  BY <1>1, <1>2 DEF Types, Calls
<1>4. QED
  BY <1>1, <1>3

\* Releasing leaves the call without a connection.
LEMMA ReleaseStep ==
  ASSUME Types, NEW t \in Threads, Release(t)
  PROVE  /\ call[t].step = "release"
         /\ pool' = IF Len(pool) < MaxConnections THEN Append(pool, call[t].conn) ELSE pool
         /\ call'[t].conn = None /\ call'[t].step \in {"idle", "put", "profiles"}
         /\ call'[t].user # None => call'[t].user = call[t].user /\ call'[t].value = call[t].value
<1>1. call[t] \in Calls
  BY DEF Types
<1>2. call'[t] \in {NoCall, [call[t] EXCEPT !.step = "profiles", !.conn = None],
                    [call[t] EXCEPT !.step = "put", !.conn = None]}
  BY DEF Release, Types
<1>3. /\ call'[t].conn = None /\ call'[t].step \in {"idle", "put", "profiles"}
      /\ call'[t].user # None => call'[t].user = call[t].user /\ call'[t].value = call[t].value
  <2>1. CASE call'[t] = NoCall
    BY <2>1 DEF NoCall
  <2>2. CASE call'[t] = [call[t] EXCEPT !.step = "profiles", !.conn = None]
    BY <1>1, <2>2 DEF Calls
  <2>3. CASE call'[t] = [call[t] EXCEPT !.step = "put", !.conn = None]
    BY <1>1, <2>3 DEF Calls
  <2>4. QED
    BY <1>2, <2>1, <2>2, <2>3
<1>4. QED
  BY <1>3 DEF Release

\* A store keeps its user and its value.
LEMMA StoresNext == Types /\ ConnsApart /\ StoresMade /\ [Next]_vars => StoresMade'
<1> SUFFICES ASSUME Types, ConnsApart, StoresMade, [Next]_vars PROVE StoresMade'
  OBVIOUS
<1>1. ASSUME NEW t \in Threads, Step(t) PROVE StoresMade'
  <2>1. /\ call'[t].step \in {"profile", "preference", "commit"} => call'[t].user # None
        /\ call'[t].user # None => call'[t].value \in Values
    <3>1. CASE Acquire(t)
      BY <3>1, AcquireStep DEF StoresMade
    <3>2. CASE Release(t)
      BY <3>2, ReleaseStep DEF StoresMade
    <3>3. CASE ~Acquire(t) /\ ~Release(t)
      BY <1>1, <3>3, OwnCall
    <3>4. QED
      BY <3>1, <3>2, <3>3
  <2>2. QED
    BY <1>1, <2>1, OthersSame DEF StoresMade, Same
<1>2. CASE ~\E t \in Threads : Step(t)
  BY <1>2 DEF Next, vars, Expire, GetPerformanceMetrics, Close, StoresMade
<1>3. QED
  BY <1>1, <1>2

-----------------------------------------------------------------------------
(* The pool.                                                               *)

\* A connection that leaves the pool is its caller's alone, and comes back from
\* it alone.
LEMMA ConnsNext == Types /\ ConnsApart /\ StoresMade /\ [Next]_vars => ConnsApart'
<1> SUFFICES ASSUME Types, ConnsApart, StoresMade, [Next]_vars PROVE ConnsApart'
  OBVIOUS
<1> USE NoneAssumption, SizesAssumption
<1>0. pool \in Seq(Conns) /\ Len(pool) \in Nat /\ \A t \in Threads : call[t].conn \in Conns \cup {None}
  BY DEF Types, Calls
<1>1. ASSUME NEW t \in Threads, Step(t), ~Acquire(t), ~Release(t) PROVE ConnsApart'
  <2>1. /\ pool' = pool /\ call'[t].conn \in {call[t].conn, None}
        /\ Holds(t)' => call'[t].conn # None
    BY <1>1, OwnCall
  <2>2. \A s \in Threads \ {t} : call'[s].step = call[s].step /\ call'[s].conn = call[s].conn
    BY <1>1, OthersSame DEF Same
  <2>3. QED
    BY <1>0, <2>1, <2>2 DEF ConnsApart, Holds
<1>2. ASSUME NEW t \in Threads, Step(t), Acquire(t) PROVE ConnsApart'
  <2>1. PICK c \in Conns :
          /\ IF pool = <<>> THEN c \notin InUse /\ pool' = pool
             ELSE c = pool[Len(pool)] /\ pool' = SubSeq(pool, 1, Len(pool) - 1)
          /\ call'[t].conn = c
    BY <1>2, AcquireStep
  <2>2. \A s \in Threads \ {t} : call'[s].step = call[s].step /\ call'[s].conn = call[s].conn
    BY <1>2, OthersSame DEF Same
  <2>3. /\ \A s \in Threads : call[s].conn # c
        /\ Len(pool') \in 0..Len(pool)
        /\ \A i \in 1..Len(pool') : pool'[i] = pool[i] /\ pool[i] # c
    <3>1. CASE pool = <<>>
      BY <2>1, <3>1 DEF InUse
    <3>2. CASE pool # <<>>
      <4>1. /\ Len(pool) \in 1..Len(pool) /\ c = pool[Len(pool)]
            /\ Len(pool') = Len(pool) - 1 /\ \A i \in 1..Len(pool') : pool'[i] = pool[i]
        BY <1>0, <2>1, <3>2
      <4>2. QED
        BY <1>0, <4>1 DEF ConnsApart
    <3>3. QED
      BY <3>1, <3>2
  <2>4. QED
    BY <1>0, <2>1, <2>2, <2>3 DEF ConnsApart, Holds
<1>3. ASSUME NEW t \in Threads, Step(t), Release(t) PROVE ConnsApart'
  <2>1. /\ pool' = IF Len(pool) < MaxConnections THEN Append(pool, call[t].conn) ELSE pool
        /\ call'[t].conn = None /\ ~Holds(t)' /\ call[t].conn # None
    BY <1>3, ReleaseStep DEF ConnsApart, Holds
  <2>2. \A s \in Threads \ {t} : call'[s].step = call[s].step /\ call'[s].conn = call[s].conn
    BY <1>3, OthersSame DEF Same
  <2>3. CASE Len(pool) >= MaxConnections
    BY <1>0, <2>1, <2>2, <2>3 DEF ConnsApart, Holds
  <2>4. CASE Len(pool) < MaxConnections
    <3>1. /\ Len(pool') = Len(pool) + 1 /\ pool'[Len(pool')] = call[t].conn
          /\ \A i \in 1..Len(pool) : pool'[i] = pool[i]
      BY <1>0, <2>1, <2>4
    <3>2. /\ \A s \in Threads : Holds(s)' => call'[s].conn # None
          /\ \A s, r \in Threads : s # r /\ call'[s].conn # None => call'[s].conn # call'[r].conn
      BY <2>1, <2>2 DEF ConnsApart, Holds
    <3>3. \A s \in Threads : call'[s].conn # call[t].conn
      BY <2>1, <2>2 DEF ConnsApart
    <3>4. \A s \in Threads : \A i \in 1..Len(pool') : pool'[i] # call'[s].conn
      <4> SUFFICES ASSUME NEW s \in Threads, NEW i \in 1..Len(pool') PROVE pool'[i] # call'[s].conn
        OBVIOUS
      <4>1. CASE i = Len(pool')
        BY <3>1, <3>3, <4>1
      <4>2. CASE i \in 1..Len(pool)
        BY <1>0, <2>1, <2>2, <3>1, <4>2 DEF ConnsApart
      <4>3. QED
        BY <1>0, <3>1, <4>1, <4>2
    <3>5. \A i, j \in 1..Len(pool') : i # j => pool'[i] # pool'[j]
      BY <1>0, <3>1 DEF ConnsApart
    <3>6. QED
      BY <1>0, <2>4, <3>1, <3>2, <3>4, <3>5 DEF ConnsApart
  <2>5. QED
    BY <1>0, <2>3, <2>4
<1>4. CASE Close
  BY <1>4 DEF Close, ConnsApart, Holds
<1>5. CASE (\E k \in Keys : Expire(k)) \/ (\E s \in TTLStores : GetPerformanceMetrics(s))
           \/ UNCHANGED vars
  <2>1. UNCHANGED <<pool, call>>
    BY <1>5 DEF vars, Expire, GetPerformanceMetrics
  <2>2. QED
    BY <2>1 DEF ConnsApart, Holds
<1>6. QED
  BY <1>1, <1>2, <1>3, <1>4, <1>5 DEF Next

\* Without repetitions the pool has as many connections as places.
LEMMA PoolCardinality ==
  ASSUME Types, \A i, j \in 1..Len(pool) : i # j => pool[i] # pool[j]
  PROVE  Cardinality(KeysIn(pool)) = Len(pool)
<1> DEFINE at == [i \in 1..Len(pool) |-> pool[i]]
<1>1. Len(pool) \in Nat
  BY DEF Types
<1>2. at \in Bijection(1..Len(pool), KeysIn(pool))
  <2>1. at \in [1..Len(pool) -> KeysIn(pool)]
    BY DEF KeysIn
  <2>2. at \in Injection(1..Len(pool), KeysIn(pool))
    BY <2>1 DEF Injection, IsInjective
  <2>3. \A c \in KeysIn(pool) : \E i \in 1..Len(pool) : at[i] = c
    BY DEF KeysIn
  <2>4. QED
    BY <2>1, <2>2, <2>3 DEF Bijection, Surjection
<1>3. IsFiniteSet(1..Len(pool)) /\ Cardinality(1..Len(pool)) = Len(pool)
  <2>1. /\ IsFiniteSet(1..Len(pool))
        /\ Cardinality(1..Len(pool)) = IF 1 > Len(pool) THEN 0 ELSE Len(pool) - 1 + 1
    BY <1>1, FS_Interval
  <2>2. QED
    BY <1>1, <2>1
<1>4. QED
  BY <1>2, <1>3, FS_Bijection DEF ExistsBijection

-----------------------------------------------------------------------------
(* The two tables.                                                         *)

\* A step that touches no table and no store in progress, and turns no
\* connection into a writer or out of one.
LEMMA DraftQuiet ==
  ASSUME DraftSound, TornOnlyAfterFailure, UNCHANGED <<db, draft, torn>>,
         \A s \in Threads : call[s].step \in {"preference", "commit"} => call[s].conn \in Conns,
         \A c \in Conns : /\ Writing(c)' <=> Writing(c)
                          /\ txn'[c] = "closed" <=> txn[c] = "closed",
         \A s \in Threads :
           /\ call[s].step = "preference" => Same(s)
           /\ Same(s) \/ call'[s].step \notin {"preference", "commit"}
  PROVE  DraftSound' /\ TornOnlyAfterFailure'
<1>1. \A s \in Threads, u \in Users : Between(s, u)' <=> Between(s, u)
  <2> SUFFICES ASSUME NEW s \in Threads, NEW u \in Users PROVE Between(s, u)' <=> Between(s, u)
    OBVIOUS
  <2>1. CASE Same(s)
    BY <2>1 DEF Between, Same, Writing
  <2>2. CASE ~Same(s)
    BY <2>2 DEF Between
  <2>3. QED
    BY <2>1, <2>2
<1>2. \A s \in Threads : call'[s].step \in {"preference", "commit"}
                           => call'[s].step = call[s].step /\ call'[s].conn = call[s].conn
  BY DEF Same
<1>3. \A s \in Threads, u \in Users : Between(s, u) => call'[s].value = call[s].value
  BY DEF Same, Between
<1>4. \A c \in Conns : txn'[c] \in {"writing", "pending", "closed"}
                         <=> txn[c] \in {"writing", "pending", "closed"}
  BY DEF Writing
<1>5. \A s \in Threads : call'[s].step \in {"preference", "commit"}
                           => txn'[call'[s].conn] \in {"writing", "pending", "closed"}
  BY <1>2, <1>4 DEF DraftSound
<1>6. QED
  BY <1>1, <1>3, <1>5 DEF DraftSound, TornOnlyAfterFailure

\* The steps that touch a table, a transaction or a store in progress.
Touches(t) == \/ InsertProfile(t) \/ InsertProfileFails(t) \/ InsertPreferences(t)
              \/ InsertPreferencesFails(t) \/ Commit(t) \/ CommitFails(t) \/ Release(t)
              \/ Select(t)

\* A commit finds the two rows of every user equal, or explained.
LEMMA DraftNext == Types /\ ConnsApart /\ StoresMade /\ DraftSound /\ TornOnlyAfterFailure /\ [Next]_vars
                     => DraftSound' /\ TornOnlyAfterFailure'
<1> SUFFICES ASSUME Types, ConnsApart, StoresMade, DraftSound, TornOnlyAfterFailure, [Next]_vars
             PROVE  DraftSound' /\ TornOnlyAfterFailure'
  OBVIOUS
<1>0. /\ \A t \in Threads : call[t] \in Calls /\ call[t].user \in Users \cup {None}
      /\ \A t \in Threads : Holds(t) => call[t].conn \in Conns
      /\ draft \in Tables /\ db \in Tables
  BY DEF Types, Calls, ConnsApart
<1>1. ASSUME NEW t \in Threads, Step(t), ~Touches(t) PROVE DraftSound' /\ TornOnlyAfterFailure'
  <2>1. UNCHANGED <<db, draft, txn, torn>> /\ call[t].step \notin {"preference", "commit"}
    BY <1>1 DEF Step, Touches, BeginRead, Lookup, Acquire, SelectFails, PutRows, BeginStore,
                InvalidateCache, Stores
  <2>2. call'[t].step \notin {"preference", "commit"}
    BY <1>1, AcquireStep, OwnCall DEF Touches
  <2>3. QED
    BY <1>0, <1>1, <2>1, <2>2, OthersSame, DraftQuiet DEF Holds, Writing
<1>a. ASSUME NEW t \in Threads, Step(t) PROVE \A s \in Threads \ {t} : Same(s)
  BY <1>a, OthersSame
<1>2. ASSUME NEW t \in Threads, Step(t), Select(t) PROVE DraftSound' /\ TornOnlyAfterFailure'
  <2>1. /\ UNCHANGED <<db, draft, torn>> /\ call[t].step = "select"
        /\ \A c \in Conns : /\ Writing(c)' <=> Writing(c)
                            /\ txn'[c] = "closed" <=> txn[c] = "closed"
    BY <1>2 DEF Select, Types, Writing
  <2>2. call'[t].step \in {"release", "put"}
    BY <1>0, <1>2 DEF Select, Types, Calls
  <2>3. QED
    BY <1>0, <1>2, <1>a, <2>1, <2>2, DraftQuiet DEF Holds
<1>3. ASSUME NEW t \in Threads, Step(t), InsertProfile(t)
      PROVE  DraftSound' /\ TornOnlyAfterFailure'
  <2>0. PICK c \in Conns, u \in Users, v \in Values \cup {None} :
             c = call[t].conn /\ u = call[t].user /\ v = call[t].value
    BY <1>0, <1>3 DEF InsertProfile, Holds, StoresMade, Types, Calls
  <2>1. /\ c \in Conns /\ u \in Users /\ txn[c] # "closed" /\ UNCHANGED <<db, torn>>
        /\ call[t].step = "profile"
        /\ \A d \in Conns \ {c} : ~Writing(d)
        /\ draft' = [draft EXCEPT !.profiles[u] = v]
    BY <2>0, <1>0, <1>3 DEF InsertProfile, Holds, StoresMade, Locked
  <2>2. /\ Writing(c)' /\ \A d \in Conns \ {c} : ~Writing(d)' /\ txn'[d] = txn[d]
    BY <2>0, <1>3, <2>1 DEF InsertProfile, Types, Writing
  <2>3. /\ call'[t].step = "preference" /\ call'[t].conn = c /\ call'[t].user = u
        /\ call'[t].value = v
    BY <2>0, <1>0, <1>3 DEF InsertProfile, Types, Calls
  <2>4. /\ draft'.profiles[u] = v /\ draft'.preferences = draft.preferences
        /\ \A w \in Users \ {u} : draft'.profiles[w] = draft.profiles[w]
    BY <1>0, <2>1 DEF Tables
  <2>5. \A s \in Threads \ {t} : call[s].conn # c /\ Same(s)
    BY <2>0, <1>0, <1>3, <1>a, <2>1, NoneAssumption DEF ConnsApart
  <2>6. \A s \in Threads \ {t}, w \in Users : ~Between(s, w) /\ ~Between(s, w)'
    BY <1>0, <2>1, <2>2, <2>5 DEF Between, Same, Holds
  <2>7. \A w \in Users : ~Between(t, w) /\ (Between(t, w)' <=> w = u)
    BY <2>1, <2>2, <2>3 DEF Between
  <2>8. \A s \in Threads : call'[s].step \in {"preference", "commit"}
                             => txn'[call'[s].conn] \in {"writing", "pending", "closed"}
    BY <1>0, <2>2, <2>3, <2>5 DEF DraftSound, Same, Holds, Writing
  <2>9. \A w \in Users : draft'.profiles[w] # draft'.preferences[w]
                            => w \in torn' \/ \E s \in Threads : Between(s, w)'
    BY <2>1, <2>4, <2>6, <2>7 DEF DraftSound
  <2>10. DraftSound'
    <3>1. \A a, b \in Conns : Writing(a)' /\ Writing(b)' => a = b
      BY <2>2
    <3>2. (\A a \in Conns : ~Writing(a)') => draft' = db'
      BY <2>1, <2>2
    <3>3. \A s \in Threads, w \in Users : Between(s, w)' => draft'.profiles[w] = call'[s].value
      BY <2>3, <2>4, <2>6, <2>7
    <3>4. QED
      BY <2>8, <2>9, <3>1, <3>2, <3>3 DEF DraftSound
  <2>11. QED
    BY <2>1, <2>10 DEF TornOnlyAfterFailure
<1>4. ASSUME NEW t \in Threads, Step(t), InsertProfileFails(t)
      PROVE  DraftSound' /\ TornOnlyAfterFailure'
  <2>0. PICK c \in Conns : c = call[t].conn
    BY <1>0, <1>4 DEF InsertProfileFails, Holds
  <2>1. UNCHANGED <<db, draft, torn>> /\ call[t].step = "profile"
    BY <1>4 DEF InsertProfileFails
  <2>2. call'[t].step = "release"
    BY <1>0, <1>4 DEF InsertProfileFails, Raise, Types, Calls
  <2>3. CASE \A d \in Conns : /\ Writing(d)' <=> Writing(d)
                              /\ txn'[d] = "closed" <=> txn[d] = "closed"
    BY <1>0, <1>4, <1>a, <2>1, <2>2, <2>3, DraftQuiet DEF Holds
  <2>4. CASE /\ txn[c] \in {"none", "begun", "reading"}
             /\ \A d \in Conns \ {c} : ~Writing(d)
             /\ txn' = [txn EXCEPT ![c] = "writing"]
    <3>1. /\ Writing(c)' /\ ~Writing(c)
          /\ \A d \in Conns \ {c} : ~Writing(d)' /\ txn'[d] = txn[d]
      BY <2>4 DEF Types, Writing
    <3>2. draft = db
      BY <2>4, <3>1 DEF DraftSound
    <3>3. \A s \in Threads, w \in Users : ~Between(s, w) /\ ~Between(s, w)'
      <4>1. \A s \in Threads \ {t} : Holds(s) => call[s].conn # c
        BY <1>0, <2>0, <2>1, NoneAssumption DEF ConnsApart, Holds
      <4>2. QED
        BY <1>0, <1>4, <1>a, <2>1, <2>2, <2>4, <3>1, <4>1 DEF Between, Same, Holds
    <3>4. \A s \in Threads : call'[s].step \in {"preference", "commit"}
                               => txn'[call'[s].conn] \in {"writing", "pending", "closed"}
      BY <1>0, <1>4, <1>a, <2>2, <3>1 DEF DraftSound, Same, Holds, Writing
    <3>5. \A a, b \in Conns : Writing(a)' /\ Writing(b)' => a = b
      BY <3>1
    <3>6. QED
      BY <2>1, <3>1, <3>2, <3>3, <3>4, <3>5 DEF DraftSound, TornOnlyAfterFailure
  <2>5. \/ \A d \in Conns : /\ Writing(d)' <=> Writing(d)
                            /\ txn'[d] = "closed" <=> txn[d] = "closed"
        \/ /\ txn[c] \in {"none", "begun", "reading"}
           /\ \A d \in Conns \ {c} : ~Writing(d)
           /\ txn' = [txn EXCEPT ![c] = "writing"]
    <3>1. CASE txn' = txn
      BY <3>1 DEF Writing
    <3>2. CASE txn[c] = "none" /\ txn' = [txn EXCEPT ![c] = "begun"]
      BY <3>2 DEF Types, Writing
    <3>3. CASE /\ txn[c] \in {"none", "begun", "reading"} /\ ~Locked(c)
               /\ txn' = [txn EXCEPT ![c] = "writing"]
      BY <3>3 DEF Locked
    <3>4. QED
      BY <1>4, <2>0, <3>1, <3>2, <3>3 DEF InsertProfileFails
  <2>6. QED
    BY <2>3, <2>4, <2>5
<1>5. ASSUME NEW t \in Threads, Step(t), InsertPreferences(t)
      PROVE  DraftSound' /\ TornOnlyAfterFailure'
  <2>0. PICK c \in Conns, u \in Users, v \in Values \cup {None} :
             c = call[t].conn /\ u = call[t].user /\ v = call[t].value
    BY <1>0, <1>5 DEF InsertPreferences, Holds, StoresMade, Types, Calls
  <2>1. /\ c \in Conns /\ u \in Users /\ Writing(c) /\ UNCHANGED <<db, torn, txn>>
        /\ call[t].step = "preference"
        /\ draft' = [draft EXCEPT !.preferences[u] = v]
    BY <2>0, <1>0, <1>5 DEF InsertPreferences, Holds, StoresMade, DraftSound, Writing
  <2>2. /\ call'[t].step = "commit" /\ call'[t].conn = c
    BY <2>0, <1>0, <1>5 DEF InsertPreferences, Types, Calls
  <2>3. Between(t, u) /\ draft.profiles[u] = v /\ \A w \in Users \ {u} : ~Between(t, w)
    BY <2>0, <2>1 DEF Between, DraftSound
  <2>4. /\ draft'.profiles = draft.profiles /\ draft'.preferences[u] = v
        /\ \A w \in Users \ {u} : draft'.preferences[w] = draft.preferences[w]
    BY <1>0, <2>1 DEF Tables
  <2>5. \A s \in Threads \ {t} : Same(s)
    BY <1>5, <1>a
  <2>6. \A s \in Threads \ {t}, w \in Users : Between(s, w)' <=> Between(s, w)
    BY <2>1, <2>5 DEF Between, Same, Writing
  <2>7. \A w \in Users : ~Between(t, w)'
    BY <2>2 DEF Between
  <2>8. \A s \in Threads : call'[s].step \in {"preference", "commit"}
                             => txn'[call'[s].conn] \in {"writing", "pending", "closed"}
    BY <2>1, <2>2, <2>5 DEF DraftSound, Same, Writing
  <2>9. \A w \in Users : draft'.profiles[w] # draft'.preferences[w]
                            => w \in torn' \/ \E s \in Threads : Between(s, w)'
    BY <2>1, <2>3, <2>4, <2>6 DEF DraftSound
  <2>10. DraftSound'
    <3>1. \A a \in Conns : Writing(a)' <=> Writing(a)
      BY <2>1 DEF Writing
    <3>2. (\A a \in Conns : ~Writing(a)') => draft' = db'
      BY <2>1, <3>1
    <3>3. \A s \in Threads, w \in Users : Between(s, w)' => draft'.profiles[w] = call'[s].value
      BY <2>4, <2>5, <2>6, <2>7 DEF DraftSound, Same
    <3>4. QED
      BY <2>8, <2>9, <3>1, <3>2, <3>3 DEF DraftSound
  <2>11. QED
    BY <2>1, <2>10 DEF TornOnlyAfterFailure
<1>6. ASSUME NEW t \in Threads, Step(t), InsertPreferencesFails(t)
      PROVE  DraftSound' /\ TornOnlyAfterFailure'
  <2>1. UNCHANGED <<db, draft, txn>> /\ torn' = torn \cup {call[t].user}
    BY <1>6 DEF InsertPreferencesFails
  <2>2. call'[t].step = "release"
    BY <1>0, <1>6 DEF InsertPreferencesFails, Raise, Types, Calls
  <2>3. \A s \in Threads \ {t} : Same(s)
    BY <1>6, <1>a
  <2>4. \A s \in Threads \ {t}, w \in Users : Between(s, w)' <=> Between(s, w)
    BY <2>1, <2>3 DEF Between, Same, Writing
  <2>5. \A w \in Users : ~Between(t, w)' /\ (Between(t, w) => w \in torn')
    BY <2>1, <2>2 DEF Between
  <2>6. \A s \in Threads : call'[s].step \in {"preference", "commit"}
                             => txn'[call'[s].conn] \in {"writing", "pending", "closed"}
    BY <2>1, <2>2, <2>3 DEF DraftSound, Same
  <2>7. \A w \in Users : draft'.profiles[w] # draft'.preferences[w]
                            => w \in torn' \/ \E s \in Threads : Between(s, w)'
    BY <2>1, <2>4, <2>5 DEF DraftSound
  <2>8. \A s \in Threads, w \in Users : Between(s, w)' => draft'.profiles[w] = call'[s].value
    BY <2>1, <2>3, <2>4, <2>5 DEF DraftSound, Same
  <2>9. DraftSound'
    BY <2>1, <2>6, <2>7, <2>8 DEF DraftSound, Writing
  <2>10. QED
    BY <2>1, <2>9 DEF TornOnlyAfterFailure
<1>7. ASSUME NEW t \in Threads, Step(t), Commit(t)
      PROVE  DraftSound' /\ TornOnlyAfterFailure'
  <2>0. PICK c \in Conns : c = call[t].conn
    BY <1>0, <1>7 DEF Commit, Holds
  <2>1. /\ c \in Conns /\ Writing(c) /\ draft' = draft /\ db' = draft /\ torn' = torn
        /\ call[t].step = "commit" /\ txn' = [txn EXCEPT ![c] = "none"]
    BY <2>0, <1>0, <1>7 DEF Commit, Holds
  <2>2. call'[t].step = "release"
    BY <1>0, <1>7 DEF Commit, Calls
  <2>3. \A s \in Threads \ {t} : Same(s) /\ call[s].conn # c
    BY <2>0, <1>0, <1>7, <1>a, <2>1, NoneAssumption DEF ConnsApart
  <2>4. \A d \in Conns : ~Writing(d)' /\ (d # c => ~Writing(d) /\ txn'[d] = txn[d])
    BY <2>1 DEF Types, Writing, DraftSound
  <2>5. \A s \in Threads, w \in Users : ~Between(s, w)
    BY <1>0, <2>1, <2>3, <2>4 DEF Between, Holds
  <2>6. \A u \in Users : draft.profiles[u] # draft.preferences[u] => u \in torn
    BY <2>5 DEF DraftSound
  <2>7. \A s \in Threads : call'[s].step \in {"preference", "commit"}
                             => txn'[call'[s].conn] \in {"writing", "pending", "closed"}
    BY <1>0, <2>2, <2>3, <2>4 DEF DraftSound, Same, Holds
  <2>8. \A s \in Threads, w \in Users : ~Between(s, w)'
    <3> SUFFICES ASSUME NEW s \in Threads, NEW w \in Users, Between(s, w)' PROVE FALSE
      OBVIOUS
    <3>1. s # t /\ call[s].step = "preference" /\ call'[s].conn = call[s].conn
      BY <2>2, <2>3 DEF Between, Same
    <3>2. QED
      BY <1>0, <2>4, <3>1 DEF Between, Holds
  <2>9. DraftSound'
    BY <2>1, <2>4, <2>6, <2>7, <2>8 DEF DraftSound
  <2>10. QED
    BY <2>1, <2>6, <2>9 DEF TornOnlyAfterFailure
<1>8. ASSUME NEW t \in Threads, Step(t), CommitFails(t)
      PROVE  DraftSound' /\ TornOnlyAfterFailure'
  <2>1. /\ UNCHANGED <<db, draft, torn>> /\ call[t].step = "commit"
        /\ \A c \in Conns : /\ Writing(c)' <=> Writing(c)
                            /\ txn'[c] = "closed" <=> txn[c] = "closed"
    BY <1>8 DEF CommitFails, Types, Writing
  <2>2. call'[t].step = "release"
    BY <1>0, <1>8 DEF CommitFails, Raise, Types, Calls
  <2>3. QED
    BY <1>0, <1>8, <1>a, <2>1, <2>2, DraftQuiet DEF Holds
<1>9. ASSUME NEW t \in Threads, Step(t), Release(t)
      PROVE  DraftSound' /\ TornOnlyAfterFailure'
  <2>0. PICK c \in Conns : c = call[t].conn
    BY <1>0, <1>9 DEF Release, Holds
  <2>1. /\ c \in Conns /\ call[t].step = "release" /\ call'[t].step \in {"idle", "put", "profiles"}
        /\ UNCHANGED <<db, torn>>
    BY <1>0, <1>9, ReleaseStep DEF Release, Holds
  <2>2. \A s \in Threads \ {t} : Same(s) /\ call[s].conn # c
    BY <2>0, <1>0, <1>9, <1>a, <2>1, NoneAssumption DEF ConnsApart
  <2>3. CASE Len(pool) < MaxConnections
    <3>1. UNCHANGED <<txn, draft>>
      BY <1>9, <2>3 DEF Release
    <3>2. QED
      BY <1>0, <2>1, <2>2, <3>1, DraftQuiet DEF Holds, Writing
  <2>4. CASE ~(Len(pool) < MaxConnections)
    <3>1. /\ txn' = [txn EXCEPT ![c] = "none"]
          /\ draft' = IF Writing(c) THEN db ELSE draft
      BY <2>0, <1>9, <2>4 DEF Release
    <3>2. /\ ~Writing(c)' /\ \A d \in Conns \ {c} : txn'[d] = txn[d] /\ (Writing(d)' <=> Writing(d))
      BY <2>1, <3>1 DEF Types, Writing
    <3>3. \A s \in Threads, w \in Users : Between(s, w)' <=> Between(s, w)
      <4> SUFFICES ASSUME NEW s \in Threads, NEW w \in Users PROVE Between(s, w)' <=> Between(s, w)
        OBVIOUS
      <4>1. CASE s = t
        BY <2>1, <4>1 DEF Between
      <4>2. CASE s # t
        BY <1>0, <2>2, <3>2, <4>2 DEF Between, Same, Holds
      <4>3. QED
        BY <4>1, <4>2
    <3>4. \A s \in Threads : call'[s].step \in {"preference", "commit"}
                               => txn'[call'[s].conn] \in {"writing", "pending", "closed"}
      BY <1>0, <2>1, <2>2, <3>2 DEF DraftSound, Same, Holds
    <3>5. \A s \in Threads, w \in Users : Between(s, w) => s # t /\ call[s].conn \in Conns \ {c}
      BY <1>0, <2>1, <2>2 DEF Between, Holds
    <3>6. CASE Writing(c)
      <4>1. draft' = db /\ \A d \in Conns : ~Writing(d)'
        BY <2>1, <3>1, <3>2, <3>6 DEF DraftSound
      <4>2. \A s \in Threads, w \in Users : ~Between(s, w)
        BY <2>1, <3>5, <3>6 DEF Between, DraftSound
      <4>3. QED
        BY <2>1, <3>3, <3>4, <4>1, <4>2 DEF DraftSound, TornOnlyAfterFailure
    <3>7. CASE ~Writing(c)
      <4>1. draft' = draft /\ \A d \in Conns : Writing(d)' <=> Writing(d)
        BY <3>1, <3>2, <3>7
      <4>2. \A s \in Threads, w \in Users : Between(s, w)' => draft'.profiles[w] = call'[s].value
        BY <2>2, <3>3, <3>5, <4>1 DEF DraftSound, Same
      <4>3. QED
        BY <2>1, <3>3, <3>4, <4>1, <4>2 DEF DraftSound, TornOnlyAfterFailure
    <3>8. QED
      BY <3>6, <3>7
  <2>5. QED
    BY <2>3, <2>4
<1>10. CASE Close
  <2>1. /\ draft' = db /\ UNCHANGED <<db, call, torn>>
        /\ \A c \in Conns : txn'[c] = IF c \in InUse THEN "closed" ELSE "none"
    BY <1>10 DEF Close
  <2>2. \A c \in Conns : ~Writing(c)'
    BY <2>1 DEF Writing
  <2>3. \A s \in Threads : call[s].step \in {"preference", "commit"}
                             => txn'[call[s].conn] = "closed" /\ call[s].conn \in Conns
    BY <1>0, <2>1, NoneAssumption DEF InUse, Holds
  <2>4. \A s \in Threads, w \in Users : ~Between(s, w)'
    BY <2>1, <2>3 DEF Between, Writing
  <2>5. QED
    BY <2>1, <2>2, <2>3, <2>4 DEF DraftSound, TornOnlyAfterFailure
<1>11. CASE ~(\E t \in Threads : Step(t)) /\ ~Close
  <2>1. UNCHANGED <<db, draft, txn, torn, call>>
    BY <1>11 DEF Next, vars, Expire, GetPerformanceMetrics
  <2>2. QED
    BY <1>0, <2>1, DraftQuiet DEF Same, Holds, Writing
<1>12. QED
  BY <1>1, <1>2, <1>3, <1>4, <1>5, <1>6, <1>7, <1>8, <1>9, <1>10, <1>11 DEF Next, Touches

-----------------------------------------------------------------------------
(* What is stale, and why.                                                 *)

\* Of a call, what the caches depend on besides.
SameRead(s) == call'[s].done = call[s].done /\ call'[s].got = call[s].got

\* The users whose rows the writing connection has changed.
Unsure == {u \in Users : \/ draft.profiles[u] # db.profiles[u]
                         \/ draft.preferences[u] # db.preferences[u]}

\* What a SELECT returns depends on the rows of its users only.
LEMMA AnswerOfUsers ==
  ASSUME NEW k \in Keys, NEW d, NEW e,
         \A u \in UsersOf(k) : d.profiles[u] = e.profiles[u] /\ d.preferences[u] = e.preferences[u]
  PROVE  Answer(k, d) = Answer(k, e)
<1> DEFINE row(b, u) == [user |-> u,
                         profile |-> IF k[1] = "prefs" THEN None ELSE b.profiles[u],
                         prefs |-> IF k[1] = "meta" THEN None ELSE b.preferences[u]]
           from(b) == IF k[1] = "prefs" THEN b.preferences ELSE b.profiles
           hits(b) == {w \in UsersOf(k) : from(b)[w] # None /\ (k[1] = "search" => from(b)[w] = k[2])}
<1>1. hits(d) = hits(e)
  OBVIOUS
<1>2. \A u \in hits(d) : row(d, u) = row(e, u)
  OBVIOUS
<1>3. {row(d, u) : u \in hits(d)} = {row(e, u) : u \in hits(e)}
  BY <1>1, <1>2
<1>4. QED
  BY <1>3 DEF Answer

\* The rows of users whom a draft does not change are the committed ones.
LEMMA AnswerOfDraft ==
  ASSUME NEW k \in Keys, UsersOf(k) \cap Unsure = {}
  PROVE  Answer(k, draft) = Answer(k, db)
<1>1. UsersOf(k) \subseteq Users
  BY DEF UsersOf, Keys
<1>2. QED
  BY <1>1, AnswerOfUsers DEF Unsure

\* A step of a thread leaves what the other calls have read; a commit tells
\* those with rows in hand what it changes.
LEMMA OthersRead ==
  ASSUME Types, NEW t \in Threads, Step(t), NEW s \in Threads \ {t}
  PROVE  /\ Same(s) /\ SameRead(s)
         /\ call[s].changed \subseteq call'[s].changed
         /\ Commit(t) /\ call[s].got # {} => Unsure \subseteq call'[s].changed
<1> USE DEF Types
<1>1. CASE Commit(t)
  <2>1. call[s] \in Calls
    OBVIOUS
  <2>2. call'[s] = IF call[s].got # {} THEN [call[s] EXCEPT !.changed = @ \cup Unsure]
                   ELSE call[s]
    BY <1>1 DEF Commit, Unsure
  <2>3. QED
    BY <2>1, <2>2, OthersSame DEF SameRead, Calls
<1>2. CASE ~Commit(t)
  <2>1. call'[s] = call[s]
    BY <1>2 DEF Step, BeginRead, Lookup, Acquire, Select, SelectFails, PutRows, BeginStore,
                InsertProfile, InsertProfileFails, InsertPreferences, InsertPreferencesFails,
                CommitFails, Release, InvalidateCache, Raise
  <2>2. QED
    BY <1>2, <2>1 DEF Same, SameRead
<1>3. QED
  BY <1>1, <1>2

\* What a step does to the order of its own call, and to the rows in hand: only
\* a SELECT takes rows.
LEMMA OwnRead ==
  ASSUME Types, StoresMade, CallsInOrder, NEW t \in Threads, Step(t)
  PROVE  /\ call'[t].step = "select" => call'[t].user = None
         /\ call'[t].user # None => call'[t].got = {}
         /\ call'[t].done => call'[t].step \in {"release"} \cup Stores /\ call'[t].user # None
         /\ call'[t].step \in Stores => call'[t].done
         /\ ~Select(t) => \/ call'[t].got = {}
                          \/ call'[t].got \subseteq call[t].got /\ call'[t].changed = call[t].changed
<1> DEFINE Good(c) == /\ c.step = "select" => c.user = None
                      /\ c.user # None => c.got = {}
                      /\ c.done => c.step \in {"release"} \cup Stores /\ c.user # None
                      /\ c.step \in Stores => c.done
                      /\ \/ c.got = {}
                         \/ c.got \subseteq call[t].got /\ c.changed = call[t].changed
<1> USE DEF Types
<1>0. /\ call[t] \in Calls /\ NoCall.step = "idle" /\ NoCall.got = {} /\ ~NoCall.done
      /\ call[t].step = "select" => call[t].user = None
      /\ call[t].user # None => call[t].got = {}
      /\ call[t].done => call[t].step \in {"release"} \cup Stores /\ call[t].user # None
      /\ call[t].step \in Stores => call[t].done
      /\ NoCall.user = None
  BY DEF CallsInOrder, NoCall
<1>1. Good(NoCall)
  BY <1>0 DEF Stores
<1>2. CASE BeginRead(t) \/ BeginStore(t)
  <2>1. /\ call'[t].step \in {"lookup", "acquire"} /\ call'[t].got = {} /\ ~call'[t].done
    <3>1. CASE BeginRead(t)
      BY <3>1 DEF BeginRead, NoCall
    <3>2. CASE BeginStore(t)
      BY <3>2 DEF BeginStore, NoCall
    <3>3. QED
      BY <1>2, <3>1, <3>2
  <2>2. QED
    BY <2>1 DEF Stores
<1>3. CASE Lookup(t)
  <2>1. PICK k \in call[t].look :
            LET left == call[t].look \ {k}
                miss == IF Serves(k) /\ cache[k] # {} THEN call[t].miss
                        ELSE call[t].miss \cup {k}
            IN  call' = [call EXCEPT ![t] =
                            IF left # {} THEN [call[t] EXCEPT !.look = left, !.miss = miss]
                            ELSE IF miss = {} THEN NoCall
                            ELSE [call[t] EXCEPT !.step = "acquire", !.look = {}, !.miss = miss]]
    BY <1>3 DEF Lookup
  <2> DEFINE left == call[t].look \ {k}
             miss == IF Serves(k) /\ cache[k] # {} THEN call[t].miss ELSE call[t].miss \cup {k}
  <2>2. \/ call'[t] = [call[t] EXCEPT !.look = left, !.miss = miss]
        \/ call'[t] = NoCall
        \/ call'[t] = [call[t] EXCEPT !.step = "acquire", !.look = {}, !.miss = miss]
    BY <2>1
  <2> HIDE DEF left, miss
  <2>3. call[t].step = "lookup"
    BY <1>3 DEF Lookup
  <2>4. CASE call'[t] = [call[t] EXCEPT !.look = left, !.miss = miss]
    BY <1>0, <2>3, <2>4 DEF Calls
  <2>5. CASE call'[t] = [call[t] EXCEPT !.step = "acquire", !.look = {}, !.miss = miss]
    BY <1>0, <2>3, <2>5 DEF Calls, Stores
  <2>6. QED
    BY <1>1, <2>2, <2>4, <2>5
<1>4. CASE Acquire(t)
  <2>1. PICK c \in Conns, step \in {"select", "profile"} :
          /\ call'[t] = [call[t] EXCEPT !.conn = c, !.step = step]
          /\ step = "select" => call[t].user = None
    BY <1>4 DEF Acquire
  <2>2. call[t].step = "acquire"
    BY <1>4 DEF Acquire
  <2>3. QED
    BY <1>0, <2>1, <2>2 DEF Calls, Stores
<1>5. CASE Select(t)
  <2>1. PICK step \in {"release", "put"} : \E got, changed :
          call'[t] = [call[t] EXCEPT !.step = step, !.miss = {}, !.got = got, !.changed = changed]
    BY <1>5 DEF Select
  <2>2. call[t].step = "select"
    BY <1>5 DEF Select
  <2>3. QED
    BY <1>0, <1>5, <2>1, <2>2 DEF Calls, Stores
<1>6. CASE SelectFails(t) \/ InsertProfileFails(t) \/ InsertPreferencesFails(t) \/ CommitFails(t)
  <2>1. call[t].step \in {"select", "profile", "preference", "commit"} /\ Raise(t)
    BY <1>6 DEF SelectFails, InsertProfileFails, InsertPreferencesFails, CommitFails
  <2>2. call'[t] = [call[t] EXCEPT !.step = "release"]
    BY <2>1 DEF Raise
  <2>3. QED
    BY <1>0, <2>1, <2>2 DEF Calls, Stores
<1>7. CASE PutRows(t)
  <2>1. PICK f : call'[t] = IF call[t].got # {f} THEN [call[t] EXCEPT !.got = @ \ {f}]
                      ELSE IF call[t].conn = None THEN NoCall
                      ELSE [call[t] EXCEPT !.got = {}, !.step = "release", !.changed = {}]
    BY <1>7 DEF PutRows
  <2>2. call[t].step = "put"
    BY <1>7 DEF PutRows
  <2>3. CASE call'[t] = [call[t] EXCEPT !.got = @ \ {f}]
    BY <1>0, <2>2, <2>3 DEF Calls, Stores
  <2>4. CASE call'[t] = [call[t] EXCEPT !.got = {}, !.step = "release", !.changed = {}]
    BY <1>0, <2>2, <2>4 DEF Calls, Stores
  <2>5. QED
    BY <1>1, <2>1, <2>3, <2>4
<1>8. CASE InsertProfile(t) \/ InsertPreferences(t)
  <2>1. PICK step \in {"preference", "commit"} : call'[t] = [call[t] EXCEPT !.step = step]
    BY <1>8 DEF InsertProfile, InsertPreferences
  <2>2. call[t].step \in {"profile", "preference"}
    BY <1>8 DEF InsertProfile, InsertPreferences
  <2>3. QED
    BY <1>0, <2>1, <2>2 DEF Calls, Stores
<1>9. CASE Release(t)
  <2>1. call[t].step = "release"
    BY <1>9 DEF Release
  <2>2. CASE call[t].done
    <3>1. call'[t] = [call[t] EXCEPT !.step = "profiles", !.conn = None]
      BY <1>9, <2>2 DEF Release
    <3>2. QED
      BY <1>0, <2>1, <2>2, <3>1 DEF Calls, Stores
  <2>3. CASE ~call[t].done
    <3>1. call'[t] \in {NoCall, [call[t] EXCEPT !.step = "put", !.conn = None]}
      BY <1>9, <2>3 DEF Release
    <3>2. CASE call'[t] = [call[t] EXCEPT !.step = "put", !.conn = None]
      BY <1>0, <2>1, <2>3, <3>2 DEF Calls, Stores
    <3>3. QED
      BY <1>1, <3>1, <3>2
  <2>4. QED
    BY <2>2, <2>3
<1>10. CASE Commit(t)
  <2>1. call'[t] = [call[t] EXCEPT !.step = "release", !.done = TRUE] /\ call[t].step = "commit"
    BY <1>10 DEF Commit
  <2>2. call[t].user # None
    BY <2>1 DEF StoresMade
  <2>3. QED
    BY <1>0, <2>1, <2>2 DEF Calls, Stores
<1>11. CASE InvalidateCache(t)
  <2>1. call[t].step \in Stores
    BY <1>11 DEF InvalidateCache
  <2>2. \/ call'[t] = NoCall
        \/ \E step \in {"preferences", "queries"} : call'[t] = [call[t] EXCEPT !.step = step]
    BY <1>11 DEF InvalidateCache, AfterStore, Stores
  <2>3. QED
    BY <1>0, <1>1, <2>1, <2>2 DEF Calls, Stores
<1>12. QED
  BY <1>2, <1>3, <1>4, <1>5, <1>6, <1>7, <1>8, <1>9, <1>10, <1>11 DEF Step

\* Reads and stores stay apart.
LEMMA OrderNext == Types /\ StoresMade /\ CallsInOrder /\ [Next]_vars => CallsInOrder'
<1> SUFFICES ASSUME Types, StoresMade, CallsInOrder, [Next]_vars PROVE CallsInOrder'
  OBVIOUS
<1>1. ASSUME NEW t \in Threads, Step(t) PROVE CallsInOrder'
  <2>1. \A s \in Threads \ {t} : Same(s) /\ SameRead(s)
    BY <1>1, OthersRead
  <2>2. QED
    BY <1>1, <2>1, OwnRead DEF CallsInOrder, Same, SameRead
<1>2. CASE ~(\E t \in Threads : Step(t))
  <2>1. call' = call
    BY <1>2 DEF Next, vars, Expire, GetPerformanceMetrics, Close
  <2>2. QED
    BY <2>1 DEF CallsInOrder
<1>3. QED
  BY <1>1, <1>2

\* What a SELECT takes is what the database holds, or it saw uncommitted rows of
\* those users.
LEMMA SelectReads ==
  ASSUME Types, DraftSound, NEW t \in Threads, Select(t)
  PROVE  \A f \in call'[t].got : f.rows = Answer(f.key, db) \/ UsersOf(f.key) \cap call'[t].changed # {}
<1> DEFINE c == call[t].conn
           searching == \E k \in call[t].miss : k[1] = "search"
           found == {[key |-> k, rows |-> Answer(k, View(c))] : k \in call[t].miss}
           got == IF call[t].keep THEN {f \in found : f.rows # {} \/ searching} ELSE {}
           changed == IF Writing(c) THEN Unsure ELSE {}
<1>1. call[t] \in Calls
  BY DEF Types
<1>2. call' = [call EXCEPT
                 ![t] = [call[t] EXCEPT
                   !.step = IF got = {} \/ searching THEN "release" ELSE "put",
                   !.miss = {}, !.got = got, !.changed = changed]]
  BY DEF Select, Unsure
<1>3. \A f \in got : f.key \in Keys /\ f.rows = Answer(f.key, View(c))
  BY <1>1 DEF Calls
<1>4. \A f \in got : f.rows = Answer(f.key, db) \/ UsersOf(f.key) \cap changed # {}
  BY <1>3, AnswerOfDraft DEF View
<1> HIDE DEF got, changed, searching
<1>5. call'[t].got = got /\ call'[t].changed = changed
  BY <1>1, <1>2 DEF Types, Calls
<1>6. QED
  BY <1>4, <1>5

\* Rows in hand stay what the database holds until a commit, of which the call
\* is told.
LEMMA ReadsNext ==
  Types /\ StoresMade /\ DraftSound /\ CallsInOrder /\ ReadsSound /\ [Next]_vars => ReadsSound'
<1> SUFFICES ASSUME Types, StoresMade, DraftSound, CallsInOrder, ReadsSound, [Next]_vars
             PROVE  ReadsSound'
  OBVIOUS
<1>0. \A t \in Threads : call[t] \in Calls /\ \A f \in call[t].got : f.key \in Keys
  BY DEF Types, Calls
<1>1. ASSUME NEW t \in Threads, Step(t), ~Commit(t) PROVE ReadsSound'
  <2>1. db' = db
    BY <1>1 DEF Step, BeginRead, Lookup, Acquire, Select, SelectFails, PutRows, BeginStore,
                InsertProfile, InsertProfileFails, InsertPreferences, InsertPreferencesFails,
                CommitFails, Release, InvalidateCache
  <2>2. \A s \in Threads \ {t} : SameRead(s) /\ call[s].changed \subseteq call'[s].changed
    BY <1>1, OthersRead
  <2>3. \A f \in call'[t].got : f.rows = Answer(f.key, db) \/ UsersOf(f.key) \cap call'[t].changed # {}
    BY <1>1, OwnRead, SelectReads DEF ReadsSound
  <2>4. QED
    BY <2>1, <2>2, <2>3 DEF ReadsSound, SameRead
<1>2. ASSUME NEW t \in Threads, Step(t), Commit(t) PROVE ReadsSound'
  <2>1. db' = draft /\ call[t].step = "commit"
    BY <1>2 DEF Commit
  <2>2. call'[t].got = {}
    <3>1. call[t].got = {}
      BY <2>1 DEF StoresMade, CallsInOrder
    <3>2. call'[t] = [call[t] EXCEPT !.step = "release", !.done = TRUE]
      BY <1>2 DEF Commit
    <3>3. QED
      BY <1>0, <3>1, <3>2 DEF Calls
  <2>3. ASSUME NEW s \in Threads \ {t}, NEW f \in call'[s].got
        PROVE  f.rows = Answer(f.key, db') \/ UsersOf(f.key) \cap call'[s].changed # {}
    <3>1. f \in call[s].got /\ f.key \in Keys
      BY <1>0, <1>2, <2>3, OthersRead DEF SameRead
    <3>2. call[s].changed \subseteq call'[s].changed /\ Unsure \subseteq call'[s].changed
      BY <1>2, <3>1, OthersRead
    <3>3. UsersOf(f.key) \cap Unsure # {} \/ Answer(f.key, db') = Answer(f.key, db)
      BY <2>1, <3>1, AnswerOfDraft
    <3>4. QED
      BY <3>1, <3>2, <3>3 DEF ReadsSound
  <2>4. QED
    BY <2>2, <2>3 DEF ReadsSound
<1>3. CASE ~(\E t \in Threads : Step(t))
  <2>1. call' = call /\ db' = db
    BY <1>3 DEF Next, vars, Expire, GetPerformanceMetrics, Close
  <2>2. QED
    BY <2>1 DEF ReadsSound
<1>4. QED
  BY <1>1, <1>2, <1>3

\* Keys that leave a cache cannot be stale; the others keep their reasons.
LEMMA DropStale ==
  ASSUME NEW K, Drop(K), StaleOnlyWithCause, db' = db,
         \A k \in Keys \ K : \A t \in Threads :
            k \in ToInvalidate(t) => \E s \in Threads : k \in ToInvalidate(s)'
  PROVE  StaleOnlyWithCause'
<1> SUFFICES ASSUME NEW k \in Keys
             PROVE  \/ cache'[k] \in {None, Answer(k, db')}
                    \/ k \in excused'
                    \/ \E t \in Threads : k \in ToInvalidate(t)'
  BY DEF StaleOnlyWithCause
<1>1. CASE k \in K
  BY <1>1 DEF Drop
<1>2. CASE k \notin K
  <2>1. cache'[k] = cache[k] /\ (k \in excused => k \in excused')
    BY <1>2 DEF Drop, Keep
  <2>2. QED
    BY <1>2, <2>1 DEF StaleOnlyWithCause
<1>3. QED
  BY <1>1, <1>2

\* A call whose step, user and end are what they were invalidates the same keys.
LEMMA SameInvalidates ==
  ASSUME NEW t \in Threads, Same(t), SameRead(t)
  PROVE  ToInvalidate(t)' = ToInvalidate(t)
BY DEF Same, SameRead, ToInvalidate, Invalidated, StoreOf

\* Every key of a cache holds what the database holds, or has a cause.
LEMMA StaleNext ==
  /\ Types /\ StoresMade /\ DraftSound /\ CallsInOrder /\ ReadsSound
  /\ StaleOnlyWithCause /\ [Next]_vars
  => StaleOnlyWithCause'
<1> SUFFICES ASSUME Types, StoresMade, DraftSound, CallsInOrder, ReadsSound,
                    StaleOnlyWithCause, [Next]_vars
             PROVE  StaleOnlyWithCause'
  OBVIOUS
<1>0. \A t \in Threads : call[t] \in Calls
  BY DEF Types
<1>a. ASSUME NEW t \in Threads, Step(t)
      PROVE  \A s \in Threads \ {t} : ToInvalidate(s)' = ToInvalidate(s)
  BY <1>a, OthersRead, SameInvalidates
<1>1. ASSUME NEW t \in Threads, Step(t), ~Commit(t), ~InvalidateCache(t)
      PROVE  ToInvalidate(t) \subseteq ToInvalidate(t)' /\ db' = db
  <2>1. db' = db
    BY <1>1 DEF Step, BeginRead, Lookup, Acquire, Select, SelectFails, PutRows, BeginStore,
                InsertProfile, InsertProfileFails, InsertPreferences, InsertPreferencesFails,
                CommitFails, Release
  <2>2. CASE Release(t)
    <3>1. CASE call[t].done
      <4>1. call'[t] = [call[t] EXCEPT !.step = "profiles", !.conn = None]
            /\ call[t].step = "release"
        BY <2>2, <3>1 DEF Release, Types
      <4>2. /\ call'[t].done /\ call'[t].user = call[t].user /\ call'[t].step = "profiles"
        BY <1>0, <3>1, <4>1 DEF Calls
      <4>3. QED
        BY <2>1, <4>2 DEF ToInvalidate, Invalidated, StoreOf
    <3>2. CASE ~call[t].done
      BY <2>1, <3>2 DEF ToInvalidate
    <3>3. QED
      BY <3>1, <3>2
  <2>3. CASE ~Release(t)
    <3>1. ~(call[t].step \in {"release"} \cup Stores)
      BY <1>1, <2>3 DEF Step, BeginRead, Lookup, Acquire, Select, SelectFails, PutRows, BeginStore,
                InsertProfile, InsertProfileFails, InsertPreferences, InsertPreferencesFails,
                CommitFails, Stores
    <3>2. ~call[t].done
      BY <3>1 DEF CallsInOrder
    <3>3. QED
      BY <2>1, <3>2 DEF ToInvalidate
  <2>4. QED
    BY <2>2, <2>3
<1>2. ASSUME NEW t \in Threads, Step(t), ~Commit(t), ~InvalidateCache(t), ~Lookup(t), ~PutRows(t)
      PROVE  StaleOnlyWithCause'
  <2>1. UNCHANGED <<cache, excused>>
    BY <1>2 DEF Step, BeginRead, Acquire, Select, SelectFails, BeginStore, InsertProfile,
                InsertProfileFails, InsertPreferences, InsertPreferencesFails, CommitFails, Release
  <2>2. \A s \in Threads : ToInvalidate(s) \subseteq ToInvalidate(s)' /\ db' = db
    BY <1>a, <1>1, <1>2
  <2>3. QED
    BY <2>1, <2>2 DEF StaleOnlyWithCause
<1>3. ASSUME NEW t \in Threads, Step(t), Lookup(t) PROVE StaleOnlyWithCause'
  <2>1. PICK k \in call[t].look :
          IF k \in expired THEN Drop({k}) ELSE UNCHANGED <<cache, excused>>
    BY <1>3 DEF Lookup
  <2>2. ~Commit(t) /\ ~InvalidateCache(t)
    BY <1>3 DEF Lookup, Commit, InvalidateCache, Stores
  <2>3. \A s \in Threads : ToInvalidate(s) \subseteq ToInvalidate(s)' /\ db' = db
    BY <1>a, <1>1, <1>3, <2>2
  <2>4. CASE k \in expired
    BY <2>1, <2>3, <2>4, DropStale
  <2>5. CASE k \notin expired
    BY <2>1, <2>3, <2>5 DEF StaleOnlyWithCause
  <2>6. QED
    BY <2>4, <2>5
<1>4. ASSUME NEW t \in Threads, Step(t), PutRows(t) PROVE StaleOnlyWithCause'
  <2>1. PICK f \in call[t].got : Put(f.key, f.rows, UsersOf(f.key) \cap call[t].changed # {})
    BY <1>4 DEF PutRows
  <2>2. ~Commit(t) /\ ~InvalidateCache(t)
    BY <1>4 DEF PutRows, Commit, InvalidateCache, Stores
  <2>3. \A s \in Threads : ToInvalidate(s) \subseteq ToInvalidate(s)' /\ db' = db
    BY <1>a, <1>1, <1>4, <2>2
  <2>4. PICK gone : /\ cache' = [i \in Keys |-> IF i = f.key THEN f.rows
                                             ELSE IF i \in gone THEN None ELSE cache[i]]
                    /\ excused' = (excused \ (gone \cup {f.key}))
                          \cup (IF UsersOf(f.key) \cap call[t].changed # {} THEN {f.key} ELSE {})
    BY <2>1 DEF Put
  <2>5. f.rows = Answer(f.key, db) \/ f.key \in excused'
    BY <2>4 DEF ReadsSound
  <2>6. \A k \in Keys \ {f.key} : \/ cache'[k] = None
                                  \/ cache'[k] = cache[k] /\ (k \in excused => k \in excused')
    BY <2>4
  <2>7. QED
    BY <2>3, <2>4, <2>5, <2>6 DEF StaleOnlyWithCause
<1>5. ASSUME NEW t \in Threads, Step(t), Commit(t) PROVE StaleOnlyWithCause'
  <2> DEFINE u == call[t].user
  <2>1. /\ db' = draft /\ cache' = cache /\ call[t].step = "commit"
        /\ excused' = excused \cup {k \in Keys : /\ cache[k] # None
                                                /\ UsersOf(k) \cap (Unsure \ {u}) # {}}
        /\ call'[t] = [call[t] EXCEPT !.step = "release", !.done = TRUE]
    BY <1>5 DEF Commit, Unsure
  <2>2. call'[t].step = "release" /\ call'[t].done /\ call'[t].user = u
    BY <1>0, <2>1 DEF Calls
  <2>3. ToInvalidate(t)' = Invalidated(u)
    BY <2>2 DEF ToInvalidate, Invalidated
  <2>4. ToInvalidate(t) = {}
    BY <2>1 DEF CallsInOrder, ToInvalidate, Stores
  <2>5. ASSUME NEW k \in Keys, cache[k] \notin {None, Answer(k, draft)},
               k \notin excused', cache[k] = Answer(k, db)
        PROVE  k \in Invalidated(u)
    <3>1. UsersOf(k) \cap Unsure # {}
      BY <2>5, AnswerOfDraft
    <3>2. u \in UsersOf(k)
      BY <2>1, <2>5, <3>1
    <3>3. QED
      BY <3>2 DEF UsersOf, Invalidated, StoreOf, Keys
  <2>6. QED
    BY <1>a, <1>5, <2>1, <2>3, <2>4, <2>5 DEF StaleOnlyWithCause
<1>6. ASSUME NEW t \in Threads, Step(t), InvalidateCache(t) PROVE StaleOnlyWithCause'
  <2> DEFINE s == call[t].step
             K == {k \in Invalidated(call[t].user) : StoreOf(k) = s}
  <2>1. s \in Stores /\ Drop(K) /\ db' = db
    BY <1>6 DEF InvalidateCache
  <2>2. ToInvalidate(t) \ K \subseteq ToInvalidate(t)'
    <3>1. call[t].done
      BY <2>1 DEF CallsInOrder
    <3>2. CASE s = "queries"
      BY <3>2 DEF ToInvalidate, Invalidated, StoreOf
    <3>3. CASE s # "queries"
      <4>1. call'[t] = [call[t] EXCEPT !.step = AfterStore[s]]
        BY <1>6, <3>3 DEF InvalidateCache, Types
      <4>2. call'[t].done /\ call'[t].user = call[t].user /\ call'[t].step = AfterStore[s]
        BY <1>0, <3>1, <4>1 DEF Calls
      <4>3. /\ s = "profiles" => call'[t].step = "preferences"
            /\ s = "preferences" => call'[t].step = "queries"
        BY <4>2 DEF AfterStore
      <4>4. QED
        BY <2>1, <3>3, <4>2, <4>3 DEF ToInvalidate, Invalidated, StoreOf, Stores
    <3>4. QED
      BY <3>2, <3>3
  <2> HIDE DEF K
  <2>3. QED
    BY <1>a, <1>6, <2>1, <2>2, DropStale
<1>7. CASE ~(\E t \in Threads : Step(t))
  <2>1. call' = call /\ db' = db
    BY <1>7 DEF Next, vars, Expire, GetPerformanceMetrics, Close
  <2>2. \A t \in Threads : ToInvalidate(t)' = ToInvalidate(t)
    BY <2>1, SameInvalidates DEF Same, SameRead
  <2>3. (\E K : Drop(K)) \/ UNCHANGED <<cache, excused>>
    BY <1>7 DEF Next, vars, Expire, GetPerformanceMetrics, Close
  <2>4. QED
    BY <2>1, <2>2, <2>3, DropStale DEF StaleOnlyWithCause
<1>8. QED
  BY <1>2, <1>3, <1>4, <1>5, <1>6, <1>7

-----------------------------------------------------------------------------
\* The parts of the invariant together are inductive.
LEMMA NextInv == Inv /\ [Next]_vars => Inv'
BY TypesNext, ConnsNext, StoresNext, DraftNext, OrderNext, ReadsNext, StaleNext DEF Inv

\* A connection is one call's at a time and not in the pool meanwhile; the pool
\* keeps no more than max_connections.
THEOREM PoolHolds ==
  ASSUME MaxConnections >= 1
  PROVE  Spec => []PoolSound
<1>1. Init => Inv
  BY InitInv
<1>2. Inv => PoolSound
  <2> SUFFICES ASSUME Inv PROVE PoolSound
    OBVIOUS
  <2>1. Cardinality(KeysIn(pool)) = Len(pool)
    BY PoolCardinality DEF Inv, ConnsApart
  <2>2. QED
    BY <2>1 DEF Inv, ConnsApart, PoolSound, KeysIn, InUse
<1>3. QED
  BY <1>1, <1>2, NextInv, PTL DEF Spec

\* The two rows of a user come from one store, unless a store for the user
\* failed between its two inserts.
THEOREM RowsOfOneStore ==
  ASSUME MaxConnections >= 1
  PROVE  Spec => []TornOnlyAfterFailure
<1>1. Init => Inv
  BY InitInv
<1>2. Inv => TornOnlyAfterFailure
  BY DEF Inv
<1>3. QED
  BY <1>1, <1>2, NextInv, PTL DEF Spec

\* What a cache holds for a key is what the database holds, except between the
\* commit and the invalidation of a store, or where a commit came between a read
\* and its put, the read saw uncommitted rows, or a store committed the rows a
\* failed one had left.
THEOREM StalenessHasCause ==
  ASSUME MaxConnections >= 1
  PROVE  Spec => []StaleOnlyWithCause
<1>1. Init => Inv
  BY InitInv
<1>2. Inv => StaleOnlyWithCause
  BY DEF Inv
<1>3. QED
  BY <1>1, <1>2, NextInv, PTL DEF Spec

-----------------------------------------------------------------------------
(* The storage of profiles.                                                *)

Versioned == [version : Nat, edits : SUBSET Clients, valid : BOOLEAN]

\* TypeOK without the bound on versions.
StorageTypes == /\ rows \in [Owners -> Versioned \cup {Missing}]
                /\ told \subseteq Owners
                /\ token \in [Clients -> Accounts \cup {Missing}]
                /\ copy \in [Clients -> Versioned \cup {Missing}]
                /\ of \in [Clients -> Owners]
                /\ request \in [Clients -> Requests \cup {Missing}]
                /\ stale \subseteq Clients /\ overlap \subseteq Clients
                /\ tangled \subseteq Owners

\* A call is about what its client may do: the check at its start holds to its
\* end, whatever becomes of the token, and the object it writes stays.
CallsAuthorized ==
  \A c \in Clients : request[c] # Missing =>
    /\ request[c].user = NoId \/ request[c].actor \in {request[c].user} \cup Admins
    /\ request[c].op = "delete" => request[c].actor \in Admins
    /\ request[c].op \in {"create", "update"} => copy[c] # Missing /\ of[c] = request[c].user

\* A copy that is not stale has at least what the row has.
FreshCopies ==
  \A c \in Clients \ stale :
    LET row == rows[of[c]] IN
    copy[c] # Missing /\ row # Missing
      => copy[c].version >= row.version /\ row.edits \subseteq copy[c].edits

\* A call that no other call of the same profile overlaps finds the row that it
\* looked up, and its entry will tell what it left.
AloneTrue ==
  \A c \in Clients \ overlap : request[c] # Missing =>
    /\ request[c].step = "write" /\ request[c].op = "update" => rows[request[c].user] # Missing
    /\ request[c].step = "audit" => (rows[request[c].user] # Missing <=> request[c].op # "delete")

StorageInv == StorageTypes /\ CallsAuthorized /\ FreshCopies

\* The types and the guards of a call hold at the start.
LEMMA StorageInitInv == StorageInit => StorageInv
BY DEF StorageInit, StorageInv, StorageTypes, CallsAuthorized, FreshCopies

\* No step breaks them: a call holds on to its object and its actor, and a
\* write makes every other copy of the profile stale.
LEMMA StorageNextInv == StorageInv /\ [StorageNext]_storage => StorageInv'
<1> SUFFICES ASSUME StorageInv, [StorageNext]_storage PROVE StorageInv'
  OBVIOUS
<1> USE DEF StorageInv, StorageTypes
<1>1. ASSUME NEW c \in Clients, Authenticate(c) PROVE StorageInv'
  BY <1>1 DEF Authenticate, objects, CallsAuthorized, FreshCopies
<1>2. ASSUME NEW c \in Clients, Logout(c) PROVE StorageInv'
  BY <1>2 DEF Logout, objects, CallsAuthorized, FreshCopies
<1>3. ASSUME NEW c \in Clients, NewProfile(c) PROVE StorageInv'
  BY <1>3 DEF NewProfile, Idle, Versioned, CallsAuthorized, FreshCopies
<1>4. ASSUME NEW c \in Clients, UpdateProfile(c) PROVE StorageInv'
  BY <1>4 DEF UpdateProfile, Edited, Idle, Versioned, CallsAuthorized, FreshCopies
<1>5. ASSUME NEW c \in Clients, UpdateProfileFails(c) PROVE StorageInv'
  <2>1. /\ copy[c] \in Versioned
        /\ copy' = [copy EXCEPT ![c] = [copy[c] EXCEPT !.edits = @ \cup {c}, !.valid = FALSE]]
    BY <1>5 DEF UpdateProfileFails
  <2>2. copy'[c] = [version |-> copy[c].version, edits |-> copy[c].edits \cup {c}, valid |-> FALSE]
    BY <2>1 DEF Versioned
  <2>3. copy'[c] \in Versioned /\ copy' \in [Clients -> Versioned \cup {Missing}]
    BY <2>1, <2>2 DEF Versioned
  <2>4. \A n \in Clients \ {c} : copy'[n] = copy[n]
    BY <2>1
  <2>5. QED
    BY <1>5, <2>2, <2>3, <2>4 DEF UpdateProfileFails, Idle, Versioned, CallsAuthorized, FreshCopies
<1>6. ASSUME NEW c \in Clients, UpdatePreferences(c) PROVE StorageInv'
  BY <1>6 DEF UpdatePreferences, Edited, Idle, Versioned, CallsAuthorized, FreshCopies
<1>7. ASSUME NEW c \in Clients, Begin(c) PROVE StorageInv'
  <2>1. PICK op \in Ops, u \in Owners :
          /\ op \in {"create", "update"} => copy[c] # Missing /\ u = of[c]
          /\ Authorizes(c, op, u)
          /\ request' = [request EXCEPT ![c] = [step |-> FirstStep(op), op |-> op,
                                             user |-> u, actor |-> token[c]]]
    BY <1>7 DEF Begin
  <2>2. /\ token[c] \in Accounts
        /\ u = NoId \/ token[c] \in {u} \cup Admins
        /\ op = "delete" => token[c] \in Admins
    BY <2>1 DEF Authorizes, Permissions, Needed, Ops
  <2>3. [step |-> FirstStep(op), op |-> op, user |-> u, actor |-> token[c]] \in Requests
    BY <2>2 DEF FirstStep, Requests, Ops
  <2>4. /\ request'[c] = [step |-> FirstStep(op), op |-> op, user |-> u, actor |-> token[c]]
        /\ \A n \in Clients \ {c} : request'[n] = request[n]
    BY <2>1
  <2>5. CallsAuthorized'
    BY <1>7, <2>1, <2>2, <2>4 DEF Begin, objects, CallsAuthorized
  <2>6. QED
    BY <1>7, <2>1, <2>3, <2>5 DEF Begin, objects, FreshCopies
<1>8. ASSUME NEW c \in Clients, Look(c) PROVE StorageInv'
  BY <1>8 DEF Look, At, GoTo, Requests, objects, CallsAuthorized, FreshCopies
<1>9. ASSUME NEW c \in Clients, NotFound(c) PROVE StorageInv'
  BY <1>9 DEF NotFound, Return, objects, CallsAuthorized, FreshCopies
<1>10. ASSUME NEW c \in Clients, Retrieve(c) PROVE StorageInv'
  BY <1>10 DEF Retrieve, At, Return, Requests, Versioned, CallsAuthorized, FreshCopies
<1>11. ASSUME NEW c \in Clients, Write(c) PROVE StorageInv'
  BY <1>11 DEF Write, Written, At, GoTo, Requests, Ops, Versioned, objects, CallsAuthorized, FreshCopies
<1>12. ASSUME NEW c \in Clients, Audit(c) PROVE StorageInv'
  BY <1>12 DEF Audit, At, Return, Requests, objects, CallsAuthorized, FreshCopies
<1>13. ASSUME NEW c \in Clients, SqlError(c) PROVE StorageInv'
  BY <1>13 DEF SqlError, At, Return, Requests, objects, CallsAuthorized, FreshCopies
<1>14. CASE Midnight
  BY <1>14 DEF Midnight, objects, CallsAuthorized, FreshCopies
<1>15. CASE Restart
  BY <1>15 DEF Restart, At, Requests, CallsAuthorized, FreshCopies
<1>16. CASE UNCHANGED storage
  BY <1>16 DEF storage, objects, CallsAuthorized, FreshCopies
<1>17. QED
  BY <1>1, <1>2, <1>3, <1>4, <1>5, <1>6, <1>7, <1>8, <1>9, <1>10, <1>11, <1>12, <1>13, <1>14,
     <1>15, <1>16 DEF StorageNext

\* In every state the program reaches, a call is one its client may make, and
\* only a stale copy lacks something of the row.
THEOREM StorageInvHolds == StorageSpec => []StorageInv
<1>1. StorageInit => StorageInv
  BY StorageInitInv
<1>2. StorageInv /\ [StorageNext]_storage => StorageInv'
  BY StorageNextInv
<1>3. QED
  BY <1>1, <1>2, PTL DEF StorageSpec

\* Of all the steps only a write changes the table of profiles, and it changes
\* the row that its call is about.
LEMMA RowsChangeInWrites ==
  ASSUME StorageInv, [StorageNext]_storage, NEW u \in Owners, rows'[u] # rows[u]
  PROVE  \E c \in Clients : /\ Write(c) /\ request[c].user = u
                            /\ rows'[u] = Written(c)
<1>1. ASSUME NEW c \in Clients, Write(c)
      PROVE  request[c].user = u /\ rows'[u] = Written(c)
  BY <1>1 DEF Write, StorageInv, StorageTypes
<1>2. \E c \in Clients : Write(c)
  BY DEF StorageNext, storage, objects, Authenticate, Logout, NewProfile, UpdateProfile, UpdateProfileFails,
         UpdatePreferences, Begin, Look, NotFound, Retrieve, Audit, SqlError, Midnight, Restart
<1>3. QED
  BY <1>1, <1>2

\* A profile is changed for its owner or an administrator only, unless it has no
\* user_id, and removed for an administrator only, whatever happened to the
\* token meanwhile.
THEOREM ProfileChangesAuthorized == StorageSpec => ChangedByOwnerOrAdmin
<1> DEFINE Authorized ==
      \A u \in Owners :
        rows'[u] # rows[u] =>
          \E c \in Clients : /\ At(c, "write") /\ request[c].user = u
                             /\ u = NoId \/ request[c].actor \in {u} \cup Admins
                             /\ rows'[u] = Missing => request[c].actor \in Admins
<1>1. StorageInv /\ [StorageNext]_storage => [Authorized]_storage
  <2> SUFFICES ASSUME StorageInv, [StorageNext]_storage, NEW u \in Owners, rows'[u] # rows[u]
               PROVE  \E c \in Clients : /\ At(c, "write") /\ request[c].user = u
                                         /\ u = NoId \/ request[c].actor \in {u} \cup Admins
                                         /\ rows'[u] = Missing => request[c].actor \in Admins
    OBVIOUS
  <2>1. PICK c \in Clients : Write(c) /\ request[c].user = u /\ rows'[u] = Written(c)
    BY RowsChangeInWrites
  <2>2. At(c, "write") /\ (u = NoId \/ request[c].actor \in {u} \cup Admins)
    BY <2>1 DEF Write, At, StorageInv, CallsAuthorized
  <2>3. rows'[u] = Missing => request[c].op = "delete"
    BY <2>1 DEF Write, Written, At, StorageInv, StorageTypes, Requests, Ops, CallsAuthorized
  <2>4. QED
    BY <2>1, <2>2, <2>3 DEF At, StorageInv, CallsAuthorized
<1>2. ChangedByOwnerOrAdmin <=> [][Authorized]_storage
  BY DEF ChangedByOwnerOrAdmin
<1>3. QED
  BY <1>1, <1>2, StorageInvHolds, PTL DEF StorageSpec

\* An edit is lost, or a version goes back, only in the write of a client whose
\* copy was not made from the row.
THEOREM LossesExplained == StorageSpec => LostOnlyByStaleCopy
<1> DEFINE Lost(u) == /\ rows[u] # Missing /\ rows'[u] # Missing
                      /\ \/ rows'[u].version < rows[u].version
                         \/ ~(rows[u].edits \subseteq rows'[u].edits)
           Explained ==
             \A u \in Owners :
               Lost(u) => \E c \in stale : of[c] = u /\ At(c, "write") /\ request'[c] # request[c]
<1>1. StorageInv /\ [StorageNext]_storage => [Explained]_storage
  <2> SUFFICES ASSUME StorageInv, [StorageNext]_storage, NEW u \in Owners, Lost(u)
               PROVE  \E c \in stale : of[c] = u /\ At(c, "write") /\ request'[c] # request[c]
    OBVIOUS
  <2>1. rows'[u] # rows[u]
    BY DEF StorageInv, StorageTypes, Versioned
  <2>2. PICK c \in Clients : Write(c) /\ request[c].user = u /\ rows'[u] = Written(c)
    BY <2>1, RowsChangeInWrites
  <2>3. /\ At(c, "write") /\ request[c].op \in {"create", "update"}
        /\ rows'[u] = copy[c] /\ of[c] = u /\ copy[c] # Missing
    BY <2>2 DEF Write, Written, At, StorageInv, StorageTypes, Requests, Ops, CallsAuthorized
  <2>4. c \in stale
    BY <2>3 DEF StorageInv, StorageTypes, Versioned, FreshCopies
  <2>5. request'[c].step = "audit" /\ request[c].step = "write"
    BY <2>2 DEF Write, GoTo, At, StorageInv, StorageTypes, Requests
  <2>6. QED
    BY <2>3, <2>4, <2>5
<1>2. QED
  BY <1>1, StorageInvHolds, PTL DEF StorageSpec, LostOnlyByStaleCopy

-----------------------------------------------------------------------------
(* The audit log.                                                          *)

AuditInv == StorageInv /\ AloneTrue /\ LogTellsState

\* The log tells nothing of the empty table.
LEMMA AuditInit == StorageInit => AuditInv
BY StorageInitInv DEF StorageInit, AuditInv, AloneTrue, LogTellsState

\* Of the steps, a write hands the profile over to the entry that will follow
\* it, and that entry is true unless somebody else wrote in between.
LEMMA AuditNext ==
  ASSUME Missing \notin Requests
  PROVE  AuditInv /\ [StorageNext]_storage => AuditInv'
<1> SUFFICES ASSUME AuditInv, [StorageNext]_storage PROVE AloneTrue' /\ LogTellsState'
  BY StorageNextInv DEF AuditInv
<1> USE DEF AuditInv
<1> USE DEF At
<1>1. ASSUME UNCHANGED <<rows, told, request, overlap, tangled>>
      PROVE  AloneTrue' /\ LogTellsState'
  BY <1>1 DEF AloneTrue, LogTellsState
<1>2. ASSUME NEW c \in Clients, Begin(c) PROVE AloneTrue' /\ LogTellsState'
  BY <1>2 DEF Begin, Idle, FirstStep, Ops, StorageInv, StorageTypes, AloneTrue, LogTellsState
<1>3. ASSUME NEW c \in Clients, Look(c) PROVE AloneTrue' /\ LogTellsState'
  BY <1>3 DEF Look, GoTo, StorageInv, StorageTypes, Requests, AloneTrue, LogTellsState
<1>4. ASSUME NEW c \in Clients, NotFound(c) \/ Retrieve(c) PROVE AloneTrue' /\ LogTellsState'
  BY <1>4 DEF NotFound, Retrieve, Return, StorageInv, StorageTypes, Requests, AloneTrue, LogTellsState
<1>5. ASSUME NEW c \in Clients, Audit(c) PROVE AloneTrue' /\ LogTellsState'
  BY <1>5 DEF Audit, Return, StorageInv, StorageTypes, Requests, AloneTrue, LogTellsState
<1>6. ASSUME NEW c \in Clients, SqlError(c) PROVE AloneTrue' /\ LogTellsState'
  BY <1>6 DEF SqlError, Return, StorageInv, StorageTypes, Requests, AloneTrue, LogTellsState
<1>7. CASE Restart
  BY <1>7 DEF Restart, StorageInv, StorageTypes, Requests, AloneTrue, LogTellsState
<1>8. ASSUME NEW c \in Clients, Write(c) PROVE AloneTrue' /\ LogTellsState'
  <2> DEFINE u == request[c].user
  <2>1. /\ request[c] \in Requests /\ u \in Owners
        /\ request[c].step = "write" /\ request[c].op \in Ops \ {"read"}
        /\ told' = told /\ tangled' = tangled
        /\ rows' = [rows EXCEPT ![u] = Written(c)]
    BY <1>8 DEF Write, StorageInv, StorageTypes, Requests
  <2>2. /\ request' = [request EXCEPT ![c].step = "audit"]
        /\ request'[c] # Missing
        /\ request'[c].step = "audit" /\ request'[c].op = request[c].op /\ request'[c].user = u
        /\ \A n \in Clients \ {c} : request'[n] = request[n]
    BY <1>8, <2>1, StorageNextInv DEF Write, GoTo, StorageInv, StorageTypes, Requests
  <2>3. \A v \in Owners \ {u} : rows'[v] = rows[v]
    BY <2>1 DEF StorageInv, StorageTypes
  <2>4. LogTellsState'
    BY <2>1, <2>2, <2>3 DEF LogTellsState
  <2>5. rows'[u] = Written(c)
    BY <2>1 DEF StorageInv, StorageTypes
  <2>6. c \notin overlap' => (rows'[u] # Missing <=> request[c].op # "delete")
    <3>1. CASE request[c].op = "create"
      BY <2>1, <2>5, <3>1 DEF Written, StorageInv, CallsAuthorized
    <3>2. CASE request[c].op = "update"
      BY <1>8, <2>1, <2>5, <3>2 DEF Write, Written, StorageInv, CallsAuthorized, AloneTrue
    <3>3. CASE request[c].op = "delete"
      BY <2>5, <3>3 DEF Written
    <3>4. QED
      BY <2>1, <3>1, <3>2, <3>3 DEF Ops
  <2>7. ASSUME NEW n \in Clients \ {c}, n \notin overlap', request[n] # Missing,
               request[n].step \in {"write", "audit"}
        PROVE  request[n].user # u /\ n \notin overlap
    BY <1>8, <2>7 DEF Write
  <2>8. AloneTrue'
    <3> SUFFICES ASSUME NEW n \in Clients, n \notin overlap', request'[n] # Missing
                 PROVE  /\ request'[n].step = "write" /\ request'[n].op = "update"
                             => rows'[request'[n].user] # Missing
                        /\ request'[n].step = "audit"
                             => (rows'[request'[n].user] # Missing <=> request'[n].op # "delete")
      BY DEF AloneTrue
    <3>1. CASE n = c
      BY <2>2, <2>6, <3>1
    <3>2. CASE n # c /\ request[n].step \in {"write", "audit"}
      <4>1. request'[n] = request[n] /\ request[n].user \in Owners \ {u} /\ n \notin overlap
        BY <2>2, <2>7, <3>2 DEF StorageInv, StorageTypes, Requests
      <4>2. QED
        BY <2>3, <4>1 DEF AloneTrue
    <3>3. CASE n # c /\ request[n].step \notin {"write", "audit"}
      BY <2>2, <3>3
    <3>4. QED
      BY <3>1, <3>2, <3>3
  <2>9. QED
    BY <2>4, <2>8
<1>9. QED
  <2>1. CASE UNCHANGED storage
    BY <1>1, <2>1 DEF storage
  <2>2. CASE Midnight
    BY <1>1, <2>2 DEF Midnight
  <2>3. ASSUME NEW c \in Clients,
               \/ Authenticate(c) \/ Logout(c) \/ NewProfile(c)
               \/ UpdateProfile(c) \/ UpdateProfileFails(c) \/ UpdatePreferences(c)
        PROVE  AloneTrue' /\ LogTellsState'
    BY <1>1, <2>3 DEF Authenticate, Logout, NewProfile, UpdateProfile, UpdateProfileFails,
                      UpdatePreferences
  <2>4. QED
    BY <1>2, <1>3, <1>4, <1>5, <1>6, <1>7, <1>8, <2>1, <2>2, <2>3 DEF StorageNext

\* Between calls the newest entry of a change says whether the profile exists,
\* but for lost entries and overlapping calls.
THEOREM LogAlwaysTells ==
  ASSUME Missing \notin Requests
  PROVE  StorageSpec => []LogTellsState
<1>1. StorageInit => AuditInv
  BY AuditInit
<1>2. AuditInv /\ [StorageNext]_storage => AuditInv'
  BY AuditNext
<1>3. AuditInv => LogTellsState
  BY DEF AuditInv
<1>4. QED
  BY <1>1, <1>2, <1>3, PTL DEF StorageSpec

=============================================================================
