----------------------- MODULE PersistenceManagerProofs -----------------------
(***************************************************************************)
(* For any number of managers, ids, metadata keys and retries: what a      *)
(* cache may serve that the table does not hold, when an update loses a    *)
(* metadata key, and that no cache outgrows its size or loses track of an  *)
(* entry; and when the two backends of MemoryStorage part.                 *)
(***************************************************************************)
EXTENDS PersistenceManager, MemoryStorage, DataLemmas

\* TypeOK without the order of the cache.
Types == /\ rows \in [Ids -> Rows \cup {None}]
         /\ minted \subseteq Uuids
         /\ cache \in [Managers -> [Ids -> Rows \cup {None}]]
         /\ call \in [Managers -> Calls]
         /\ excused \in [Managers -> SUBSET Ids]
         /\ overlap \in [Managers -> BOOLEAN]

\* A call has the id that its step needs, and before a commit the row it read.
CallsSound ==
  \A m \in Managers : call[m].step # "idle" =>
    /\ call[m].op \in {"retrieve", "update", "delete"} => call[m].id \in Ids /\ call[m].arg \in Ids
    /\ call[m].op = "save" => call[m].content \in Contents
    /\ call[m].step \in {"refresh", "confirm"} => call[m].id \in Ids
    /\ call[m].step = "commit" => call[m].op \in {"update", "delete"} /\ call[m].seen \in Rows

\* The row an update has read is the row it is going to change, unless another
\* manager came between.
ReadsHold ==
  \A m \in Managers : call[m].step = "commit" /\ ~overlap[m] => rows[call[m].id] = call[m].seen

Inv == Types /\ CallsSound /\ ReadsHold /\ StaleOnlyWithCause

LEMMA NoCallType == NoCall \in Calls
BY RetriesAssumption DEF NoCall, Calls, Steps

LEMMA InitInv == Init => Inv
<1> SUFFICES ASSUME Init PROVE Inv
  OBVIOUS
<1>1. \A m \in Managers : call[m] = NoCall
  BY DEF Init
<1>2. Types
  BY NoCallType DEF Init, Types
<1>3. QED
  BY <1>1, <1>2 DEF Init, Inv, CallsSound, ReadsHold, StaleOnlyWithCause, NoCall

\* A call changes itself only.
Alone(m) == \A n \in Managers \ {m} : call'[n] = call[n]

-----------------------------------------------------------------------------
(* Calls: what each step makes of the call it belongs to.                  *)

\* A call begins with its arguments and is at its first access.
LEMMA Begins ==
  ASSUME Types, NEW m \in Managers, NEW id \in Ids \cup {None},
         NEW op \in {"save", "retrieve", "update", "delete"},
         NEW c \in Contents \cup {None}, NEW t \in Tags \cup {None},
         Begin(m, op, id, c, t)
  PROVE  /\ call' \in [Managers -> Calls] /\ Alone(m)
         /\ call'[m].step = "access" /\ call'[m].op = op
         /\ call'[m].id = id /\ call'[m].arg = id /\ call'[m].content = c
<1>1. 1 \in 0..MaxRetries
  BY RetriesAssumption
<1>2. call'[m] = [step |-> "access", op |-> op, arg |-> id, id |-> id, content |-> c,
                  tag |-> t, attempt |-> 1, seen |-> None]
  BY DEF Begin, Types, NoCall
<1>3. call'[m] \in Calls
  BY <1>1, <1>2 DEF Calls, Steps
<1>4. QED
  BY <1>2, <1>3 DEF Begin, Types, Alone

\* A call is over, or its next attempt begins with the arguments it was given.
LEMMA Ends ==
  ASSUME Types, NEW m \in Managers, Return(m) \/ RetryOrRaise(m)
  PROVE  /\ call' \in [Managers -> Calls] /\ Alone(m)
         /\ \/ call'[m] = NoCall
            \/ /\ call'[m].step = "access" /\ call'[m].op = call[m].op
               /\ call'[m].id = call[m].arg /\ call'[m].arg = call[m].arg
               /\ call'[m].content = call[m].content
<1>2. CASE Return(m)
  BY <1>2, NoCallType DEF Return, Types, Alone
<1>3. CASE RetryOrRaise(m) /\ ~Return(m)
  <2>1. call[m] \in Calls /\ call[m].attempt + 1 \in 0..MaxRetries
    BY <1>3, RetriesAssumption DEF RetryOrRaise, Types, Calls
  <2>2. call'[m] = [call[m] EXCEPT !.step = "access", !.id = call[m].arg,
                                   !.attempt = call[m].attempt + 1, !.seen = None]
    BY <1>3, <2>1 DEF RetryOrRaise, Types, Calls
  <2>3. call'[m] \in Calls
    BY <2>1, <2>2 DEF Calls, Steps
  <2>4. QED
    BY <1>3, <2>1, <2>2, <2>3 DEF RetryOrRaise, Types, Calls, Alone
<1>4. QED
  BY <1>2, <1>3

-----------------------------------------------------------------------------
(* The cache and the history.                                              *)

\* _cache_put: the row is there, and nothing else is that was not.
LEMMA Puts ==
  ASSUME Types, NEW m \in Managers, NEW id \in Ids, NEW row \in Rows, CachePut(m, id, row)
  PROVE  /\ cache' \in [Managers -> [Ids -> Rows \cup {None}]]
         /\ excused' \in [Managers -> SUBSET Ids]
         /\ cache'[m][id] = row /\ excused'[m] = excused[m] \ {id}
         /\ \A i \in Ids \ {id} : cache'[m][i] \in {None, cache[m][i]}
         /\ \A n \in Managers \ {m} : cache'[n] = cache[n] /\ excused'[n] = excused[n]
<1>1. excused' = [excused EXCEPT ![m] = excused[m] \ {id}]
  BY DEF CachePut, Types
<1>2. PICK K : cache' = [cache EXCEPT ![m] = [i \in Ids |-> IF i = id THEN row
                                                          ELSE IF i \in K THEN cache[m][i]
                                                          ELSE None]]
  BY DEF CachePut, Types
<1>3. [i \in Ids |-> IF i = id THEN row ELSE IF i \in K THEN cache[m][i] ELSE None]
        \in [Ids -> Rows \cup {None}]
  BY DEF Types
<1>4. QED
  BY <1>1, <1>2, <1>3 DEF Types

\* A commit excuses every other manager's entry of the row.
LEMMA Notes ==
  ASSUME Types, NEW m \in Managers, NEW id \in Ids, Committed(m, id)
  PROVE  /\ excused' \in [Managers -> SUBSET Ids] /\ excused'[m] = excused[m]
         /\ \A n \in Managers \ {m} : excused'[n] = excused[n] \cup {id}
         /\ overlap' \in [Managers -> BOOLEAN]
         /\ \A n \in Managers \ {m} : ~overlap'[n] => call[n].id # id /\ ~overlap[n]
BY DEF Committed, Types

-----------------------------------------------------------------------------
(* The steps.                                                              *)

\* What CallsSound says of one manager.
CallSound(m) ==
  call[m].step # "idle" =>
    /\ call[m].op \in {"retrieve", "update", "delete"} => call[m].id \in Ids /\ call[m].arg \in Ids
    /\ call[m].op = "save" => call[m].content \in Contents
    /\ call[m].step \in {"refresh", "confirm"} => call[m].id \in Ids
    /\ call[m].step = "commit" => call[m].op \in {"update", "delete"} /\ call[m].seen \in Rows

LEMMA OneCallSound ==
  ASSUME CallsSound, NEW m \in Managers, Alone(m), CallSound(m)'
  PROVE  CallsSound'
BY DEF CallsSound, CallSound, Alone

\* A step that changes nothing but its call, and may excuse more, keeps the
\* invariant if it excuses the entry of an update that it ends.
LEMMA CallMoves ==
  ASSUME Inv, NEW m \in Managers, UNCHANGED <<rows, minted, cache, overlap>>,
         call' \in [Managers -> Calls], Alone(m), CallSound(m)', call'[m].step # "commit",
         excused' \in [Managers -> SUBSET Ids], \A n \in Managers : excused[n] \subseteq excused'[n],
         At(m, "update", "refresh") => call[m].id \in excused'[m]
  PROVE  Inv'
<1>1. Types' /\ CallsSound'
  BY OneCallSound DEF Inv, Types
<1>2. ReadsHold'
  BY DEF Inv, ReadsHold, Alone
<1>3. StaleOnlyWithCause'
  BY DEF Inv, StaleOnlyWithCause, At, Alone
<1>4. QED
  BY <1>1, <1>2, <1>3 DEF Inv

LEMMA BeginInv ==
  ASSUME Inv, NEW m \in Managers,
         BeginSave(m) \/ BeginRetrieve(m) \/ BeginUpdate(m) \/ BeginDelete(m)
  PROVE  Inv'
<1>1. UNCHANGED <<rows, minted, cache, excused, overlap>> /\ Idle(m)
  BY DEF BeginSave, BeginRetrieve, BeginUpdate, BeginDelete
<1>2. PICK op \in {"save", "retrieve", "update", "delete"}, id \in Ids \cup {None},
           c \in Contents \cup {None}, t \in Tags \cup {None} :
        /\ Begin(m, op, id, c, t)
        /\ IF op = "save" THEN c \in Contents ELSE id \in Ids
  BY DEF BeginSave, BeginRetrieve, BeginUpdate, BeginDelete, InUse, Ids, Inv, Types
<1>3. /\ call' \in [Managers -> Calls] /\ Alone(m) /\ call'[m].step = "access"
      /\ call'[m].op = op /\ call'[m].id = id /\ call'[m].arg = id /\ call'[m].content = c
  <2>1. Types /\ Begin(m, op, id, c, t)
    BY <1>2 DEF Inv
  <2>2. QED
    BY ONLY <2>1, Begins
<1>4. CallSound(m)'
  BY <1>2, <1>3 DEF CallSound
<1>5. QED
  BY <1>1, <1>3, <1>4, CallMoves DEF Idle, At, Inv, Types

\* A call that ends, or tries again, after a failure.
LEMMA EndSound ==
  ASSUME Inv, NEW m \in Managers, Return(m) \/ RetryOrRaise(m), call[m].step # "idle"
  PROVE  /\ call' \in [Managers -> Calls] /\ Alone(m) /\ CallSound(m)'
         /\ call'[m].step \in {"idle", "access"}
<1>1. /\ call' \in [Managers -> Calls] /\ Alone(m)
      /\ \/ call'[m] = NoCall
         \/ /\ call'[m].step = "access" /\ call'[m].op = call[m].op
            /\ call'[m].id = call[m].arg /\ call'[m].arg = call[m].arg
            /\ call'[m].content = call[m].content
  BY Ends DEF Inv
<1>2. QED
  BY <1>1 DEF CallSound, NoCall, Inv, CallsSound

LEMMA FailureInv ==
  ASSUME Inv, NEW m \in Managers,
         Conflict(m) \/ ConfirmFails(m) \/ NotFound(m) \/ Fail(m)
  PROVE  Inv'
<1>1. /\ UNCHANGED <<rows, minted, cache, overlap>> /\ (Return(m) \/ RetryOrRaise(m))
      /\ call[m].step # "idle"
  BY DEF Conflict, ConfirmFails, NotFound, Fail, At
<1>2. /\ excused' \in [Managers -> SUBSET Ids] /\ \A n \in Managers : excused[n] \subseteq excused'[n]
      /\ At(m, "update", "refresh") => call[m].id \in excused'[m]
  <2>1. CASE Fail(m)
    BY <2>1 DEF Fail, At, Inv, Types, CallsSound
  <2>2. CASE ~Fail(m)
    BY <2>2 DEF Conflict, ConfirmFails, NotFound, At, Inv, Types
  <2>3. QED
    BY <2>1, <2>2
<1>3. QED
  BY <1>1, <1>2, EndSound, CallMoves

LEMMA RefreshSavedInv == ASSUME Inv, NEW m \in Managers, RefreshSaved(m) PROVE Inv'
<1>1. /\ call[m].op = "save" /\ call[m].step = "refresh"
      /\ UNCHANGED <<rows, minted, cache, excused, overlap>>
      /\ call' = [call EXCEPT ![m].step = "confirm"]
  BY DEF RefreshSaved, At
<1>2. call[m] \in Calls /\ call'[m] = [call[m] EXCEPT !.step = "confirm"]
  BY <1>1 DEF Inv, Types
<1>3. call'[m] \in Calls
  BY <1>2 DEF Calls, Steps
<1>4. /\ call' \in [Managers -> Calls] /\ Alone(m) /\ call'[m].step = "confirm"
      /\ call'[m].op = call[m].op /\ call'[m].id = call[m].id /\ call'[m].arg = call[m].arg
      /\ call'[m].content = call[m].content
  BY <1>1, <1>2, <1>3 DEF Inv, Types, Calls, Alone
<1>5. CallSound(m)'
  BY <1>1, <1>4 DEF CallSound, Inv, CallsSound
<1>6. QED
  BY <1>1, <1>4, <1>5, CallMoves DEF At, Inv, Types

\* The row that is read goes into the cache and ends the call.
LEMMA PutInv ==
  ASSUME Inv, NEW m \in Managers, Confirm(m) \/ Read(m) \/ RefreshUpdated(m)
  PROVE  Inv'
<1>1. /\ rows[call[m].id] # None /\ CachePut(m, call[m].id, rows[call[m].id]) /\ Return(m)
      /\ UNCHANGED <<rows, minted, overlap>> /\ call[m].step # "idle"
  BY DEF Confirm, Read, RefreshUpdated, At
<1>2. PICK id \in Ids : id = call[m].id
  BY DEF Confirm, Read, RefreshUpdated, At, Inv, CallsSound
<1>3. rows[id] \in Rows
  BY <1>1, <1>2 DEF Inv, Types
<1>4. /\ cache' \in [Managers -> [Ids -> Rows \cup {None}]] /\ excused' \in [Managers -> SUBSET Ids]
      /\ cache'[m][id] = rows[id] /\ excused'[m] = excused[m] \ {id}
      /\ \A i \in Ids \ {id} : cache'[m][i] \in {None, cache[m][i]}
      /\ \A n \in Managers \ {m} : cache'[n] = cache[n] /\ excused'[n] = excused[n]
  BY <1>1, <1>2, <1>3, Puts DEF Inv
<1>5. call' \in [Managers -> Calls] /\ Alone(m) /\ CallSound(m)'
  BY <1>1, EndSound
<1>6. call'[m].step = "idle"
  BY <1>1 DEF Return, NoCall, Inv, Types
<1>7. Types' /\ CallsSound'
  BY <1>1, <1>4, <1>5, OneCallSound DEF Inv, Types
<1>8. ReadsHold'
  BY <1>1, <1>5, <1>6 DEF Inv, ReadsHold, Alone
<1>9. StaleOnlyWithCause'
  <2> SUFFICES ASSUME NEW n \in Managers, NEW i \in Ids
               PROVE  \/ cache'[n][i] = None \/ cache'[n][i] = rows'[i] \/ i \in excused'[n]
                      \/ call'[n].id = i /\ At(n, "update", "refresh")'
    BY DEF StaleOnlyWithCause
  <2>1. CASE n # m
    BY <1>1, <1>4, <1>5, <2>1 DEF Inv, StaleOnlyWithCause, At, Alone
  <2>2. CASE n = m /\ i = id
    BY <1>1, <1>4, <2>2
  <2>3. CASE n = m /\ i # id
    BY <1>1, <1>2, <1>4, <2>3 DEF Inv, StaleOnlyWithCause
  <2>4. QED
    BY <2>1, <2>2, <2>3
<1>10. QED
  BY <1>7, <1>8, <1>9 DEF Inv

LEMMA FetchInv == ASSUME Inv, NEW m \in Managers, Fetch(m) PROVE Inv'
<1>1. /\ call[m].op \in {"update", "delete"} /\ call[m].step = "access" /\ rows[call[m].id] # None
      /\ call' = [call EXCEPT ![m].step = "commit", ![m].seen = rows[call[m].id]]
      /\ overlap' = [overlap EXCEPT ![m] = FALSE] /\ UNCHANGED <<rows, minted, cache, excused>>
  BY DEF Fetch, At
<1>2. call[m].id \in Ids /\ rows[call[m].id] \in Rows
  BY <1>1 DEF Inv, Types, CallsSound
<1>3. /\ call[m] \in Calls
      /\ call'[m] = [call[m] EXCEPT !.step = "commit", !.seen = rows[call[m].id]]
  BY <1>1 DEF Inv, Types, Calls
<1>a. call'[m] \in Calls
  BY <1>2, <1>3 DEF Calls, Steps
<1>4. /\ call' \in [Managers -> Calls] /\ Alone(m) /\ call'[m].step = "commit"
      /\ call'[m].op = call[m].op /\ call'[m].id = call[m].id /\ call'[m].arg = call[m].arg
      /\ call'[m].content = call[m].content /\ call'[m].seen = rows[call[m].id]
  BY <1>1, <1>3, <1>a DEF Inv, Types, Calls, Alone
<1>5. CallSound(m)'
  BY <1>1, <1>2, <1>4 DEF CallSound, Inv, CallsSound
<1>6. overlap' \in [Managers -> BOOLEAN] /\ \A n \in Managers \ {m} : overlap'[n] = overlap[n]
  BY <1>1 DEF Inv, Types
<1>7. Types' /\ CallsSound'
  BY <1>1, <1>4, <1>5, <1>6, OneCallSound DEF Inv, Types
<1>8. ReadsHold'
  BY <1>1, <1>4, <1>6 DEF Inv, ReadsHold, Alone
<1>9. StaleOnlyWithCause'
  BY <1>1, <1>4 DEF Inv, StaleOnlyWithCause, At, Alone
<1>10. QED
  BY <1>7, <1>8, <1>9 DEF Inv

\* A commit of one row: the entries of the others are excused, and so are reads
\* that it comes after.
LEMMA CommitInv ==
  ASSUME Inv, NEW m \in Managers, NEW id \in Ids, Committed(m, id),
         rows' \in [Ids -> Rows \cup {None}], \A i \in Ids \ {id} : rows'[i] = rows[i],
         minted' \subseteq Uuids, cache' \in [Managers -> [Ids -> Rows \cup {None}]],
         call' \in [Managers -> Calls], Alone(m), CallSound(m)', call'[m].step # "commit",
         \A n \in Managers \ {m} : cache'[n] = cache[n],
         \A i \in Ids \ {id} : cache'[m][i] = cache[m][i],
         ~At(m, "update", "refresh"),
         \/ cache'[m][id] = None \/ id \in excused[m]
         \/ call'[m].id = id /\ At(m, "update", "refresh")'
  PROVE  Inv'
<1>1. /\ excused' \in [Managers -> SUBSET Ids] /\ excused'[m] = excused[m]
      /\ \A n \in Managers \ {m} : excused'[n] = excused[n] \cup {id}
  BY Notes DEF Inv
<1>o. /\ overlap' \in [Managers -> BOOLEAN]
      /\ \A n \in Managers \ {m} : ~overlap'[n] => call[n].id # id /\ ~overlap[n]
  BY Notes DEF Inv
<1>2. Types' /\ CallsSound'
  BY <1>1, <1>o, OneCallSound DEF Inv, Types
<1>3. ReadsHold'
  <2> SUFFICES ASSUME NEW n \in Managers, call'[n].step = "commit", ~overlap'[n]
               PROVE  rows'[call'[n].id] = call'[n].seen
    BY DEF ReadsHold
  <2>a. n # m
    OBVIOUS
  <2>b. call'[n] = call[n]
    BY <2>a DEF Alone
  <2>c. call[n].id # id /\ ~overlap[n]
    BY <1>o, <2>a
  <2>1. n # m /\ call'[n] = call[n] /\ call[n].id # id /\ ~overlap[n]
    BY <2>a, <2>b, <2>c
  <2>2. call[n].id \in Ids
    BY <2>1 DEF Inv, CallsSound
  <2>3. QED
    BY <2>1, <2>2 DEF Inv, ReadsHold
<1>4. StaleOnlyWithCause'
  <2> SUFFICES ASSUME NEW n \in Managers, NEW i \in Ids
               PROVE  \/ cache'[n][i] = None \/ cache'[n][i] = rows'[i] \/ i \in excused'[n]
                      \/ call'[n].id = i /\ At(n, "update", "refresh")'
    BY DEF StaleOnlyWithCause
  <2>1. CASE n # m
    <3>a. cache'[n] = cache[n]
      BY <2>1
    <3>b. call'[n] = call[n]
      BY <2>1 DEF Alone
    <3>c. excused'[n] = excused[n] \cup {id}
      BY <1>1, <2>1
    <3>1. cache'[n] = cache[n] /\ call'[n] = call[n] /\ excused'[n] = excused[n] \cup {id}
      BY <3>a, <3>b, <3>c
    <3>2. CASE i = id
      BY <3>1, <3>2
    <3>3. CASE i # id
      BY <3>1, <3>3 DEF Inv, StaleOnlyWithCause, At
    <3>4. QED
      BY <3>2, <3>3
  <2>2. CASE n = m /\ i = id
    BY <1>1, <2>2
  <2>3. CASE n = m /\ i # id
    BY <1>1, <2>3 DEF Inv, StaleOnlyWithCause
  <2>4. QED
    BY <2>1, <2>2, <2>3
<1>5. QED
  BY <1>2, <1>3, <1>4 DEF Inv

LEMMA InsertInv == ASSUME Inv, NEW m \in Managers, Insert(m) PROVE Inv'
<1>1. PICK id \in Ids : /\ rows[id] = None
                        /\ rows' = [rows EXCEPT ![id] = SavedRow(m)]
                        /\ minted' = minted \cup ({id} \cap Uuids)
                        /\ call' = [call EXCEPT ![m].step = "refresh", ![m].id = id]
                        /\ Committed(m, id)
  BY DEF Insert, At, Inv, Types, Calls, Ids
<1>2. call[m].op = "save" /\ call[m].step = "access" /\ UNCHANGED cache
  BY DEF Insert, At
<1>3. call[m] \in Calls /\ call'[m] = [call[m] EXCEPT !.step = "refresh", !.id = id]
  BY <1>1 DEF Inv, Types, Calls
<1>4. call'[m] \in Calls
  BY <1>3 DEF Calls, Steps
<1>5. /\ call' \in [Managers -> Calls] /\ Alone(m) /\ call'[m].step = "refresh"
      /\ call'[m].op = "save" /\ call'[m].id = id /\ call'[m].content = call[m].content
  BY <1>1, <1>2, <1>3, <1>4 DEF Inv, Types, Calls, Alone
<1>6. CallSound(m)'
  BY <1>2, <1>5 DEF CallSound, Inv, CallsSound
<1>7. SavedRow(m) \in Rows
  BY <1>2, <1>3 DEF SavedRow, Rows, Calls, Inv, CallsSound
<1>8. /\ rows' \in [Ids -> Rows \cup {None}] /\ \A i \in Ids \ {id} : rows'[i] = rows[i]
      /\ minted' \subseteq Uuids /\ cache' \in [Managers -> [Ids -> Rows \cup {None}]]
  BY <1>1, <1>2, <1>7 DEF Inv, Types
<1>9. cache'[m][id] = None \/ id \in excused[m]
  BY <1>1, <1>2 DEF Inv, StaleOnlyWithCause, At
<1>10. QED
  BY <1>1, <1>2, <1>5, <1>6, <1>8, <1>9, CommitInv DEF At

\* The row an update writes is a row.
LEMMA UpdateWrites ==
  ASSUME Inv, NEW m \in Managers, CommitUpdate(m)
  PROVE  call[m].id \in Ids /\ \A rewritten \in BOOLEAN : UpdatedRow(m, rewritten) \in Rows
<1>1. /\ call[m].op = "update" /\ call[m].step = "commit" /\ call[m] \in Calls
      /\ rows[call[m].id] # None
  BY DEF CommitUpdate, At, Inv, Types
<1>2. call[m].id \in Ids /\ call[m].seen \in Rows /\ rows[call[m].id] \in Rows
  BY <1>1 DEF Inv, Types, CallsSound
<1>3. QED
  BY <1>1, <1>2 DEF UpdatedRow, Rows, Calls

LEMMA CommitUpdateInv == ASSUME Inv, NEW m \in Managers, CommitUpdate(m) PROVE Inv'
<1>1. PICK id \in Ids : id = call[m].id /\ \A rewritten \in BOOLEAN : UpdatedRow(m, rewritten) \in Rows
  BY UpdateWrites
<1>2. PICK row \in Rows : rows' = [rows EXCEPT ![id] = row]
  BY <1>1 DEF CommitUpdate
<1>3. /\ call[m].op = "update" /\ call[m].step = "commit" /\ UNCHANGED <<minted, cache>>
      /\ rows' = [rows EXCEPT ![id] = row] /\ Committed(m, id)
      /\ call' = [call EXCEPT ![m].step = "refresh"]
  BY <1>1, <1>2 DEF CommitUpdate, At
<1>4. call[m] \in Calls /\ call'[m] = [call[m] EXCEPT !.step = "refresh"]
  BY <1>3 DEF Inv, Types
<1>5. call'[m] \in Calls
  BY <1>4 DEF Calls, Steps
<1>6. /\ call' \in [Managers -> Calls] /\ Alone(m) /\ call'[m].step = "refresh"
      /\ call'[m].op = "update" /\ call'[m].id = id /\ call'[m].arg = call[m].arg
  BY <1>1, <1>3, <1>4, <1>5 DEF Inv, Types, Calls, Alone
<1>7. CallSound(m)'
  BY <1>3, <1>6 DEF CallSound, Inv, CallsSound
<1>8. /\ rows' \in [Ids -> Rows \cup {None}] /\ \A i \in Ids \ {id} : rows'[i] = rows[i]
      /\ minted' \subseteq Uuids /\ cache' \in [Managers -> [Ids -> Rows \cup {None}]]
  BY <1>1, <1>3 DEF Inv, Types
<1>9. QED
  BY <1>3, <1>6, <1>7, <1>8, CommitInv DEF At

LEMMA CommitDeleteInv == ASSUME Inv, NEW m \in Managers, CommitDelete(m) PROVE Inv'
<1>1. PICK id \in Ids : id = call[m].id
  BY DEF CommitDelete, At, Inv, CallsSound
<1>2. /\ call[m].op = "delete" /\ call[m].step = "commit" /\ UNCHANGED minted
      /\ rows' = [rows EXCEPT ![id] = None] /\ Committed(m, id) /\ Return(m)
      /\ cache' = [cache EXCEPT ![m][id] = None]
  BY <1>1 DEF CommitDelete, CacheRemove, At
<1>3. /\ call' \in [Managers -> Calls] /\ Alone(m) /\ CallSound(m)' /\ call'[m].step # "commit"
  BY <1>2, EndSound
<1>4. /\ rows' \in [Ids -> Rows \cup {None}] /\ \A i \in Ids \ {id} : rows'[i] = rows[i]
      /\ minted' \subseteq Uuids /\ cache' \in [Managers -> [Ids -> Rows \cup {None}]]
      /\ \A n \in Managers \ {m} : cache'[n] = cache[n]
      /\ \A i \in Ids \ {id} : cache'[m][i] = cache[m][i]
      /\ cache'[m][id] = None
  BY <1>2 DEF Inv, Types
<1>5. QED
  BY <1>2, <1>3, <1>4, CommitInv DEF At

LEMMA RestartInv == ASSUME Inv, NEW m \in Managers, Restart(m) PROVE Inv'
<1>1. /\ cache' = [cache EXCEPT ![m] = [id \in Ids |-> None]] /\ Return(m)
      /\ excused' = [excused EXCEPT ![m] = {}] /\ UNCHANGED <<rows, minted, overlap>>
  BY DEF Restart
<1>2. /\ call' \in [Managers -> Calls] /\ Alone(m) /\ call'[m] = NoCall
  BY <1>1, NoCallType DEF Return, Alone, Inv, Types
<1>3. /\ cache' \in [Managers -> [Ids -> Rows \cup {None}]] /\ excused' \in [Managers -> SUBSET Ids]
      /\ \A n \in Managers \ {m} : cache'[n] = cache[n] /\ excused'[n] = excused[n]
      /\ \A id \in Ids : cache'[m][id] = None
  BY <1>1 DEF Inv, Types
<1>4. Types' /\ CallsSound'
  BY <1>1, <1>2, <1>3 DEF Inv, Types, CallsSound, Alone, NoCall
<1>5. ReadsHold'
  BY <1>1, <1>2 DEF Inv, ReadsHold, Alone, NoCall
<1>6. StaleOnlyWithCause'
  BY <1>1, <1>2, <1>3 DEF Inv, StaleOnlyWithCause, At, Alone, NoCall
<1>7. QED
  BY <1>4, <1>5, <1>6 DEF Inv

LEMMA NextInv == Inv /\ [Next]_vars => Inv'
<1>1. ASSUME Inv, UNCHANGED vars PROVE Inv'
  BY <1>1 DEF vars, Inv, Types, CallsSound, ReadsHold, StaleOnlyWithCause, At
<1>2. QED
  BY <1>1, BeginInv, FailureInv, RefreshSavedInv, PutInv, FetchInv, InsertInv, CommitUpdateInv,
     CommitDeleteInv, RestartInv DEF Next, Step

-----------------------------------------------------------------------------
\* Of the step a call is at, what it has read and what its cache holds.
THEOREM InvHolds == Spec => []Inv
<1>1. QED
  BY InitInv, NextInv, PTL DEF Spec

\* A cache serves something else than the table holds only after another
\* manager's commit or a failed re-read of its own.
THEOREM StalenessExplained == Spec => []StaleOnlyWithCause
<1>1. Inv => StaleOnlyWithCause
  BY DEF Inv
<1>2. QED
  BY <1>1, InvHolds, PTL

\* A metadata key disappears from a row that stays only in the commit of an
\* update that read the row before another manager changed it.
THEOREM MetadataLossExplained == Spec => MetadataLostOnlyByOverlap
<1> DEFINE Explained ==
  \A id \in Ids :
        rows[id] # None /\ rows'[id] # None /\ ~(rows[id].meta \subseteq rows'[id].meta)
        => \E m \in Managers : /\ At(m, "update", "commit")
                               /\ call[m].id = id
                               /\ call[m].tag # None
                               /\ call'[m].step = "refresh"
                               /\ overlap[m]
<1>1. Inv /\ [Next]_vars => [Explained]_vars
  <2> SUFFICES ASSUME Inv, [Next]_vars, NEW id \in Ids,
                      rows[id] # None /\ rows'[id] # None /\ ~(rows[id].meta \subseteq rows'[id].meta)
               PROVE  \E m \in Managers : /\ At(m, "update", "commit") /\ call[m].id = id
                                          /\ call[m].tag # None
                                          /\ call'[m].step = "refresh" /\ overlap[m]
    OBVIOUS
  <2>1. rows'[id] # rows[id] /\ rows[id] \in Rows
    BY DEF Inv, Types
  <2>2. PICK m \in Managers : CommitUpdate(m) /\ call[m].id = id
    <3>1. PICK m \in Managers : Insert(m) \/ CommitUpdate(m) \/ CommitDelete(m)
      BY <2>1 DEF Next, Step, vars, BeginSave, BeginRetrieve, BeginUpdate, BeginDelete, Conflict,
                  RefreshSaved, Confirm, ConfirmFails, Read, Fetch, NotFound, RefreshUpdated, Fail,
                  Restart
    <3>2. ~Insert(m)
      BY <2>1 DEF Insert, Inv, Types
    <3>3. ~CommitDelete(m)
      BY <2>1 DEF CommitDelete, Inv, Types
    <3>4. CommitUpdate(m) /\ (call[m].id # id => rows'[id] = rows[id])
      BY <3>1, <3>2, <3>3 DEF CommitUpdate, Inv, Types
    <3>5. QED
      BY <2>1, <3>4
  <2>3. PICK rewritten \in BOOLEAN :
           /\ At(m, "update", "commit") /\ rows'[id] = UpdatedRow(m, rewritten)
           /\ call' = [call EXCEPT ![m].step = "refresh"]
    BY <2>2 DEF CommitUpdate, Inv, Types
  <2>4. call'[m].step = "refresh"
    BY <2>3 DEF Inv, Types, Calls
  <2>5. call[m].seen \in Rows /\ call[m] \in Calls
    BY <2>3 DEF At, Inv, Types, CallsSound
  <2>6. /\ call[m].tag # None
        /\ rows'[id].meta = call[m].seen.meta \cup {call[m].tag}
    BY <2>2, <2>3 DEF UpdatedRow
  <2>7. call[m].seen # rows[id]
    BY <2>6
  <2>8. overlap[m]
    BY <2>2, <2>3, <2>7 DEF At, Inv, ReadsHold
  <2>9. QED
    BY <2>2, <2>3, <2>4, <2>6, <2>8
<1>2. QED
  BY <1>1, InvHolds, PTL DEF Spec, MetadataLostOnlyByOverlap

-----------------------------------------------------------------------------
(* The order of the cache.                                                 *)

\* The keys of a cache, oldest first, each once: as many as there is room for.
InOrder(keys, entries) ==
  /\ keys \in Seq(Ids) /\ Len(keys) <= CacheSize
  /\ \A i, j \in 1..Len(keys) : i # j => keys[i] # keys[j]
  /\ KeysIn(keys) = {id \in Ids : entries[id] # None}

CachesInOrder == /\ order \in [Managers -> Seq(Ids)]
                 /\ \A m \in Managers : InOrder(order[m], cache[m])

\* Evicting the oldest key leaves room for one, and the others as they were.
LEMMA Evicts ==
  ASSUME Types, CachesInOrder, NEW m \in Managers
  PROVE  LET kept == EvictOldest(m) IN
         /\ kept \in Seq(Ids) /\ Len(kept) < CacheSize
         /\ \A i, j \in 1..Len(kept) : i # j => kept[i] # kept[j]
         /\ \A id \in KeysIn(kept) : cache[m][id] # None
<1> DEFINE keys == order[m]
           kept == EvictOldest(m)
<1>1. /\ keys \in Seq(Ids) /\ Len(keys) \in Nat /\ Len(keys) <= CacheSize /\ CacheSize \in Nat
      /\ CacheSize >= 1
      /\ \A i, j \in 1..Len(keys) : i # j => keys[i] # keys[j]
  BY CacheSizeAssumption DEF CachesInOrder, InOrder
<1>2. \A i \in 1..Len(keys) : cache[m][keys[i]] # None
  BY DEF CachesInOrder, InOrder, KeysIn
<1> HIDE DEF keys
<1>3. CASE Len(keys) < CacheSize
  <2>1. kept = keys
    BY <1>1, <1>3 DEF EvictOldest, keys
  <2>2. QED
    BY <1>1, <1>2, <1>3, <2>1 DEF KeysIn
<1>4. CASE Len(keys) >= CacheSize
  <2>1. kept = Tail(keys)
    BY <1>4 DEF EvictOldest, keys
  <2>2. keys # <<>> /\ Len(keys) = CacheSize
    BY <1>1, <1>4
  <2>3. /\ kept \in Seq(Ids) /\ Len(kept) = Len(keys) - 1
        /\ \A i \in 1..Len(kept) : kept[i] = keys[i + 1]
    BY <1>1, <2>1, <2>2
  <2> HIDE DEF kept
  <2>4. \A i \in 1..Len(kept) : i + 1 \in 1..Len(keys)
    BY <1>1, <2>3
  <2>5. \A i, j \in 1..Len(kept) : i # j => kept[i] # kept[j]
    BY <1>1, <2>3, <2>4
  <2>6. \A id \in KeysIn(kept) : cache[m][id] # None
    BY <1>2, <2>3, <2>4 DEF KeysIn
  <2>7. Len(kept) < CacheSize
    BY <1>1, <2>2, <2>3
  <2>8. QED
    BY <2>3, <2>5, <2>6, <2>7 DEF kept
<1>5. QED
  BY <1>1, <1>3, <1>4

\* _cache_put keeps the order: a new key comes last, one that is still there
\* keeps its place.
LEMMA PutInOrder ==
  ASSUME Types, CachesInOrder, NEW m \in Managers, NEW id \in Ids, NEW row \in Rows,
         CachePut(m, id, row)
  PROVE  CachesInOrder'
<1> DEFINE kept == EvictOldest(m)
           keys == IF id \in KeysIn(kept) THEN kept ELSE Append(kept, id)
           entries == [i \in Ids |-> IF i = id THEN row ELSE IF i \in KeysIn(kept) THEN cache[m][i]
                                                        ELSE None]
<1>1. order' = [order EXCEPT ![m] = keys] /\ cache' = [cache EXCEPT ![m] = entries]
  BY DEF CachePut, Types, CachesInOrder
<1>2. /\ kept \in Seq(Ids) /\ Len(kept) < CacheSize /\ CacheSize \in Nat
      /\ \A i, j \in 1..Len(kept) : i # j => kept[i] # kept[j]
      /\ \A i \in KeysIn(kept) : cache[m][i] # None
  BY Evicts, CacheSizeAssumption
<1> HIDE DEF kept
<1>3. KeysIn(kept) \subseteq Ids
  BY <1>2 DEF KeysIn
<1>4. InOrder(keys, entries)
  <2>1. \A i \in Ids : entries[i] # None <=> i = id \/ i \in KeysIn(kept)
    BY <1>2, RowAssumption
  <2>2. CASE id \in KeysIn(kept)
    <3>1. keys = kept
      BY <2>2
    <3> HIDE DEF keys, entries
    <3>2. KeysIn(keys) = {i \in Ids : entries[i] # None}
      BY <1>3, <2>1, <2>2, <3>1
    <3>3. QED
      BY <1>2, <3>1, <3>2 DEF InOrder
  <2>3. CASE id \notin KeysIn(kept)
    <3>1. /\ keys \in Seq(Ids) /\ Len(keys) = Len(kept) + 1 /\ keys[Len(kept) + 1] = id
          /\ \A i \in 1..Len(kept) : keys[i] = kept[i]
      BY <1>2, <2>3
    <3> HIDE DEF keys, entries
    <3>2. \A i \in 1..Len(kept) : kept[i] \in KeysIn(kept)
      BY DEF KeysIn
    <3>3. Len(keys) <= CacheSize /\ Len(kept) \in Nat
      BY <1>2, <3>1
    <3>4. ASSUME NEW i \in 1..Len(keys), NEW j \in 1..Len(keys), i # j PROVE keys[i] # keys[j]
      <4>1. (i \in 1..Len(kept) \/ i = Len(kept) + 1) /\ (j \in 1..Len(kept) \/ j = Len(kept) + 1)
        BY <3>1, <3>3
      <4>2. QED
        BY <1>2, <2>3, <3>1, <3>2, <3>4, <4>1
    <3>5. KeysIn(keys) = KeysIn(kept) \cup {id}
      <4>1. ASSUME NEW x \in KeysIn(keys) PROVE x \in KeysIn(kept) \cup {id}
        <5>1. PICK i \in 1..Len(keys) : x = keys[i]
          BY DEF KeysIn
        <5>2. i \in 1..Len(kept) \/ i = Len(kept) + 1
          BY <3>1, <3>3
        <5>3. QED
          BY <3>1, <3>2, <5>1, <5>2
      <4>2. ASSUME NEW x \in KeysIn(kept) \cup {id} PROVE x \in KeysIn(keys)
        <5>1. CASE x = id
          <6>1. Len(kept) + 1 \in 1..Len(keys)
            BY <3>1, <3>3
          <6>2. QED
            BY <3>1, <5>1, <6>1 DEF KeysIn
        <5>2. CASE x \in KeysIn(kept)
          <6>1. PICK i \in 1..Len(kept) : x = kept[i]
            BY <5>2 DEF KeysIn
          <6>2. i \in 1..Len(keys) /\ x = keys[i]
            BY <3>1, <3>3, <6>1
          <6>3. QED
            BY <6>2 DEF KeysIn
        <5>3. QED
          BY <4>2, <5>1, <5>2
      <4>3. QED
        BY <4>1, <4>2
    <3>6. KeysIn(keys) = {i \in Ids : entries[i] # None}
      BY <1>3, <2>1, <3>5
    <3>7. QED
      BY <3>1, <3>3, <3>4, <3>6 DEF InOrder
  <2>4. QED
    BY <2>2, <2>3
<1> HIDE DEF keys, entries
<1>5. keys \in Seq(Ids)
  BY <1>4 DEF InOrder
<1>6. QED
  BY <1>1, <1>4, <1>5 DEF CachesInOrder, Types

\* _cache_remove takes one key out.
LEMMA RemoveInOrder ==
  ASSUME Types, CachesInOrder, NEW m \in Managers, NEW id \in Ids, CacheRemove(m, id)
  PROVE  CachesInOrder'
<1> DEFINE old == order[m]
           keys == Dropped(old, id)
           entries == [cache[m] EXCEPT ![id] = None]
<1>1. order' = [order EXCEPT ![m] = keys] /\ cache' = [cache EXCEPT ![m] = entries]
  BY DEF CacheRemove, Types, CachesInOrder
<1>2. /\ old \in Seq(Ids) /\ Len(old) \in Nat /\ Len(old) <= CacheSize /\ CacheSize \in Nat
      /\ \A i, j \in 1..Len(old) : i # j => old[i] # old[j]
      /\ KeysIn(old) = {i \in Ids : cache[m][i] # None}
  BY CacheSizeAssumption DEF CachesInOrder, InOrder
<1>3. \A i \in Ids : entries[i] # None <=> i # id /\ i \in KeysIn(old)
  BY <1>2 DEF Types
<1> HIDE DEF old, entries
<1>4. InOrder(keys, entries)
  <2>1. CASE id \notin KeysIn(old)
    <3>1. keys = old
      BY <2>1 DEF Dropped
    <3>2. KeysIn(old) = {i \in Ids : entries[i] # None}
      BY <1>2, <1>3, <2>1
    <3> HIDE DEF keys
    <3>3. QED
      BY <1>2, <3>1, <3>2 DEF InOrder
  <2>2. CASE id \in KeysIn(old)
    <3> DEFINE at == CHOOSE i \in 1..Len(old) : old[i] = id
    <3>1. at \in 1..Len(old) /\ old[at] = id
      <4>1. \E i \in 1..Len(old) : old[i] = id
        BY <2>2 DEF KeysIn
      <4>2. QED
        BY <4>1
    <3>2. keys = SubSeq(old, 1, at - 1) \o SubSeq(old, at + 1, Len(old))
      BY <2>2 DEF Dropped
    <3> HIDE DEF at
    <3>3. /\ keys \in Seq(Ids) /\ Len(keys) = Len(old) - 1
          /\ \A i \in 1..Len(keys) : keys[i] = IF i < at THEN old[i] ELSE old[i + 1]
      <4> DEFINE r == SubSeq(old, 1, at - 1) \o SubSeq(old, at + 1, Len(old))
      <4>1. /\ r \in Seq(Ids) /\ Len(r) = Len(old) - 1
            /\ \A i \in 1..Len(r) : r[i] = IF i < at THEN old[i] ELSE old[i + 1]
        BY <1>2, <3>1, TakenOut
      <4>2. keys = r
        BY <3>2
      <4> HIDE DEF r, keys
      <4>3. QED
        BY <4>1, <4>2
    <3> HIDE DEF keys
    \* Where a key comes from.
    <3>4. ASSUME NEW i \in 1..Len(keys)
          PROVE  \E a \in 1..Len(old) : /\ keys[i] = old[a] /\ a # at
                                        /\ IF i < at THEN a = i ELSE a = i + 1
      <4>1. CASE i < at
        BY <1>2, <3>1, <3>3, <4>1
      <4>2. CASE ~(i < at)
        <5>1. i + 1 \in 1..Len(old) /\ i + 1 # at
          BY <1>2, <3>1, <3>3, <4>2
        <5>2. QED
          BY <3>3, <4>2, <5>1
      <4>3. QED
        BY <4>1, <4>2
    <3>5. ASSUME NEW i \in 1..Len(keys), NEW j \in 1..Len(keys), i # j PROVE keys[i] # keys[j]
      <4>1. PICK a \in 1..Len(old) : keys[i] = old[a] /\ IF i < at THEN a = i ELSE a = i + 1
        BY <3>4
      <4>2. PICK b \in 1..Len(old) : keys[j] = old[b] /\ IF j < at THEN b = j ELSE b = j + 1
        BY <3>4
      <4>3. a # b
        BY <3>1, <3>3, <3>5, <4>1, <4>2
      <4>4. QED
        BY <1>2, <4>1, <4>2, <4>3
    <3>6. KeysIn(keys) = KeysIn(old) \ {id}
      <4>1. ASSUME NEW x \in KeysIn(keys) PROVE x \in KeysIn(old) /\ x # id
        <5>1. PICK i \in 1..Len(keys) : x = keys[i]
          BY DEF KeysIn
        <5>2. PICK a \in 1..Len(old) : x = old[a] /\ a # at
          BY <3>4, <5>1
        <5>3. QED
          BY <1>2, <3>1, <5>2 DEF KeysIn
      <4>2. ASSUME NEW x \in KeysIn(old), x # id PROVE x \in KeysIn(keys)
        <5>1. PICK a \in 1..Len(old) : x = old[a]
          BY DEF KeysIn
        <5>2. a # at
          BY <3>1, <4>2, <5>1
        <5>3. CASE a < at
          <6>1. a \in 1..Len(keys) /\ keys[a] = x
            BY <1>2, <3>1, <3>3, <5>1, <5>3
          <6>2. QED
            BY <6>1 DEF KeysIn
        <5>4. CASE a > at
          <6>1. a - 1 \in 1..Len(keys) /\ ~(a - 1 < at) /\ (a - 1) + 1 = a
            BY <1>2, <3>1, <3>3, <5>4
          <6>2. keys[a - 1] = x
            BY <3>3, <5>1, <6>1
          <6>3. QED
            BY <6>1, <6>2 DEF KeysIn
        <5>5. QED
          BY <3>1, <5>2, <5>3, <5>4
      <4>3. QED
        BY <4>1, <4>2
    <3>7. KeysIn(keys) = {i \in Ids : entries[i] # None}
      BY <1>2, <1>3, <3>6
    <3>8. Len(keys) <= CacheSize
      BY <1>2, <3>3
    <3>9. QED
      BY <3>3, <3>5, <3>7, <3>8 DEF InOrder
  <2>3. QED
    BY <2>1, <2>2
<1> HIDE DEF keys
<1>5. keys \in Seq(Ids)
  BY <1>4 DEF InOrder
<1>6. QED
  BY <1>1, <1>4, <1>5 DEF CachesInOrder, Types

\* What a step does to the caches.
LEMMA StepOnCaches ==
  ASSUME Inv, [Next]_vars
  PROVE  \/ UNCHANGED <<cache, order>>
         \/ \E m \in Managers, id \in Ids, row \in Rows : CachePut(m, id, row)
         \/ \E m \in Managers, id \in Ids : CacheRemove(m, id)
         \/ \E m \in Managers : Restart(m)
<1>1. ASSUME NEW m \in Managers, Confirm(m) \/ Read(m) \/ RefreshUpdated(m)
      PROVE  \E id \in Ids, row \in Rows : CachePut(m, id, row)
  <2>1. /\ rows[call[m].id] # None /\ CachePut(m, call[m].id, rows[call[m].id])
        /\ \/ call[m].step \in {"confirm", "refresh"}
           \/ call[m].op = "retrieve" /\ call[m].step = "access"
    BY <1>1 DEF Confirm, Read, RefreshUpdated, At
  <2>2. call[m].id \in Ids
    BY <2>1 DEF Inv, CallsSound
  <2>3. rows[call[m].id] \in Rows
    BY <2>1, <2>2 DEF Inv, Types
  <2>4. QED
    BY <2>1, <2>2, <2>3
<1>2. ASSUME NEW m \in Managers, CommitDelete(m) PROVE \E id \in Ids : CacheRemove(m, id)
  <2>1. call[m].id \in Ids /\ CacheRemove(m, call[m].id)
    BY <1>2 DEF CommitDelete, At, Inv, CallsSound
  <2>2. QED
    BY <2>1
<1>3. ASSUME NEW m \in Managers,
             \/ BeginSave(m) \/ BeginRetrieve(m) \/ BeginUpdate(m) \/ BeginDelete(m)
             \/ Insert(m) \/ Conflict(m) \/ RefreshSaved(m) \/ ConfirmFails(m) \/ Fetch(m)
             \/ NotFound(m) \/ CommitUpdate(m) \/ Fail(m)
      PROVE  UNCHANGED <<cache, order>>
  BY <1>3 DEF BeginSave, BeginRetrieve, BeginUpdate, BeginDelete, Insert, Conflict, RefreshSaved,
              ConfirmFails, Fetch, NotFound, CommitUpdate, Fail
<1>4. CASE UNCHANGED vars
  BY <1>4 DEF vars
<1>5. QED
  BY <1>1, <1>2, <1>3, <1>4 DEF Next, Step

\* The caches stay in order through every step.
LEMMA CachesStayInOrder == Spec => [](Inv /\ CachesInOrder)
<1>1. Init => Inv /\ CachesInOrder
  <2> SUFFICES ASSUME Init PROVE CachesInOrder
    BY InitInv
  <2>1. /\ order = [m \in Managers |-> <<>>]
        /\ \A m \in Managers, id \in Ids : cache[m][id] = None
    BY DEF Init
  <2>2. <<>> \in Seq(Ids) /\ Len(<<>>) <= CacheSize /\ KeysIn(<<>>) = {}
    BY CacheSizeAssumption DEF KeysIn
  <2>3. QED
    BY <2>1, <2>2 DEF CachesInOrder, InOrder
<1>2. Inv /\ CachesInOrder /\ [Next]_vars => Inv' /\ CachesInOrder'
  <2> SUFFICES ASSUME Inv, CachesInOrder, [Next]_vars PROVE CachesInOrder'
    BY NextInv
  <2>1. CASE UNCHANGED <<cache, order>>
    BY <2>1 DEF CachesInOrder
  <2>2. CASE \E m \in Managers, id \in Ids, row \in Rows : CachePut(m, id, row)
    BY <2>2, PutInOrder DEF Inv
  <2>3. CASE \E m \in Managers, id \in Ids : CacheRemove(m, id)
    BY <2>3, RemoveInOrder DEF Inv
  <2>4. ASSUME NEW m \in Managers, Restart(m) PROVE CachesInOrder'
    <3>1. /\ cache' = [cache EXCEPT ![m] = [id \in Ids |-> None]]
          /\ order' = [order EXCEPT ![m] = <<>>]
      BY <2>4 DEF Restart
    <3>2. <<>> \in Seq(Ids) /\ Len(<<>>) <= CacheSize /\ KeysIn(<<>>) = {}
      BY CacheSizeAssumption DEF KeysIn
    <3>3. InOrder(<<>>, [id \in Ids |-> None])
      BY <3>2 DEF InOrder
    <3>4. QED
      BY <3>1, <3>2, <3>3 DEF CachesInOrder, Inv, Types
  <2>5. QED
    BY <2>1, <2>2, <2>3, <2>4, StepOnCaches
<1>3. QED
  BY <1>1, <1>2, PTL DEF Spec

\* The variables keep their types: the order of a cache is a list of ids.
THEOREM TypeCorrect == Spec => []TypeOK
<1>1. Inv /\ CachesInOrder => TypeOK
  BY DEF Inv, Types, CachesInOrder, TypeOK
<1>2. QED
  BY <1>1, CachesStayInOrder, PTL

\* However calls of several managers interleave, fail and restart, every cache
\* holds at most cache_size entries, and its order names exactly those.
THEOREM CacheAlwaysBounded == Spec => []CacheBounded
<1>1. CachesInOrder => CacheBounded
  BY DEF CachesInOrder, InOrder, CacheBounded
<1>2. QED
  BY <1>1, CachesStayInOrder, PTL

-----------------------------------------------------------------------------
(* The two backends.                                                       *)

\* A memory has a caller's dictionary or its own, which no other memory has.
OwnDictionaries ==
  \A id \in MemoryIds : store[id] # NoMemory => store[id].metadata \in Dicts \cup {id}

BackendsInv == StoresTypeOK /\ OwnDictionaries /\ BackendsAgree

\* What the backends hold under one id.
Agree(id) == InMemory(id) = table[id]

\* An id whose entries and whose dictionary a call leaves alone.
LEMMA Untouched ==
  ASSUME NEW id \in MemoryIds, Agree(id), store'[id] = store[id], table'[id] = table[id],
         store[id] # NoMemory => heap'[store[id].metadata] = heap[store[id].metadata]
  PROVE  Agree(id)'
BY DEF Agree, InMemory

\* json.dumps and json.loads make keys of keys, or refuse.
LEMMA ReadBackKeys ==
  ASSUME NEW keys \in SUBSET Keys, Serializable(keys) PROVE ReadBack(keys) \in SUBSET Keys
BY ConversionAssumption DEF Serializable, ReadBack

\* Entries that are read back as they were are read back all.
LEMMA FaithfulReadBack ==
  ASSUME NEW keys \in SUBSET Keys, \A k \in keys : Json[k] = k
  PROVE  ReadBack(keys) = keys /\ Serializable(keys)
BY NoMemoryAssumption DEF Serializable, ReadBack

\* What the in-memory backend holds under an id is of the form of a row.
LEMMA InMemoryIsEntry ==
  ASSUME StoresTypeOK, NEW id \in MemoryIds, store[id] # NoMemory PROVE InMemory(id) \in Entries
<1>1. store[id].content \in Texts /\ heap[store[id].metadata] \in SUBSET Keys
  BY DEF StoresTypeOK, Memories
<1>2. QED
  BY <1>1 DEF InMemory, Entries

\* An id that is not noted is there in both backends or in none.
LEMMA SamePresence ==
  ASSUME BackendsInv, NEW id \in MemoryIds, id \notin parted
  PROVE  Found(store[id]) = Found(table[id])
<1>1. InMemory(id) = table[id] /\ table[id] \in Entries \cup {NoMemory}
  BY DEF BackendsInv, StoresTypeOK, BackendsAgree, SameUntilParted
<1>2. store[id] # NoMemory => InMemory(id) # NoMemory
  BY InMemoryIsEntry, NoMemoryAssumption DEF BackendsInv
<1>3. QED
  BY <1>1, <1>2 DEF InMemory, Found

\* After a save that both backends have carried out, of a memory that the row
\* gives back as it was, they hold the same; otherwise the id is noted.
LEMMA SaveKeeps ==
  ASSUME BackendsInv, NEW id \in MemoryIds, NEW content \in Texts, NEW d \in Dicts,
         Save(id, content, d)
  PROVE  BackendsInv'
<1> DEFINE object == ObjectFor(id, d)
           memory == [content |-> content, metadata |-> object]
           row == Row(content, heap[d])
           stored == Serializable(heap[d]) /\ table[id] = NoMemory
<1>1. /\ heap \in [Objects -> SUBSET Keys] /\ d \in Objects /\ id \in Objects /\ object \in {id, d}
      /\ store \in [MemoryIds -> Memories \cup {NoMemory}]
      /\ table \in [MemoryIds -> Entries \cup {NoMemory}]
  BY DEF BackendsInv, StoresTypeOK, Objects, ObjectFor
<1>2. /\ memory \in Memories
      /\ stored => row \in Entries
      /\ row.content = Str[content] /\ row.keys = ReadBack(heap[d])
      /\ row = [content |-> row.content, keys |-> row.keys]
  <2>1. Serializable(heap[d]) => ReadBack(heap[d]) \in SUBSET Keys
    BY <1>1, ReadBackKeys
  <2>2. Str[content] \in Texts
    BY ConversionAssumption
  <2>3. QED
    BY <1>1, <2>1, <2>2 DEF Memories, Entries, Row
<1>3. /\ store' = [store EXCEPT ![id] = memory]
      /\ heap' = IF object = id THEN [heap EXCEPT ![id] = {}] ELSE heap
      /\ table' = IF stored THEN [table EXCEPT ![id] = row] ELSE table
      /\ answer'.id = id /\ (answer'.inMemory = answer'.sql => stored)
      /\ parted' = IF stored /\ Faithful(content, heap[d]) THEN parted \ {id} ELSE parted \cup {id}
  BY DEF Save
<1>4. object = id => heap[d] = {}
  BY ObjectsAssumption DEF ObjectFor
<1>5. memory.metadata = object /\ memory.content = content /\ memory # NoMemory
  BY <1>2, NoMemoryAssumption
<1>6. Faithful(content, heap[d]) => row.content = content /\ row.keys = heap[d]
  BY <1>1, <1>2, NoMemoryAssumption, FaithfulReadBack DEF Faithful
<1> HIDE DEF object, memory, row, stored
<1>7. StoresTypeOK'
  BY <1>1, <1>2, <1>3 DEF BackendsInv, StoresTypeOK
<1>8. OwnDictionaries'
  <2> SUFFICES ASSUME NEW x \in MemoryIds, store'[x] # NoMemory
               PROVE  store'[x].metadata \in Dicts \cup {x}
    BY DEF OwnDictionaries
  <2>1. CASE x = id
    BY <1>1, <1>3, <1>5, <2>1
  <2>2. CASE x # id
    BY <1>1, <1>3, <2>2 DEF BackendsInv, OwnDictionaries
  <2>3. QED
    BY <2>1, <2>2
<1>9. ASSUME NEW x \in MemoryIds, x \notin parted' PROVE Agree(x)'
  <2>1. CASE x = id
    <3>1. stored /\ Faithful(content, heap[d])
      BY <1>3, <1>9, <2>1
    <3>2. store'[id] = memory /\ table'[id] = row
      BY <1>1, <1>3, <3>1
    <3>3. heap'[object] = heap[d]
      BY <1>1, <1>3, <1>4
    <3>4. [content |-> memory.content, keys |-> heap'[memory.metadata]] = row
      BY <1>2, <1>5, <1>6, <3>1, <3>3
    <3>5. QED
      BY <1>5, <2>1, <3>2, <3>4 DEF Agree, InMemory
  <2>2. CASE x # id
    <3>1. Agree(x)
      BY <1>3, <1>9, <2>2 DEF BackendsInv, BackendsAgree, SameUntilParted, Agree
    <3>2. store'[x] = store[x] /\ table'[x] = table[x]
      BY <1>1, <1>3, <2>2
    <3>3. ASSUME store[x] # NoMemory
          PROVE  heap'[store[x].metadata] = heap[store[x].metadata]
      <4>1. store[x].metadata \in Dicts \cup {x}
        BY <3>3 DEF BackendsInv, OwnDictionaries
      <4>2. store[x].metadata # id /\ store[x].metadata \in Objects
        BY <2>2, <4>1, ObjectsAssumption DEF Objects
      <4>3. QED
        BY <1>1, <1>3, <4>2
    <3>4. QED
      BY <3>1, <3>2, <3>3, Untouched
  <2>3. QED
    BY <2>1, <2>2
<1>10. SameUntilParted'
  BY <1>9 DEF SameUntilParted, Agree
<1>11. SameAnswers'
  <2>1. CASE stored
    BY <1>3, <2>1 DEF SameAnswers, Save, stored
  <2>2. CASE ~stored
    BY <1>3, <2>2 DEF SameAnswers
  <2>3. QED
    BY <2>1, <2>2
<1>12. QED
  BY <1>7, <1>8, <1>10, <1>11 DEF BackendsInv, BackendsAgree

\* Both merge the keys, the in-memory one in a dictionary that other memories
\* may have too; those are noted, and so is an id that is given what the row
\* does not give back as it was.
LEMMA UpdateKeeps ==
  ASSUME BackendsInv, NEW id \in MemoryIds, NEW content \in Texts \cup {NoMemory},
         NEW keys \in SUBSET Keys, Update(id, content, keys)
  PROVE  BackendsInv'
<1> DEFINE there == store[id] # NoMemory
           object == store[id].metadata
           memory == [content |-> IF content = NoMemory THEN store[id].content ELSE content,
                      metadata |-> object]
           row == Rewritten(table[id], content, keys)
           written == table[id] # NoMemory /\ Serializable(keys)
<1>1. /\ heap \in [Objects -> SUBSET Keys]
      /\ store \in [MemoryIds -> Memories \cup {NoMemory}]
      /\ table \in [MemoryIds -> Entries \cup {NoMemory}]
      /\ parted \subseteq MemoryIds
      /\ there => store[id] \in Memories
      /\ written => table[id] \in Entries
  BY DEF BackendsInv, StoresTypeOK
<1>2. /\ there => object \in Objects /\ memory \in Memories
      /\ written => row \in Entries
      /\ row.content = IF content = NoMemory THEN table[id].content ELSE Str[content]
      /\ row.keys = table[id].keys \cup ReadBack(keys)
      /\ row = [content |-> row.content, keys |-> row.keys]
  <2>1. Serializable(keys) => ReadBack(keys) \in SUBSET Keys
    BY ReadBackKeys
  <2>2. content # NoMemory => Str[content] \in Texts
    BY ConversionAssumption
  <2>3. QED
    BY <1>1, <2>1, <2>2, NoMemoryAssumption DEF Memories, Entries, Rewritten, MergedKeys
<1>3. /\ store' = IF there THEN [store EXCEPT ![id] = memory] ELSE store
      /\ heap' = IF there THEN [heap EXCEPT ![object] = heap[object] \cup keys] ELSE heap
      /\ table' = IF written THEN [table EXCEPT ![id] = row] ELSE table
      /\ parted' = parted \cup (IF there THEN Sharing(object) \ {id} ELSE {})
                          \cup (IF Faithful(content, keys) THEN {} ELSE {id})
  <2>1. store' = IF there THEN [store EXCEPT ![id] = memory] ELSE store
    <3>1. CASE content = NoMemory /\ there
      <4>1. memory = store[id]
        BY <1>1, <3>1 DEF Memories
      <4>2. store' = store /\ store = [store EXCEPT ![id] = store[id]]
        BY <1>1, <3>1 DEF Update
      <4>3. QED
        BY <3>1, <4>1, <4>2
    <3>2. CASE content # NoMemory /\ there
      <4>1. memory = [store[id] EXCEPT !.content = content]
        BY <1>1, <3>2 DEF Memories
      <4>2. store' = [store EXCEPT ![id] = [store[id] EXCEPT !.content = content]]
        BY <1>1, <3>2 DEF Update
      <4>3. QED
        BY <3>2, <4>1, <4>2
    <3>3. CASE ~there
      BY <3>3 DEF Update
    <3>4. QED
      BY <3>1, <3>2, <3>3
  <2>2. table' = IF written THEN [table EXCEPT ![id] = row] ELSE table
    BY <1>1 DEF Update, Found
  <2>3. QED
    BY <1>1, <1>2, <2>1, <2>2 DEF Update
<1>4. /\ there => memory # NoMemory
      /\ memory.metadata = object
      /\ memory.content = (IF content = NoMemory THEN store[id].content ELSE content)
  BY <1>2, NoMemoryAssumption
<1>5. Faithful(content, keys) => /\ content # NoMemory => Str[content] = content
                                 /\ ReadBack(keys) = keys
                                 /\ Serializable(keys)
  BY FaithfulReadBack DEF Faithful
<1>6. StoresTypeOK'
  <2>1. heap' \in [Objects -> SUBSET Keys]
    BY <1>1, <1>2, <1>3
  <2>2. parted' \subseteq MemoryIds
    BY <1>1, <1>3 DEF Sharing
  <2>3. store' \in [MemoryIds -> Memories \cup {NoMemory}]
    BY <1>1, <1>2, <1>3
  <2>4. table' \in [MemoryIds -> Entries \cup {NoMemory}]
    BY <1>1, <1>2, <1>3
  <2>5. QED
    BY <2>1, <2>2, <2>3, <2>4 DEF StoresTypeOK
<1>7. OwnDictionaries'
  <2> SUFFICES ASSUME NEW x \in MemoryIds, store'[x] # NoMemory
               PROVE  store'[x].metadata \in Dicts \cup {x}
    BY DEF OwnDictionaries
  <2>1. store[x] # NoMemory /\ store'[x].metadata = store[x].metadata
    BY <1>1, <1>3, <1>4
  <2>2. QED
    BY <2>1 DEF BackendsInv, OwnDictionaries
<1> HIDE DEF memory, row, written
<1>8. ASSUME NEW x \in MemoryIds, x \notin parted' PROVE Agree(x)'
  <2>1. Agree(x)
    BY <1>3, <1>8 DEF BackendsInv, BackendsAgree, SameUntilParted, Agree
  <2>2. CASE x = id /\ there
    <3>1. /\ table[id] # NoMemory
          /\ store[id].content = table[id].content /\ heap[object] = table[id].keys
      <4>1. InMemory(id) = table[id]
        BY <2>1, <2>2 DEF Agree
      <4>2. table[id] # NoMemory
        BY <2>2, <4>1, InMemoryIsEntry, NoMemoryAssumption DEF BackendsInv
      <4>3. [content |-> store[id].content, keys |-> heap[object]] = table[id]
        BY <2>2, <4>1 DEF InMemory
      <4>4. QED
        BY <4>2, <4>3
    <3>2. Faithful(content, keys)
      BY <1>3, <1>8, <2>2
    <3>3. store'[id] = memory /\ table'[id] = row
      BY <1>1, <1>3, <1>5, <2>2, <3>1, <3>2 DEF written
    <3>4. heap'[object] = heap[object] \cup keys
      BY <1>1, <1>2, <1>3, <2>2
    <3> HIDE DEF object
    <3>5. memory.content = row.content /\ heap'[memory.metadata] = row.keys
      BY <1>2, <1>4, <1>5, <3>1, <3>2, <3>4
    <3>6. [content |-> memory.content, keys |-> heap'[memory.metadata]] = row
      BY <1>2, <3>5
    <3>7. QED
      BY <1>4, <2>2, <3>3, <3>6 DEF Agree, InMemory
  <2>3. CASE x = id /\ ~there
    <3>1. table[id] = NoMemory
      BY <2>1, <2>3 DEF Agree, InMemory
    <3>2. store'[id] = NoMemory /\ table'[id] = NoMemory
      BY <1>3, <2>3, <3>1 DEF written
    <3>3. QED
      BY <2>3, <3>2 DEF Agree, InMemory
  <2>4. CASE x # id
    <3>1. store'[x] = store[x] /\ table'[x] = table[x]
      BY <1>1, <1>3, <2>4
    <3>2. ASSUME store[x] # NoMemory
          PROVE  heap'[store[x].metadata] = heap[store[x].metadata]
      <4>1. there => store[x].metadata # object
        BY <1>3, <1>8, <2>4, <3>2 DEF Sharing
      <4>2. QED
        BY <1>1, <1>3, <4>1
    <3>3. QED
      BY <2>1, <3>1, <3>2, Untouched
  <2>5. QED
    BY <2>2, <2>3, <2>4
<1>9. SameUntilParted'
  BY <1>8 DEF SameUntilParted, Agree
<1>10. SameAnswers'
  <2>1. /\ answer'.id = id /\ answer'.inMemory = Found(store[id])
        /\ Serializable(keys) \/ table[id] = NoMemory => answer'.sql = Found(table[id])
    BY DEF Update
  <2>2. CASE id \in parted \/ ~Faithful(content, keys)
    BY <1>3, <2>1, <2>2 DEF SameAnswers
  <2>3. CASE id \notin parted /\ Faithful(content, keys)
    <3>1. Found(store[id]) = Found(table[id])
      BY <2>3, SamePresence
    <3>2. QED
      BY <1>5, <2>1, <2>3, <3>1 DEF SameAnswers
  <2>4. QED
    BY <2>2, <2>3
<1>11. QED
  BY <1>6, <1>7, <1>9, <1>10 DEF BackendsInv, BackendsAgree

\* Both forget the memory.
LEMMA DeleteKeeps ==
  ASSUME BackendsInv, NEW id \in MemoryIds, Delete(id) PROVE BackendsInv'
<1>1. /\ store' = [store EXCEPT ![id] = NoMemory] /\ table' = [table EXCEPT ![id] = NoMemory]
      /\ heap' = heap
      /\ answer'.id = id /\ answer'.inMemory = Found(store[id]) /\ answer'.sql = Found(table[id])
      /\ parted' = IF Found(store[id]) = Found(table[id]) THEN parted \ {id} ELSE parted
  BY DEF Delete
<1>2. StoresTypeOK' /\ OwnDictionaries'
  BY <1>1 DEF BackendsInv, StoresTypeOK, OwnDictionaries
<1>3. ASSUME NEW x \in MemoryIds, x \notin parted' PROVE Agree(x)'
  <2>1. CASE x = id
    BY <1>1, <2>1 DEF BackendsInv, StoresTypeOK, Agree, InMemory
  <2>2. CASE x # id
    <3>1. Agree(x)
      BY <1>1, <1>3, <2>2 DEF BackendsInv, BackendsAgree, SameUntilParted, Agree
    <3>2. QED
      BY <1>1, <2>2, <3>1, Untouched DEF BackendsInv, StoresTypeOK
  <2>3. QED
    BY <2>1, <2>2
<1>4. SameUntilParted'
  BY <1>3 DEF SameUntilParted, Agree
<1>5. SameAnswers'
  BY <1>1, SamePresence DEF SameAnswers
<1>6. QED
  BY <1>2, <1>4, <1>5 DEF BackendsInv, BackendsAgree

\* An id that is not noted is there in both backends or in none.
LEMMA RetrieveKeeps ==
  ASSUME BackendsInv, NEW id \in MemoryIds, Retrieve(id) PROVE BackendsInv'
<1>1. /\ UNCHANGED <<heap, store, table, parted>>
      /\ answer'.id = id /\ answer'.inMemory = Found(store[id]) /\ answer'.sql = Found(table[id])
  BY DEF Retrieve
<1>2. StoresTypeOK' /\ OwnDictionaries' /\ SameUntilParted'
  BY <1>1 DEF BackendsInv, StoresTypeOK, OwnDictionaries, BackendsAgree, SameUntilParted, InMemory
<1>3. SameAnswers'
  BY <1>1, SamePresence DEF SameAnswers
<1>4. QED
  BY <1>2, <1>3 DEF BackendsInv, BackendsAgree

\* A caller reaches the memories that have the dictionary; they are noted.
LEMMA WriteKeeps ==
  ASSUME BackendsInv, NEW object \in Objects, NEW key \in Keys, Write(object, key)
  PROVE  BackendsInv'
<1>1. /\ heap' = [heap EXCEPT ![object] = @ \cup {key}] /\ parted' = parted \cup Sharing(object)
      /\ UNCHANGED <<store, table, answer>>
  BY DEF Write
<1>2. StoresTypeOK' /\ OwnDictionaries'
  BY <1>1 DEF BackendsInv, StoresTypeOK, OwnDictionaries, Sharing
<1>3. ASSUME NEW x \in MemoryIds, x \notin parted' PROVE Agree(x)'
  <2>1. Agree(x)
    BY <1>1, <1>3 DEF BackendsInv, BackendsAgree, SameUntilParted, Agree
  <2>2. store[x] # NoMemory => store[x].metadata # object
    BY <1>1, <1>3 DEF Sharing
  <2>3. QED
    BY <1>1, <2>1, <2>2, Untouched DEF BackendsInv, StoresTypeOK
<1>4. SameUntilParted'
  BY <1>3 DEF SameUntilParted, Agree
<1>5. SameAnswers'
  BY <1>1 DEF BackendsInv, BackendsAgree, SameAnswers
<1>6. QED
  BY <1>2, <1>4, <1>5 DEF BackendsInv, BackendsAgree

\* The in-memory backend stands in for the table: for whatever conversions, they
\* hold the same memory under an id, or both none, and give the same answers,
\* until the id is saved twice, is given what str or JSON changes or refuses, or
\* another hand changes its dictionary.
THEOREM BackendsAlwaysAgree == StoresSpec => []BackendsAgree
<1>1. StoresInit => BackendsInv
  BY DEF StoresInit, BackendsInv, StoresTypeOK, OwnDictionaries, BackendsAgree, SameAnswers,
         SameUntilParted, InMemory
<1>2. BackendsInv /\ [StoresNext]_backends => BackendsInv'
  <2> SUFFICES ASSUME BackendsInv, [StoresNext]_backends PROVE BackendsInv'
    OBVIOUS
  <2>1. CASE UNCHANGED backends
    BY <2>1 DEF backends, BackendsInv, StoresTypeOK, OwnDictionaries, BackendsAgree, SameAnswers,
                SameUntilParted, InMemory
  <2>2. QED
    BY <2>1, SaveKeeps, UpdateKeeps, DeleteKeeps, RetrieveKeeps, WriteKeeps DEF StoresNext
<1>3. BackendsInv => BackendsAgree
  BY DEF BackendsInv
<1>4. QED
  BY <1>1, <1>2, <1>3, PTL DEF StoresSpec
=============================================================================
