---------------------------- MODULE MemoryStorage ---------------------------
(***************************************************************************)
(* The two backends of MemoryStorageInterface, given the same calls:       *)
(* InMemoryStorage of day_48/memory_storage.py and SQLStorage of           *)
(* day_48/sql_store.py.  The first keeps the content as it is and the      *)
(* caller's metadata dictionary (unless it is empty), and hands out its    *)
(* own objects; the second keeps str(content) and the JSON text of the     *)
(* metadata in a row.  A dictionary is the set of its entries, a key with  *)
(* its value; the callers use a key with one value.  Errors of SQLite are  *)
(* PersistenceManager's subject.                                           *)
(***************************************************************************)
EXTENDS Naturals

CONSTANTS MemoryIds,
          Texts,     \* contents: strings, and anything else a caller passes
          Str,       \* content -> str(content)
          Keys,      \* entries of the metadata dictionaries
          Json,      \* entry -> the entry json.loads reads back, or NoMemory
                     \* if json.dumps raises TypeError
          Dicts,     \* dictionaries of the callers
          NoMemory   \* no memory; in an update, no new content

\* A memory that was saved without metadata has a dictionary of its own.
Objects == Dicts \cup MemoryIds

ASSUME ObjectsAssumption == Dicts \cap MemoryIds = {}
ASSUME ConversionAssumption == Str \in [Texts -> Texts] /\ Json \in [Keys -> Keys \cup {NoMemory}]

Memories == [content : Texts, metadata : Objects]
Entries == [content : Texts, keys : SUBSET Keys]

ASSUME NoMemoryAssumption == NoMemory \notin Texts \cup Keys \cup Memories \cup Entries

VARIABLES heap,     \* dictionary -> keys
          store,    \* InMemoryStorage._store: id -> [content, metadata], or NoMemory
          table,    \* SQLStorage's table: id -> [content, keys], or NoMemory
          answer,   \* of the last call: its id, and what the two backends said
          parted    \* history: ids whose memories may have become different

backends == <<heap, store, table, answer, parted>>

StoresInit == /\ heap = [o \in Objects |-> {}]
              /\ store = [id \in MemoryIds |-> NoMemory] /\ table = store
              /\ answer = [id |-> NoMemory, inMemory |-> "ok", sql |-> "ok"] /\ parted = {}

Sharing(object) == {id \in MemoryIds : store[id] # NoMemory /\ store[id].metadata = object}

Serializable(keys) == \A k \in keys : Json[k] # NoMemory
ReadBack(keys) == {Json[k] : k \in keys}

\* A content or an update's lack of one, and metadata, that a row gives back as
\* they were.
Faithful(content, keys) == /\ content # NoMemory => Str[content] = content
                           /\ \A k \in keys : Json[k] = k

\* MemoryRow(content=str(content), metadata_json=json.dumps(metadata or {})).
Row(content, keys) == [content |-> Str[content], keys |-> ReadBack(keys)]

\* The dictionary of a new memory: metadata or {}.
ObjectFor(id, d) == IF heap[d] = {} THEN id ELSE d

\* save: json.dumps may raise before the table is touched; SQLStorage refuses
\* an id that is taken, InMemoryStorage replaces its memory.
Save(id, content, d) ==
  LET object == ObjectFor(id, d)
      sql == IF ~Serializable(heap[d]) THEN "type_error"
             ELSE IF table[id] # NoMemory THEN "conflict" ELSE "ok"
  IN  /\ store' = [store EXCEPT ![id] = [content |-> content, metadata |-> object]]
      /\ heap' = IF object = id THEN [heap EXCEPT ![id] = {}] ELSE heap
      /\ table' = IF sql = "ok" THEN [table EXCEPT ![id] = Row(content, heap[d])] ELSE table
      /\ answer' = [id |-> id, inMemory |-> "ok", sql |-> sql]
      /\ parted' = IF sql = "ok" /\ Faithful(content, heap[d]) THEN parted \ {id}
                   ELSE parted \cup {id}

\* Seeded fault: the new metadata takes the place of the old.
MergedOver(old, new) == new

\* metadata.update.
MergedKeys(old, new) == old \cup new

Found(entry) == IF entry = NoMemory THEN "not_found" ELSE "ok"

\* The row after an update; content NoMemory leaves the content alone.
Rewritten(entry, content, keys) ==
  [content |-> IF content = NoMemory THEN entry.content ELSE Str[content],
   keys |-> MergedKeys(entry.keys, ReadBack(keys))]

\* update: json.dumps may raise before the commit, and the row stays as it is.
Update(id, content, keys) ==
  LET there == store[id] # NoMemory
      object == store[id].metadata
      sql == IF table[id] # NoMemory /\ ~Serializable(keys) THEN "type_error" ELSE Found(table[id])
  IN  /\ store' = IF there /\ content # NoMemory THEN [store EXCEPT ![id].content = content] ELSE store
      /\ heap' = IF there THEN [heap EXCEPT ![object] = @ \cup keys] ELSE heap
      /\ table' = IF sql = "ok" THEN [table EXCEPT ![id] = Rewritten(@, content, keys)] ELSE table
      /\ answer' = [id |-> id, inMemory |-> Found(store[id]), sql |-> sql]
      /\ parted' = parted \cup (IF there THEN Sharing(object) \ {id} ELSE {})
                          \cup (IF Faithful(content, keys) THEN {} ELSE {id})

\* delete.
Delete(id) ==
  /\ store' = [store EXCEPT ![id] = NoMemory]
  /\ table' = [table EXCEPT ![id] = NoMemory]
  /\ answer' = [id |-> id, inMemory |-> Found(store[id]), sql |-> Found(table[id])]
  /\ parted' = IF Found(store[id]) = Found(table[id]) THEN parted \ {id} ELSE parted
  /\ UNCHANGED heap

\* retrieve.
Retrieve(id) ==
  /\ answer' = [id |-> id, inMemory |-> Found(store[id]), sql |-> Found(table[id])]
  /\ UNCHANGED <<heap, store, table, parted>>

\* A caller changes a dictionary of his, or that of a memory he was handed.
Write(object, key) ==
  /\ heap' = [heap EXCEPT ![object] = @ \cup {key}]
  /\ parted' = parted \cup Sharing(object)
  /\ UNCHANGED <<store, table, answer>>

StoresNext ==
  \/ \E id \in MemoryIds, content \in Texts, d \in Dicts : Save(id, content, d)
  \/ \E id \in MemoryIds, content \in Texts \cup {NoMemory}, keys \in SUBSET Keys :
        Update(id, content, keys)
  \/ \E id \in MemoryIds : Delete(id) \/ Retrieve(id)
  \/ \E object \in Objects, key \in Keys : Write(object, key)

StoresSpec == StoresInit /\ [][StoresNext]_backends

-----------------------------------------------------------------------------
(* Properties.                                                             *)

InMemory(id) == IF store[id] = NoMemory THEN NoMemory
                ELSE [content |-> store[id].content, keys |-> heap[store[id].metadata]]

StoresTypeOK == /\ heap \in [Objects -> SUBSET Keys]
                /\ store \in [MemoryIds -> Memories \cup {NoMemory}]
                /\ table \in [MemoryIds -> Entries \cup {NoMemory}]
                /\ parted \subseteq MemoryIds

\* The backends hold the same memory under an id, or both none, until it is
\* saved while the table has it, is given a content that is no string or
\* metadata that JSON changes or refuses, or its dictionary is written to by a
\* caller or through another memory that shares it.
SameUntilParted == \A id \in MemoryIds \ parted : InMemory(id) = table[id]

\* Until then they also give the same answers: an error of one alone is of such
\* an id, and is a cause itself or the trace of one.
SameAnswers == answer.inMemory # answer.sql => answer.id \in parted

\* The backends of the interface stand in for each other, for an id to which
\* nothing has happened that is one of the causes named.
BackendsAgree == SameUntilParted /\ SameAnswers
=============================================================================
