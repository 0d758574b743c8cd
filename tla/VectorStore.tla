----------------------------- MODULE VectorStore -----------------------------
(***************************************************************************)
(* day_53/vector_store.py: VectorStore objects, each with a Chroma client  *)
(* of its own, over one persist_directory and one collection name.         *)
(* _collections keeps the handle of the collection from its first use and  *)
(* never looks again; a handle names one creation of the collection, so it *)
(* is of no use once that one is deleted, whoever deletes it and whether   *)
(* or not the collection is created again.                                 *)
(*                                                                         *)
(* A document is its text; an embedding belongs to its text, and metadata  *)
(* and filters are left out.  An operation that fails (VectorStoreError,   *)
(* CollectionNotFoundError, DocumentNotFoundError) changes nothing.        *)
(***************************************************************************)
EXTENDS Naturals, FiniteSets

CONSTANTS Stores,         \* VectorStore objects
          DocIds, Texts,
          None,           \* no document
          MaxCollections  \* bound: creations of the collection

VARIABLES live,     \* the number of the creation that exists, 0 if none does
          made,     \* creations so far
          docs,     \* documents of the collection: id -> text, or None
          handle,   \* store -> _collections[name]: a creation, 0 if not there
          bereft    \* history: stores whose collection another store deleted

store == <<live, made, docs, handle, bereft>>

Empty == [d \in DocIds |-> None]

VectorTypeOK == /\ made \in 0..MaxCollections /\ live \in {0, made}
                /\ docs \in [DocIds -> Texts \cup {None}]
                /\ live = 0 => docs = Empty
                /\ handle \in [Stores -> 0..made]
                /\ bereft \subseteq Stores

VectorInit == /\ live = 0 /\ made = 0
              /\ docs = Empty
              /\ handle = [s \in Stores |-> 0]
              /\ bereft = {}

-----------------------------------------------------------------------------
(* Chroma, as the code uses it.                                            *)

\* add: ids that are there keep their documents, without an error.
ChromaAdded(items) ==
  [d \in DocIds |-> IF docs[d] = None /\ d \in DOMAIN items THEN items[d] ELSE docs[d]]

\* update: ids that are not there are passed over.
ChromaUpdated(d, text) == IF docs[d] = None THEN docs ELSE [docs EXCEPT ![d] = text]

-----------------------------------------------------------------------------
(* Collections.                                                            *)

CreateCollection(s) ==
  /\ live = 0 /\ made < MaxCollections
  /\ made' = made + 1 /\ live' = made + 1
  /\ handle' = [handle EXCEPT ![s] = made + 1]
  /\ bereft' = bereft \ {s}
  /\ UNCHANGED docs

\* What get_collection returns: the handle it has, else a new one; 0 stands for
\* CollectionNotFoundError.
Handle(s) == IF handle[s] # 0 THEN handle[s] ELSE live

Works(s) == live # 0 /\ Handle(s) = live

GetCollection(s) ==
  /\ handle[s] = 0 /\ live # 0
  /\ handle' = [handle EXCEPT ![s] = live]
  /\ UNCHANGED <<live, made, docs, bereft>>

\* delete_collection goes by the name, whatever the handle.
DeleteCollection(s) ==
  /\ live # 0
  /\ live' = 0 /\ docs' = Empty
  /\ handle' = [handle EXCEPT ![s] = 0]
  /\ bereft' = (bereft \cup {t \in Stores : handle[t] = live}) \ {s}
  /\ UNCHANGED made

Close(s) ==
  /\ handle' = [handle EXCEPT ![s] = 0]
  /\ bereft' = bereft \ {s}
  /\ UNCHANGED <<live, made, docs>>

-----------------------------------------------------------------------------
(* Documents.                                                              *)

\* The collection is looked up, and then holds these documents.
Through(s, contents) ==
  /\ Works(s)
  /\ docs' = contents
  /\ handle' = [handle EXCEPT ![s] = live]
  /\ UNCHANGED <<live, made, bereft>>

\* add_document, and add_documents: all of them or, when an embedding is
\* missing or an id is given twice, none.
AddDocuments(s, items) == Through(s, ChromaAdded(items))

UpdateDocument(s, d, text) == Through(s, ChromaUpdated(d, text))

DeleteDocument(s, d) == Through(s, [docs EXCEPT ![d] = None])

Batches == UNION {[D -> Texts] : D \in {B \in SUBSET DocIds : Cardinality(B) \in 1..2}}

StoreStep(s) == \/ CreateCollection(s) \/ GetCollection(s) \/ DeleteCollection(s) \/ Close(s)
                \/ \E items \in Batches : AddDocuments(s, items)
                \/ \E d \in DocIds, text \in Texts : UpdateDocument(s, d, text)
                \/ \E d \in DocIds : DeleteDocument(s, d)

-----------------------------------------------------------------------------
\* A store fails on a collection of which it has a handle only after another
\* store deleted that collection: what it does itself never leaves it with a
\* handle that is of no use.
StaleHandleOnlyByOthers ==
  \A s \in Stores : handle[s] \notin {0, live} => s \in bereft

=============================================================================
