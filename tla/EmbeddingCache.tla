--------------------------- MODULE EmbeddingCache ---------------------------
(***************************************************************************)
(* day_53: EmbeddingGenerator and its two-level EmbeddingCache             *)
(* (embedding_generator.py).  Each process has a generator with an LRU     *)
(* cache in memory; the JSON files under cache_dir are shared.  A call     *)
(* embeds a list of texts (generate is a list of one) in batches: it looks *)
(* each text of a batch up, asks the provider for the texts it missed, and *)
(* puts each answer into memory and into a file, which is truncated when   *)
(* it is opened and whole again only when the write is through.            *)
(*                                                                         *)
(* An embedding is the text it was made from, so that one under a wrong    *)
(* key or in a wrong place shows.  Texts are preprocessed ones, of one     *)
(* model; counters and timings are left out.                               *)
(***************************************************************************)
EXTENDS Naturals, Sequences, FiniteSets

CONSTANTS Processes,     \* processes that share cache_dir
          Inputs,        \* preprocessed texts
          Nothing,       \* no file, no embedding yet
          Torn,          \* a file whose JSON is cut short or garbled
          MaxCacheSize,  \* max_cache_size
          BatchSize,     \* batch_size
          MaxTexts       \* bound: texts of one call

ASSUME CacheAssumption == /\ Nothing \notin Inputs /\ Torn \notin Inputs \cup {Nothing}
                          /\ MaxCacheSize \in Nat /\ BatchSize \in Nat \ {0}

VARIABLES memory,   \* process -> _memory_cache, oldest first: <<key, embedding>>
          disk,     \* cache_dir: text -> what its file holds, Torn, or Nothing
          call,     \* process -> the call in progress
          linked,   \* processes whose open file is still the one in cache_dir
          damaged   \* history: texts whose file a crash, an error or two writers spoilt

caches == <<memory, disk, call, linked, damaged>>

Steps == {"idle", "get", "unlink", "provide", "put", "write"}

\* start: texts in finished batches; at: the place being looked up; missed: the
\* places of the batch still to be provided or put; results: what each text of
\* the call got, Nothing for a placeholder.
NoCall == [step |-> "idle", texts |-> <<>>, start |-> 0, at |-> 1, missed |-> {},
           results |-> <<>>]

CacheTypeOK ==
  /\ \A p \in Processes : \A i \in 1..Len(memory[p]) : memory[p][i] \in Inputs \X Inputs
  /\ disk \in [Inputs -> Inputs \cup {Nothing, Torn}]
  /\ \A p \in Processes :
       LET c == call[p] IN
       /\ c.step \in Steps
       /\ c.texts \in Seq(Inputs) /\ Len(c.texts) <= MaxTexts
       /\ c.start \in 0..Len(c.texts) /\ c.at \in 1..Len(c.texts) + 1
       /\ c.missed \subseteq c.start + 1..c.start + BatchSize
       /\ Len(c.results) = Len(c.texts)
  /\ linked \subseteq {p \in Processes : call[p].step = "write"}
  /\ damaged \subseteq Inputs

CacheInit ==
  /\ memory = [p \in Processes |-> <<>>]
  /\ disk = [t \in Inputs |-> Nothing]
  /\ call = [p \in Processes |-> NoCall]
  /\ linked = {} /\ damaged = {}

-----------------------------------------------------------------------------
(* The memory cache: an OrderedDict in order of use.                       *)

Keys(m) == {m[i][1] : i \in 1..Len(m)}
Where(m, t) == CHOOSE i \in 1..Len(m) : m[i][1] = t
Entry(m, t) == m[Where(m, t)]

\* pop and del take the entry out at its place.
Without(m, t) ==
  IF t \in Keys(m) THEN SubSeq(m, 1, Where(m, t) - 1) \o SubSeq(m, Where(m, t) + 1, Len(m))
  ELSE m

Added(m, t, e) ==
  LET all == Append(Without(m, t), <<t, e>>) IN
  IF Len(all) > MaxCacheSize THEN Tail(all) ELSE all

-----------------------------------------------------------------------------
(* A call.                                                                 *)

Begin(p) ==
  /\ call[p].step = "idle"
  /\ \E n \in 1..MaxTexts : \E ts \in [1..n -> Inputs] :
        call' = [call EXCEPT ![p] = [NoCall EXCEPT
                   !.step = "get", !.texts = ts,
                   !.results = [i \in 1..Len(ts) |-> Nothing]]]
  /\ UNCHANGED <<memory, disk, linked, damaged>>

At(p, step) == call[p].step = step
BatchEnd(c) == IF c.start + BatchSize < Len(c.texts) THEN c.start + BatchSize
                                                     ELSE Len(c.texts)
FirstOf(S) == CHOOSE i \in S : \A j \in S : i <= j

\* The place, and the text, that the call is at.
Place(p) == IF call[p].step \in {"get", "unlink"} THEN call[p].at
                                                 ELSE FirstOf(call[p].missed)
Text(p) == call[p].texts[Place(p)]

\* The next text of the batch is looked up; after the last the provider is
\* asked for the missing ones.
Advance(p, results, missed) ==
  [call[p] EXCEPT !.results = results, !.missed = missed, !.at = @ + 1,
                  !.step = IF call[p].at < BatchEnd(call[p]) THEN "get" ELSE "provide"]

Hit(p, e) == Advance(p, [call[p].results EXCEPT ![Place(p)] = e], call[p].missed)
Missed(p) == Advance(p, call[p].results, call[p].missed \cup {Place(p)})

\* cache.get of a text in memory makes it the most recently used.
GetFromMemory(p) ==
  /\ At(p, "get") /\ Text(p) \in Keys(memory[p])
  /\ LET e == Entry(memory[p], Text(p)) IN
     /\ memory' = [memory EXCEPT ![p] = Append(Without(@, e[1]), e)]
     /\ call' = [call EXCEPT ![p] = Hit(p, e[2])]
  /\ UNCHANGED <<disk, linked, damaged>>

GetFromDisk(p) ==
  /\ At(p, "get") /\ Text(p) \notin Keys(memory[p])
  /\ disk[Text(p)] \notin {Nothing, Torn}
  /\ memory' = [memory EXCEPT ![p] = Added(@, Text(p), disk[Text(p)])]
  /\ call' = [call EXCEPT ![p] = Hit(p, disk[Text(p)])]
  /\ UNCHANGED <<disk, linked, damaged>>

Miss(p) ==
  /\ At(p, "get") /\ Text(p) \notin Keys(memory[p])
  /\ disk[Text(p)] = Nothing
  /\ call' = [call EXCEPT ![p] = Missed(p)]
  /\ UNCHANGED <<memory, disk, linked, damaged>>

\* json.load fails on the file ...
GetTorn(p) ==
  /\ At(p, "get") /\ Text(p) \notin Keys(memory[p])
  /\ disk[Text(p)] = Torn
  /\ call' = [call EXCEPT ![p].step = "unlink"]
  /\ UNCHANGED <<memory, disk, linked, damaged>>

\* ... and the file of that name is removed, which may be whole by now, or
\* still be written: the writer then writes into a file without a name.
Unlink(p) ==
  /\ At(p, "unlink")
  /\ disk' = [disk EXCEPT ![Text(p)] = Nothing]
  /\ linked' = {q \in linked : Text(q) # Text(p)}
  /\ damaged' = damaged \ {Text(p)}
  /\ call' = [call EXCEPT ![p] = Missed(p)]
  /\ UNCHANGED memory

\* The next batch, or the end of the call: its caller has the results.
NextBatch(c) == IF BatchEnd(c) = Len(c.texts) THEN NoCall
                ELSE [c EXCEPT !.start = BatchEnd(c), !.missed = {}, !.step = "get"]

AllCached(p) ==
  /\ At(p, "provide") /\ call[p].missed = {}
  /\ call' = [call EXCEPT ![p] = NextBatch(@)]
  /\ UNCHANGED <<memory, disk, linked, damaged>>

\* Seeded fault: the answers are filled in from the batch's first place on.
FilledFromStart(c) ==
  LET asked(n) == CHOOSE i \in c.missed : Cardinality({j \in c.missed : j <= i}) = n IN
  [i \in 1..Len(c.texts) |-> IF i - c.start \in 1..Cardinality(c.missed)
                             THEN c.texts[asked(i - c.start)] ELSE c.results[i]]

\* get_embeddings answers in the order of the texts it was given.
Filled(c) == [i \in 1..Len(c.texts) |-> IF i \in c.missed THEN c.texts[i] ELSE c.results[i]]

Provide(p) ==
  /\ At(p, "provide") /\ call[p].missed # {}
  /\ call' = [call EXCEPT ![p].results = Filled(call[p]), ![p].step = "put"]
  /\ UNCHANGED <<memory, disk, linked, damaged>>

\* An error of the provider loses the call, not what earlier batches cached.
ProviderFails(p) ==
  /\ At(p, "provide") /\ call[p].missed # {}
  /\ call' = [call EXCEPT ![p] = NoCall]
  /\ UNCHANGED <<memory, disk, linked, damaged>>

\* cache.put: into memory; then the file is opened, which truncates it.
Put(p) ==
  LET t == Text(p) IN
  /\ At(p, "put")
  /\ memory' = [memory EXCEPT ![p] = Added(@, t, call[p].results[Place(p)])]
  /\ disk' = [disk EXCEPT ![t] = Torn]
  /\ damaged' = IF \E q \in linked : Text(q) = t THEN damaged \cup {t} ELSE damaged \ {t}
  /\ linked' = linked \cup {p}
  /\ call' = [call EXCEPT ![p].step = "write"]

PutNext(p) ==
  LET left == call[p].missed \ {Place(p)} IN
  call' = [call EXCEPT ![p] = IF left = {} THEN NextBatch(@)
                              ELSE [@ EXCEPT !.missed = left, !.step = "put"]]

\* Seeded fault: the end of the text stays in a buffer.
FinishWriteUnflushed(p) ==
  /\ At(p, "write")
  /\ linked' = linked \ {p}
  /\ PutNext(p)
  /\ UNCHANGED <<memory, disk, damaged>>

\* The write is through.  What two writers of one file leave is the text of
\* either or a mixture; what is written to a removed file is lost.
FinishWrite(p) ==
  LET t == Text(p)
      alone == \A q \in linked \ {p} : Text(q) # t
  IN
  /\ At(p, "write")
  /\ \/ /\ p \in linked
        /\ disk' = [disk EXCEPT ![t] = call[p].results[Place(p)]]
        /\ damaged' = IF alone THEN damaged \ {t} ELSE damaged
     \/ /\ p \in linked /\ t \in damaged
        /\ disk' = [disk EXCEPT ![t] = Torn]
        /\ UNCHANGED damaged
     \/ /\ p \notin linked
        /\ UNCHANGED <<disk, damaged>>
  /\ linked' = linked \ {p}
  /\ PutNext(p)
  /\ UNCHANGED memory

\* Errors of the file system are ignored: the file could not be opened, or is
\* left as far as it got.
OpenFails(p) ==
  /\ At(p, "put")
  /\ memory' = [memory EXCEPT ![p] = Added(@, Text(p), call[p].results[Place(p)])]
  /\ PutNext(p)
  /\ UNCHANGED <<disk, linked, damaged>>

WriteFails(p) ==
  /\ At(p, "write")
  /\ damaged' = IF p \in linked THEN damaged \cup {Text(p)} ELSE damaged
  /\ disk' = IF p \in linked THEN [disk EXCEPT ![Text(p)] = Torn] ELSE disk
  /\ linked' = linked \ {p}
  /\ PutNext(p)
  /\ UNCHANGED memory

-----------------------------------------------------------------------------
\* clear_cache: memory, then every file, whoever else uses them.
Clear(p) ==
  /\ At(p, "idle")
  /\ memory' = [memory EXCEPT ![p] = <<>>]
  /\ disk' = [t \in Inputs |-> Nothing]
  /\ linked' = {} /\ damaged' = {}
  /\ UNCHANGED call

\* The process ends, perhaps in the middle of a write.
Restart(p) ==
  /\ memory' = [memory EXCEPT ![p] = <<>>]
  /\ damaged' = IF p \in linked THEN damaged \cup {Text(p)} ELSE damaged
  /\ linked' = linked \ {p}
  /\ call' = [call EXCEPT ![p] = NoCall]
  /\ UNCHANGED disk

\* The steps of a call in progress.
Step(p) == \/ GetFromMemory(p) \/ GetFromDisk(p) \/ Miss(p) \/ GetTorn(p) \/ Unlink(p)
           \/ AllCached(p) \/ Provide(p) \/ ProviderFails(p)
           \/ Put(p) \/ FinishWrite(p) \/ OpenFails(p) \/ WriteFails(p)

CacheNext == \E p \in Processes : Begin(p) \/ Step(p) \/ Clear(p) \/ Restart(p)

CacheSpec == CacheInit /\ [][CacheNext]_caches

-----------------------------------------------------------------------------
(* Properties.                                                             *)

\* generate_batch returns for each text its own embedding, in the order of the
\* texts, however hits, misses, repeated texts, evictions and batches mix: in
\* every place that the call has passed.
AnswersAligned ==
  \A p \in Processes :
    LET c == call[p] IN
    \A i \in 1..Len(c.texts) :
      /\ c.results[i] \in {Nothing, c.texts[i]}
      /\ i < c.at /\ (i \in c.missed => c.step \in {"put", "write"}) => c.results[i] # Nothing

\* Whatever crashes, fails or is written by two processes at once, a key never
\* answers with the embedding of another text, and the memory cache holds each
\* key once and no more keys than max_cache_size.
OwnEmbeddings ==
  /\ \A p \in Processes :
       /\ Len(memory[p]) <= MaxCacheSize
       /\ \A i, j \in 1..Len(memory[p]) : memory[p][i][1] = memory[p][j][1] => i = j
       /\ \A i \in 1..Len(memory[p]) : memory[p][i][1] = memory[p][i][2]
  /\ \A t \in Inputs : disk[t] \in {t, Torn, Nothing}

\* A file that cannot be parsed is being written at this moment, or was left
\* so by a writer that crashed, failed or was not alone.
TornOnlyWithCause ==
  \A t \in Inputs : disk[t] = Torn => t \in damaged \/ \E p \in linked : Text(p) = t

\* Both levels of the cache are sound.
CachesSound == OwnEmbeddings /\ TornOnlyWithCause

=============================================================================
