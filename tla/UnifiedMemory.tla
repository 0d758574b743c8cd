---------------------------- MODULE UnifiedMemory ---------------------------
(***************************************************************************)
(* day_52/unified_memory.py: one interface over the conversation (working  *)
(* memory), the episodic stores (short term) and the semantic ones (long   *)
(* term), with coordinate_store of day_52/memory_coordinator.py.           *)
(*                                                                         *)
(* The context is a ContextManager's over the conversation.  Of an item    *)
(* only its kind is kept, and a number that stands for its id; a message's *)
(* id is its place in the history.  A query finds something or nothing:    *)
(* CrossTypeQueries and MemoryRouter are modules of their own.             *)
(***************************************************************************)
EXTENDS ContextManager

CONSTANT MaxItems   \* bound: items stored

ASSUME UnifiedAssumption == MaxItems \in Nat

ItemKinds == {"event", "experience", "fact", "node"}
\* What the arguments of store say: a memory_type, or the hint that stands
\* for it (role, event_type, outcome, subject and predicate, node_type).
Shapes == {"message", "plain"} \cup ItemKinds

VARIABLES items,     \* what HybridMemory holds: [n, kind]
          stored,    \* items stored so far
          handed,    \* history: the place in the id that each message got
          cleared    \* history: messages added before the last clear

unifiedVars == <<contextVars, items, stored, handed, cleared>>

UnifiedInit == /\ ContextInit /\ strategy = "sliding_window"
               /\ items = {} /\ stored = 0
               /\ handed = <<>> /\ cleared = 0

-----------------------------------------------------------------------------
(* store and coordinate_store, as a change of [messages, added, handed,    *)
(* items, stored].                                                         *)

State == [messages |-> messages, added |-> added, handed |-> handed,
          items |-> items, stored |-> stored]

Becomes(s) == /\ messages' = s.messages /\ added' = s.added /\ handed' = s.handed
              /\ items' = s.items /\ stored' = s.stored
              /\ UNCHANGED <<strategy, components, cleared>>

KindOf(shape) == IF shape = "plain" THEN "fact" ELSE shape

Message(n, role) == [n |-> n, system |-> role.system, important |-> role.important]

\* Seeded fault: the id is taken before the message is added.
WithMessageEarly(s, role) ==
  LET history == Truncated(Append(s.messages, Message(s.added + 1, role)), strategy)
  IN  [s EXCEPT !.messages = history, !.added = @ + 1,
                !.handed = Append(@, Len(s.messages))]

\* The id is the length of the history, after its truncation.
WithMessage(s, role) ==
  LET history == Truncated(Append(s.messages, Message(s.added + 1, role)), strategy)
  IN  [s EXCEPT !.messages = history, !.added = @ + 1,
                !.handed = Append(@, Len(history))]

Stores(s, shape, role) ==
  IF shape = "message" THEN WithMessage(s, role)
  ELSE [s EXCEPT !.items = @ \cup {[n |-> s.stored + 1, kind |-> KindOf(shape)]},
                 !.stored = @ + 1]

Within(s) == s.added <= MaxAdded /\ s.stored <= MaxItems

Store(shape, role) == /\ Becomes(Stores(State, shape, role))
                      /\ Within(Stores(State, shape, role))

\* The working layer gets a message, in the role given or as the user's, and
\* without metadata; whatever the other layer, store goes by its arguments.  A
\* layer whose store raises is passed over.
ShapeFor(layer, shape) == IF layer = "working" THEN "message" ELSE shape

RoleFor(layer, shape, role) ==
  IF layer = "working"
  THEN [system |-> shape = "message" /\ role.system, important |-> FALSE]
  ELSE role

InLayer(s, layer, shape, role, failing) ==
  IF layer \in failing THEN s
  ELSE Stores(s, ShapeFor(layer, shape), RoleFor(layer, shape, role))

CoordinateStore(layers, shape, role, failing) ==
  LET first == InLayer(State, layers[1], shape, role, failing)
      after == IF Len(layers) = 1 THEN first
               ELSE InLayer(first, layers[2], shape, role, failing)
  IN  /\ Becomes(after) /\ Within(after)

\* The target layers: one, or two in the order in which they are stored to.
Targets == {<<"hybrid">>, <<"short_term">>, <<"working", "long_term">>}

-----------------------------------------------------------------------------
(* get, delete and queries.                                                *)

\* get(msg_<place>, WORKING).
MessageAt(place) == IF place \in DOMAIN messages THEN {messages[place].n} ELSE {}

\* HybridMemory.delete, which refuses experiences.
Delete(i) == /\ i \in items /\ i.kind # "experience"
             /\ items' = items \ {i}
             /\ UNCHANGED <<contextVars, stored, handed, cleared>>

\* build_context with a query that finds something: one more component, beside
\* those of earlier queries.
BuildContext == /\ items # {} \/ messages # <<>>
                /\ AddRetrievedContext
                /\ UNCHANGED <<items, stored, handed, cleared>>

\* clear_working_memory, and clear_all_memory, which does no more.
ClearAll == /\ messages' = <<>> /\ components' = <<>>
            /\ cleared' = added
            /\ UNCHANGED <<strategy, added, items, stored, handed>>

\* conversation.set_strategy and context.add_component, through the parts.
Directly == /\ \/ UNCHANGED components /\ \E how \in Strategies : SetStrategy(how)
               \/ AddComponent
            /\ UNCHANGED <<items, stored, handed, cleared>>

UnifiedNext ==
  \/ \E shape \in Shapes, role \in Roles :
        \/ Store(shape, role)
        \/ \E layers \in Targets :
             \E failing \in SUBSET {layers[i] : i \in DOMAIN layers} :
               CoordinateStore(layers, shape, role, failing)
  \/ \E i \in items : Delete(i)
  \/ BuildContext \/ ClearAll \/ Directly

UnifiedSpec == UnifiedInit /\ [][UnifiedNext]_unifiedVars

-----------------------------------------------------------------------------
(* Properties.                                                             *)

UnifiedTypeOK ==
  /\ ContextTypeOK
  /\ items \subseteq [n : 1..MaxItems, kind : ItemKinds] /\ stored \in 0..MaxItems
  /\ handed \in Seq(Nat \ {0}) /\ Len(handed) = added
  /\ cleared \in 0..added

\* Until the history is truncated, the id of a message gets that message,
\* whatever was stored in between, in whichever layers.
IdsHoldUntilTruncated ==
  added - cleared <= MaxMessages =>
    \A n \in DOMAIN handed : n > cleared => MessageAt(handed[n]) = {n}
=============================================================================
