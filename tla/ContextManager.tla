--------------------------- MODULE ContextManager ---------------------------
(***************************************************************************)
(* day_47/context_manager.py over a ConversationManager: the components of *)
(* a context window (ContextSelection chooses those that fit).  The        *)
(* history component is a snapshot: the messages are formatted and counted *)
(* when it is added.  Contents are their token counts; a formatted message *)
(* counts for one.                                                         *)
(***************************************************************************)
EXTENDS ConversationManager

CONSTANTS TokenCounts,  \* of the components added
          Kinds,        \* their priorities and metadata bonuses
          MaxComponents \* bound: components at a time

ASSUME TokensAssumption == TokenCounts \subseteq Nat

Priorities == {"CRITICAL", "HIGH", "MEDIUM", "LOW"}
ASSUME KindsAssumption == Kinds \subseteq Priorities \X Nat

\* "retrieved" stands for retrieved_context and UnifiedMemory's retrieved_memory.
Names == {"conversation_history", "system_prompt", "retrieved", "other"}

VARIABLE components  \* name, priority, tokens and bonus of each

contextVars == <<conversation, components>>

Components == [name : Names, priority : Priorities, tokens : Nat, bonus : Nat]

ContextTypeOK == ConversationTypeOK /\ components \in Seq(Components)

ContextInit == ConversationInit /\ components = <<>>

-----------------------------------------------------------------------------
Component(name, priority, tokens, bonus) ==
  [name |-> name, priority |-> priority, tokens |-> tokens, bonus |-> bonus]

Add(c) == /\ Len(components) < MaxComponents
          /\ components' = Append(components, c)
          /\ UNCHANGED conversation

AddComponent == \E kind \in Kinds, n \in TokenCounts :
                  Add(Component("other", kind[1], n, kind[2]))

AddSystemPrompt == \E n \in TokenCounts : Add(Component("system_prompt", "CRITICAL", n, 0))

\* format_for_context(count): count 0 is a slice [-0:], all the messages.
AddConversationHistory ==
  \E count \in 0..Len(messages) :
    Add(Component("conversation_history", "HIGH", Len(LastOf(messages, count)), 0))

AddRetrievedContext == \E n \in TokenCounts : Add(Component("retrieved", "HIGH", n, 0))

RemoveComponent(name) ==
  /\ components' = AtPlaces(components, {i \in 1..Len(components) : components[i].name # name})
  /\ UNCHANGED conversation

ClearComponents == components' = <<>> /\ UNCHANGED conversation

ContextNext == \/ ConversationNext /\ UNCHANGED components
               \/ AddComponent \/ AddSystemPrompt \/ AddConversationHistory
               \/ AddRetrievedContext
               \/ \E name \in Names : RemoveComponent(name)
               \/ ClearComponents

ContextSpec == ContextInit /\ [][ContextNext]_contextVars

=============================================================================
