------------------------ MODULE ConversationManager -------------------------
(***************************************************************************)
(* day_47/conversation_manager.py: the message history and its truncation  *)
(* by three strategies.  Python slices are modelled by what they return: a *)
(* slice [-0:] is the whole list and [-k:] with k negative drops k from    *)
(* the front.  Messages are timestamped in the order they are added.       *)
(***************************************************************************)
EXTENDS SequenceParts

CONSTANTS MaxMessages,  \* max_messages
          Roles,        \* [system, important] of the messages added
          MaxAdded      \* bound: messages added

ASSUME MaxMessagesAssumption == MaxMessages \in Nat \ {0}
ASSUME RolesAssumption == Roles \subseteq [system : BOOLEAN, important : BOOLEAN]
ASSUME MaxAddedAssumption == MaxAdded \in Nat

Strategies == {"sliding_window", "summary_based", "selective"}
Messages == [n : 1..MaxAdded, system : BOOLEAN, important : BOOLEAN]

VARIABLES messages,  \* self.messages; n is the place in the order of arrival
          strategy,
          added      \* messages added so far

conversation == <<messages, strategy, added>>

ConversationTypeOK == /\ messages \in Seq(Messages)
                      /\ strategy \in Strategies
                      /\ added \in 0..MaxAdded

ConversationInit == /\ messages = <<>>
                    /\ strategy \in Strategies
                    /\ added = 0

-----------------------------------------------------------------------------
\* The first place of s[-k:], and s[-k:].
From(s, k) == LET from == IF k = 0 THEN 1 ELSE IF k > 0 THEN Len(s) - k + 1 ELSE 1 - k
              IN  IF from < 1 THEN 1 ELSE from

LastOf(s, k) == SubSeq(s, From(s, k), Len(s))

\* s[:k]
FirstOf(s, k) == SubSeq(s, 1, IF k < Len(s) THEN k ELSE Len(s))

\* The places of the important messages.
Important(s) == {i \in 1..Len(s) : s[i].important}

\* Seeded fault: a window one too long.
WindowTooLong(s) == LastOf(s, MaxMessages + 1)

SlidingWindow(s) == LastOf(s, MaxMessages)

SummaryBased(s) == IF s[1].system
                   THEN <<s[1]>> \o LastOf(s, MaxMessages - 1)
                   ELSE LastOf(s, MaxMessages)

\* Seeded fault: importance is ignored.
Unselective(s) == LastOf(s, MaxMessages)

\* Important and recent messages, once each, in the order of arrival; of
\* those the first.
Selective(s) ==
  LET recent == From(s, MaxMessages - Cardinality(Important(s)))..Len(s)
  IN  FirstOf(AtPlaces(s, Important(s) \cup recent), MaxMessages)

\* _apply_truncation.
Truncated(s, how) ==
  IF Len(s) <= MaxMessages THEN s
  ELSE CASE how = "sliding_window" -> SlidingWindow(s)
         [] how = "summary_based"  -> SummaryBased(s)
         [] how = "selective"      -> Selective(s)

AddMessage(system, important) ==
  /\ added < MaxAdded
  /\ added' = added + 1
  /\ messages' = Truncated(Append(messages, [n |-> added + 1, system |-> system,
                                             important |-> important]), strategy)
  /\ UNCHANGED strategy

SetStrategy(how) ==
  /\ strategy' = how
  /\ messages' = Truncated(messages, how)
  /\ UNCHANGED added

ClearMessages ==
  /\ messages' = <<>>
  /\ UNCHANGED <<strategy, added>>

ConversationNext ==
  \/ \E role \in Roles : AddMessage(role.system, role.important)
  \/ \E how \in Strategies : SetStrategy(how)
  \/ ClearMessages

ConversationSpec == ConversationInit /\ [][ConversationNext]_conversation

-----------------------------------------------------------------------------
(* Properties.                                                             *)

\* The history never holds more than max_messages, nor a message twice, nor
\* messages out of the order of their arrival.  (With max_messages 1 the
\* summary-based strategy breaks this: its slice [-0:] keeps everything.)
HistorySound ==
  MaxMessages > 1 => /\ Len(messages) <= MaxMessages
                     /\ \A i, j \in 1..Len(messages) :
                          i < j => messages[i].n < messages[j].n

StillHeld(m) == \E j \in 1..Len(messages') : messages'[j] = m

\* The history is full, and the important messages fill it with the one added.
Crowds(m) == LET s == Append(messages, m)
             IN  Len(s) > MaxMessages /\ Cardinality(Important(s)) >= MaxMessages

KeepsImportant(m) ==
  /\ \A i \in 1..Len(messages) : messages[i].important \/ Crowds(m) => StillHeld(messages[i])
  /\ StillHeld(m) <=> ~Crowds(m)
  /\ \A i, k \in 1..Len(messages) :
       i < k /\ StillHeld(messages[i]) => messages[i].important \/ StillHeld(messages[k])

\* Truncation by importance.  Adding a message drops no important message that
\* the history holds, and of the others it drops the oldest first.  The message
\* added is kept too, but when the important ones fill the history with it:
\* then the slice [-0:] or [1:] and the cut to the first max_messages drop it,
\* important or not, and every older message stays - an unimportant one also,
\* which makes the docstring ("Keep important messages and recent context")
\* false of the last important message that there is room for.
ImportantKept ==
  [][\A role \in Roles :
       strategy = "selective" /\ AddMessage(role.system, role.important)
       => KeepsImportant([n |-> added + 1, system |-> role.system, important |-> role.important])
    ]_conversation

\* The other strategies keep the newest message, and summary_based the system
\* prompt that opens the history.
NewestKept ==
  [][strategy # "selective" /\ added' > added
     => /\ messages'[Len(messages')].n = added'
        /\ strategy = "summary_based" /\ messages # <<>> /\ messages[1].system
           => messages'[1] = messages[1]
    ]_conversation

\* What each strategy is there to keep is kept.
KeptByStrategy == ImportantKept /\ NewestKept
=============================================================================
