----------------------------- MODULE LinkedItems -----------------------------
(***************************************************************************)
(* What both stores of day_50 promise their users: items under ids, and    *)
(* links that join them.  A link is a set of one or two ids.  It can be    *)
(* made only between items that exist and goes with either of them, so     *)
(* that an item stored later under a freed id inherits nothing.  FactStore *)
(* implements this with symmetric sets of related ids, KnowledgeGraph with *)
(* directed edges, several of which may stand for one link.                *)
(***************************************************************************)
CONSTANTS Ids, Contents, Absent

VARIABLES table,  \* id -> content, or Absent
          links   \* pairs of ids

state == <<table, links>>

Present == {i \in Ids : table[i] # Absent}

LinksAmong(S) == {{a, b} : a, b \in S}

Init == table = [i \in Ids |-> Absent] /\ links = {}

\* A new item, linked to items that exist or to itself.
Put(i, c, new) ==
  /\ table[i] = Absent
  /\ new \subseteq {{i, j} : j \in Present \cup {i}}
  /\ table' = [table EXCEPT ![i] = c]
  /\ links' = links \cup new

Change(i, c) ==
  /\ table[i] # Absent
  /\ table' = [table EXCEPT ![i] = c]
  /\ UNCHANGED links

Remove(i) ==
  /\ table[i] # Absent
  /\ table' = [table EXCEPT ![i] = Absent]
  /\ links' = {l \in links : i \notin l}

Relate(l) ==
  /\ l \in LinksAmong(Present)
  /\ links' = links \cup {l}
  /\ UNCHANGED table

Unrelate(l) ==
  /\ links' = links \ {l}
  /\ UNCHANGED table

Next ==
  \/ \E i \in Ids : \E c \in Contents, new \in SUBSET {{i, j} : j \in Ids} : Put(i, c, new)
  \/ \E i \in Ids, c \in Contents : Change(i, c)
  \/ \E i \in Ids : Remove(i)
  \/ \E l \in LinksAmong(Ids) : Relate(l) \/ Unrelate(l)

Spec == Init /\ [][Next]_state

=============================================================================
