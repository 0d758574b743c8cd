--------------------------- MODULE ProfileStorage ---------------------------
(***************************************************************************)
(* day_54: SecureProfileStorage (profile_storage.py) and the UserProfile   *)
(* objects its clients edit (user_profile.py).  Clients are the threads of *)
(* one process that share a storage object.  A call authorises its token   *)
(* first and then makes up to three accesses, in transactions of their     *)
(* own: a SELECT (update, delete), the write, and the audit entry, which   *)
(* goes to another database.  Calls of different clients interleave        *)
(* between them, any access may raise sqlite3.Error, and the process may   *)
(* end at any point.                                                       *)
(*                                                                         *)
(* A profile is its version, the set of clients whose edits it holds, and  *)
(* whether validate() accepts it.  Encryption is the identity on profiles  *)
(* of one key.  Of the audit log the model keeps whether the newest entry  *)
(* of a change says that a profile exists; entries of reads, log-ins and   *)
(* refusals change nothing a later call depends on.  list_profiles and     *)
(* get_audit_log read only.                                                *)
(***************************************************************************)
EXTENDS Naturals

CONSTANTS Clients,     \* threads that call the storage
          Accounts,    \* that log in
          Admins,      \* accounts whose name starts with "admin"
          Owners,      \* the user_ids whose profiles are stored
          NoId,        \* the empty user_id: only a GUEST profile may have it,
                       \* which its validator lets pass unchecked
          Missing,     \* Python's None: no row, no copy, no valid token
          MaxVersion   \* bound: a copy is edited below this version only

Profiles == [version : 1..MaxVersion, edits : SUBSET Clients, valid : BOOLEAN]
Ops == {"create", "read", "update", "delete"}

VARIABLES rows,      \* the profiles table: user -> profile, or None
          told,      \* audit: profiles that exist by the newest entry of a change
          token,     \* client -> the account its valid token is for, or None
          copy,      \* client -> the UserProfile object it holds, or None
          of,        \* client -> the user_id of that object
          request,   \* client -> the call in progress
          stale,     \* history: clients whose copy is not made from the row
          overlap,   \* history: clients whose row changed during their call
          tangled    \* history: profiles whose newest entry may mislead

storage == <<rows, told, token, copy, of, request, stale, overlap, tangled>>
objects == <<copy, of>>

Requests == [step : {"idle", "look", "write", "audit"}, op : Ops, user : Owners,
             actor : Accounts]

StorageTypeOK == /\ rows \in [Owners -> Profiles \cup {Missing}]
          /\ told \subseteq Owners
          /\ token \in [Clients -> Accounts \cup {Missing}]
          /\ copy \in [Clients -> Profiles \cup {Missing}]
          /\ of \in [Clients -> Owners]
          /\ request \in [Clients -> Requests \cup {Missing}]
          /\ stale \subseteq Clients /\ overlap \subseteq Clients
          /\ tangled \subseteq Owners

StorageInit == /\ rows = [u \in Owners |-> Missing]
        /\ told = {}
        /\ token = [c \in Clients |-> Missing]
        /\ copy = [c \in Clients |-> Missing]
        /\ of \in [Clients -> Owners]
        /\ request = [c \in Clients |-> Missing]
        /\ stale = {} /\ overlap = {} /\ tangled = {}

-----------------------------------------------------------------------------
(* AccessController.  Permissions are those of the account's name:         *)
(* set_user_permissions fills a table that nothing reads.                  *)

Permissions(u) == IF u \in Admins THEN {"read", "write", "delete", "admin"}
                                  ELSE {"read", "write"}

Needed(op) == CASE op = "read" -> "read"
                [] op = "delete" -> "delete"
                [] OTHER -> "write"

\* Seeded fault: the permission is checked, whose profile it is is not.
AuthorizesAnyone(c, op, u) == /\ token[c] # Missing
                              /\ Needed(op) \in Permissions(token[c])

\* An empty user_id is nobody's: the owner is not asked for.
Authorizes(c, op, u) == /\ token[c] # Missing
                        /\ Needed(op) \in Permissions(token[c])
                        /\ u \in {NoId, token[c]} \/ "admin" \in Permissions(token[c])

Idle(c) == request[c] = Missing

Authenticate(c) ==
  /\ Idle(c)
  /\ \E u \in Accounts : token' = [token EXCEPT ![c] = u]
  /\ UNCHANGED <<rows, told, objects, request, stale, overlap, tangled>>

Logout(c) ==
  /\ Idle(c) /\ token[c] # Missing
  /\ token' = [token EXCEPT ![c] = Missing]
  /\ UNCHANGED <<rows, told, objects, request, stale, overlap, tangled>>

\* 23:59:59 passes and every token of the day has expired.  Its entry leaves the
\* table at its next use, at a logout or in cleanup_expired_tokens: until then
\* it authorises nothing, as if it were gone.
Midnight ==
  /\ token' = [c \in Clients |-> Missing]
  /\ UNCHANGED <<rows, told, objects, request, stale, overlap, tangled>>

-----------------------------------------------------------------------------
(* The client's UserProfile object.                                        *)

\* The constructor validates (__post_init__); the new object knows nothing of
\* a row that is there already.
NewProfile(c) ==
  /\ Idle(c)
  /\ \E u \in Owners : of' = [of EXCEPT ![c] = u]
  /\ copy' = [copy EXCEPT ![c] = [version |-> 1, edits |-> {}, valid |-> TRUE]]
  /\ stale' = stale \cup {c}
  /\ UNCHANGED <<rows, told, token, request, overlap, tangled>>

Edited(c, ok) == [version |-> copy[c].version + 1,
                  edits |-> copy[c].edits \cup {c}, valid |-> ok]

\* update_profile sets the attributes and validates; the values may repair a
\* profile that was invalid.
UpdateProfile(c) ==
  /\ Idle(c) /\ copy[c] # Missing /\ copy[c].version < MaxVersion
  /\ copy' = [copy EXCEPT ![c] = Edited(c, TRUE)]
  /\ UNCHANGED <<rows, told, token, of, request, stale, overlap, tangled>>

\* When validation fails the version is put back; the attributes stay as set.
UpdateProfileFails(c) ==
  /\ Idle(c) /\ copy[c] # Missing
  /\ copy' = [copy EXCEPT ![c].edits = @ \cup {c}, ![c].valid = FALSE]
  /\ UNCHANGED <<rows, told, token, of, request, stale, overlap, tangled>>

\* update_preferences validates the preferences only, record_login nothing.
UpdatePreferences(c) ==
  /\ Idle(c) /\ copy[c] # Missing /\ copy[c].version < MaxVersion
  /\ copy' = [copy EXCEPT ![c] = Edited(c, copy[c].valid)]
  /\ UNCHANGED <<rows, told, token, of, request, stale, overlap, tangled>>

-----------------------------------------------------------------------------
(* Calls.                                                                  *)

FirstStep(op) == IF op \in {"update", "delete"} THEN "look" ELSE "write"

\* store_profile and update_profile are about the object the client holds.
Begin(c) ==
  /\ Idle(c)
  /\ \E op \in Ops, u \in Owners :
        /\ op \in {"create", "update"} => copy[c] # Missing /\ u = of[c]
        /\ Authorizes(c, op, u)
        /\ request' = [request EXCEPT ![c] = [step |-> FirstStep(op), op |-> op,
                                        user |-> u, actor |-> token[c]]]
  /\ UNCHANGED <<rows, told, token, objects, stale, overlap, tangled>>

At(c, step) == request[c] # Missing /\ request[c].step = step
Return(c) == request' = [request EXCEPT ![c] = Missing]
GoTo(c, step) == request' = [request EXCEPT ![c].step = step]

\* SELECT: the row is there now.
Look(c) ==
  /\ At(c, "look") /\ rows[request[c].user] # Missing
  /\ GoTo(c, "write")
  /\ overlap' = overlap \ {c}
  /\ UNCHANGED <<rows, told, token, objects, stale, tangled>>

\* ValueError "Profile not found".
NotFound(c) ==
  /\ At(c, "look") \/ (At(c, "write") /\ request[c].op = "read")
  /\ rows[request[c].user] = Missing
  /\ Return(c)
  /\ UNCHANGED <<rows, told, token, objects, stale, overlap, tangled>>

\* Seeded fault: from_dict starts the metadata anew.
RetrieveAnew(c) ==
  LET u == request[c].user IN
  /\ At(c, "write") /\ request[c].op = "read" /\ rows[u] # Missing
  /\ copy' = [copy EXCEPT ![c] = [rows[u] EXCEPT !.version = 1]]
  /\ of' = [of EXCEPT ![c] = u]
  /\ stale' = stale \ {c}
  /\ Return(c)
  /\ UNCHANGED <<rows, told, token, overlap, tangled>>

\* SELECT, decrypt, from_dict: the constructor validates again, and its
\* ValidationError leaves the client as it was.
Retrieve(c) ==
  LET u == request[c].user IN
  /\ At(c, "write") /\ request[c].op = "read" /\ rows[u] # Missing
  /\ IF rows[u].valid
     THEN /\ copy' = [copy EXCEPT ![c] = rows[u]]
          /\ of' = [of EXCEPT ![c] = u]
          /\ stale' = stale \ {c}
     ELSE UNCHANGED <<copy, of, stale>>
  /\ Return(c)
  /\ UNCHANGED <<rows, told, token, overlap, tangled>>

\* What the write of a call leaves in the row: INSERT OR REPLACE always, UPDATE
\* and DELETE when there is a row.
Written(c) == CASE request[c].op = "create" -> copy[c]
                [] request[c].op = "update" -> IF rows[request[c].user] = Missing THEN Missing
                                            ELSE copy[c]
                [] request[c].op = "delete" -> Missing

\* The write commits; whatever it found, the call goes on to the audit entry.
Write(c) ==
  LET u == request[c].user
      own == IF Written(c) = Missing THEN {} ELSE {c}
      around == {n \in Clients \ {c} : /\ request[n] # Missing /\ request[n].user = u
                                       /\ request[n].step \in {"write", "audit"}}
  IN
  /\ At(c, "write") /\ request[c].op # "read"
  /\ rows' = [rows EXCEPT ![u] = Written(c)]
  /\ GoTo(c, "audit")
  /\ stale' = (stale \cup {n \in Clients : copy[n] # Missing /\ of[n] = u}) \ own
  /\ overlap' = (overlap \cup around) \ (IF request[c].op = "create" THEN {c} ELSE {})
  /\ UNCHANGED <<told, token, objects, tangled>>

\* Seeded fault: the entry of a deletion is not written.
AuditButDelete(c) ==
  /\ At(c, "audit")
  /\ told' = IF request[c].op = "delete" THEN told ELSE told \cup {request[c].user}
  /\ tangled' = IF c \in overlap THEN tangled \cup {request[c].user}
                ELSE tangled \ {request[c].user}
  /\ overlap' = overlap \ {c}
  /\ Return(c)
  /\ UNCHANGED <<rows, token, objects, stale>>

Audit(c) ==
  /\ At(c, "audit")
  /\ told' = IF request[c].op = "delete" THEN told \ {request[c].user}
             ELSE told \cup {request[c].user}
  /\ tangled' = IF c \in overlap THEN tangled \cup {request[c].user}
                ELSE tangled \ {request[c].user}
  /\ overlap' = overlap \ {c}
  /\ Return(c)
  /\ UNCHANGED <<rows, token, objects, stale>>

\* sqlite3.Error is none of the exceptions the methods catch: nothing is
\* undone, nothing is logged.
SqlError(c) ==
  /\ request[c] # Missing
  /\ tangled' = IF At(c, "audit") THEN tangled \cup {request[c].user} ELSE tangled
  /\ overlap' = overlap \ {c}
  /\ Return(c)
  /\ UNCHANGED <<rows, told, token, objects, stale>>

\* The process ends: both databases stay, token and objects are gone.
Restart ==
  /\ token' = [c \in Clients |-> Missing]
  /\ copy' = [c \in Clients |-> Missing]
  /\ request' = [c \in Clients |-> Missing]
  /\ tangled' = tangled \cup {request[c].user : c \in {n \in Clients : At(n, "audit")}}
  /\ stale' = {} /\ overlap' = {}
  /\ UNCHANGED <<rows, told, of>>

StorageNext ==
  \/ \E c \in Clients :
       \/ Authenticate(c) \/ Logout(c) \/ NewProfile(c)
       \/ UpdateProfile(c) \/ UpdateProfileFails(c) \/ UpdatePreferences(c)
       \/ Begin(c) \/ Look(c) \/ NotFound(c) \/ Retrieve(c)
       \/ Write(c) \/ Audit(c) \/ SqlError(c)
  \/ Midnight \/ Restart

StorageSpec == StorageInit /\ [][StorageNext]_storage

-----------------------------------------------------------------------------
(* Properties.                                                             *)

\* The audit log can be believed: between calls the newest entry of a change
\* of a profile says whether the profile exists - unless the entry of a change
\* was lost to an error or a crash, or the calls of two clients overlapped, so
\* that entries came out of order or an update was logged that found no row.
LogTellsState ==
  \A u \in Owners :
    \/ u \in tangled
    \/ \E c \in Clients : At(c, "audit") /\ request[c].user = u
    \/ rows[u] # Missing <=> u \in told

\* A stored profile loses an edit, or goes back to an older version, only
\* through a write from a copy that was not made from the row as it is: the
\* version read by update_profile protects nobody.
LostOnlyByStaleCopy ==
  [][\A u \in Owners :
        /\ rows[u] # Missing /\ rows'[u] # Missing
        /\ \/ rows'[u].version < rows[u].version
           \/ ~(rows[u].edits \subseteq rows'[u].edits)
        => \E c \in stale : of[c] = u /\ At(c, "write") /\ request'[c] # request[c]]_storage

\* Whoever logs in, out or expires while calls are under way: a profile is
\* changed for its owner or an administrator, and removed for the latter only.
\* One stored under the empty user_id belongs to nobody: every account that may
\* write changes it, but only an administrator removes it.
ChangedByOwnerOrAdmin ==
  [][\A u \in Owners :
        rows'[u] # rows[u] =>
          \E c \in Clients :
            /\ At(c, "write") /\ request[c].user = u
            /\ u = NoId \/ request[c].actor \in {u} \cup Admins
            /\ rows'[u] = Missing => request[c].actor \in Admins]_storage

=============================================================================
