--------------------------- MODULE ManagerConfig ---------------------------
(***************************************************************************)
(* Client configurations at the manager (managerServer/api): the row of    *)
(* each organization unit and the default row, as update_ou_config and     *)
(* update_default_config write them, delete_user takes them away and a     *)
(* client's check-in (get_client_config) is served from them.              *)
(*                                                                         *)
(* client_configs has no unique key but its id, and its user_id cascades   *)
(* (database/schema.sql:171-185).  Statements are atomic and interleave.   *)
(* Nothing orders the SELECTs: of several rows of a unit any may be first. *)
(***************************************************************************)
CONSTANTS
    Updates,    \* the PUT requests, each standing for the data it carries
    Users,      \* the administrators who send them
    Units,        \* the organization units
    Default,    \* stands for the row with is_default
    NoUser,     \* a NULL user_id
    NoUpdate    \* the data no PUT has written

ASSUME ConfigAssumption ==
    Default \notin Units /\ NoUser \notin Users /\ NoUpdate \notin Updates

VARIABLES
    rows,       \* client_configs, by unit
    deleted,    \* the users deleted
    target, author,   \* what each PUT is about and who sends it
    putPhase,      \* where each PUT is
    last,       \* history: the PUT that wrote last
    raced       \* history: what PUTs were ever concurrent about

configVars == <<rows, deleted, target, author, putPhase, last, raced>>

Targets == Units \cup {Default}

(* The id of a row is the PUT that created it.                             *)
Row == [id : Updates \cup {NoUpdate}, data : Updates \cup {NoUpdate},
        author : Users \cup {NoUser}]

ConfigTypeOK ==
    /\ rows \in [Targets -> SUBSET Row]
    /\ deleted \subseteq Users
    /\ target \in [Updates -> Targets]
    /\ author \in [Updates -> Users]
    /\ putPhase \in [Updates -> {"new", "creating", "updating", "created",
                              "updated", "acknowledged", "refused", "failed"}]
    /\ last \in [Targets -> Updates \cup {NoUpdate}]
    /\ raced \subseteq Targets

ConfigInit ==
    /\ rows = [o \in Targets |->
                 IF o = Default THEN {[id |-> NoUpdate, data |-> NoUpdate, author |-> NoUser]}
                 ELSE {}]
    /\ deleted = {}
    /\ target \in [Updates -> Targets]
    /\ author \in [Updates -> Users]
    /\ putPhase = [u \in Updates |-> "new"]
    /\ last = [o \in Targets |-> NoUpdate]
    /\ raced = {}

-----------------------------------------------------------------------------
Pending(o) ==
    {u \in Updates : target[u] = o /\ putPhase[u] \in {"creating", "updating"}}

(* Mutant: the row of a unit is taken for missing.                         *)
FindNothing(u) ==
    /\ putPhase[u] = "new"
    /\ putPhase' = [putPhase EXCEPT ![u] =
                   IF author[u] \in deleted THEN "refused" ELSE "creating"]
    /\ raced' = IF Pending(target[u]) = {} THEN raced
                ELSE raced \cup {target[u]}
    /\ UNCHANGED <<rows, deleted, target, author, last>>

(* The checks of the sender and the SELECT of the row to change; only a    *)
(* unit's row is created when there is none.                               *)
Find(u) ==
    /\ putPhase[u] = "new"
    /\ putPhase' = [putPhase EXCEPT ![u] =
                   IF author[u] \in deleted THEN "refused"
                   ELSE IF rows[target[u]] # {} THEN "updating"
                   ELSE IF target[u] = Default THEN "refused"
                   ELSE "creating"]
    /\ raced' = IF Pending(target[u]) = {} THEN raced
                ELSE raced \cup {target[u]}
    /\ UNCHANGED <<rows, deleted, target, author, last>>

(* A statement naming a user who is gone violates the foreign key.         *)
NoSuchUser(u) == author[u] \in deleted

(* INSERT.                                                                 *)
Create(u) ==
    /\ putPhase[u] = "creating" /\ ~NoSuchUser(u)
    /\ rows' = [rows EXCEPT ![target[u]] =
                  @ \cup {[id |-> u, data |-> u, author |-> author[u]]}]
    /\ last' = [last EXCEPT ![target[u]] = u]
    /\ putPhase' = [putPhase EXCEPT ![u] = "created"]
    /\ UNCHANGED <<deleted, target, author, raced>>

(* Mutant: the sender of an update is not recorded.                        *)
UpdateAnonymously(u) ==
    /\ putPhase[u] = "updating" /\ (rows[target[u]] = {} \/ ~NoSuchUser(u))
    /\ rows' = [rows EXCEPT ![target[u]] =
                  {[row EXCEPT !.data = u] : row \in @}]
    /\ last' = [last EXCEPT ![target[u]] =
                  IF rows[target[u]] = {} THEN @ ELSE u]
    /\ putPhase' = [putPhase EXCEPT ![u] = "updated"]
    /\ UNCHANGED <<deleted, target, author, raced>>

(* UPDATE of every row of the target; it may match none by now.            *)
Update(u) ==
    /\ putPhase[u] = "updating" /\ (rows[target[u]] = {} \/ ~NoSuchUser(u))
    /\ rows' = [rows EXCEPT ![target[u]] =
                  {[row EXCEPT !.data = u, !.author = author[u]] : row \in @}]
    /\ last' = [last EXCEPT ![target[u]] =
                  IF rows[target[u]] = {} THEN @ ELSE u]
    /\ putPhase' = [putPhase EXCEPT ![u] = "updated"]
    /\ UNCHANGED <<deleted, target, author, raced>>

(* The row read back, its own or the first, is answered as updated; when   *)
(* it has gone the handler raises.                                         *)
Acknowledge(u) ==
    /\ putPhase[u] \in {"created", "updated"}
    /\ putPhase' = [putPhase EXCEPT ![u] =
                   IF \E row \in rows[target[u]] : putPhase[u] = "created" => row.id = u
                   THEN "acknowledged" ELSE "failed"]
    /\ UNCHANGED <<rows, deleted, target, author, last, raced>>

(* A statement raises, among them one that names a deleted user, or the    *)
(* worker is killed.                                                       *)
AbortPut(u) ==
    /\ putPhase[u] \in {"creating", "updating", "created", "updated"}
    /\ putPhase' = [putPhase EXCEPT ![u] = "failed"]
    /\ UNCHANGED <<rows, deleted, target, author, last, raced>>

(* delete_user: every configuration the user wrote last goes too.          *)
DeleteUser(v) ==
    /\ v \notin deleted
    /\ deleted' = deleted \cup {v}
    /\ rows' = [o \in Targets |->
                  {row \in rows[o] : row.author # v}]
    /\ UNCHANGED <<target, author, putPhase, last, raced>>

Put(u) == Find(u) \/ Create(u) \/ Update(u) \/ Acknowledge(u)

ConfigNext ==
    \/ \E u \in Updates : Put(u) \/ AbortPut(u)
    \/ \E v \in Users : DeleteUser(v)

ConfigSpec == ConfigInit /\ [][ConfigNext]_configVars

-----------------------------------------------------------------------------
(* What a check-in of a device of unit o may be served: its unit's, or     *)
(* else the default.                                                       *)
Served(o) == {row.data : row \in IF rows[o] # {} THEN rows[o] ELSE rows[Default]}

(* As long as the PUTs about a configuration never overlapped there is at  *)
(* most one row of it, and every check-in is served the last one written.  *)
(* PUTs that do overlap may leave two rows of a unit, either of which may  *)
(* then be served for good.                                                *)
SerialUpdatesServed ==
    \A o \in Targets \ raced :
        /\ \A r1, r2 \in rows[o] : r1 = r2
        /\ rows[o] # {} => Served(o) = {last[o]}

(* A configuration that was written, and the default, disappears only with *)
(* the user who wrote it last: the deletion of others, and PUTs that fail  *)
(* or overlap, leave one.                                                  *)
LostWithAuthor ==
    \A o \in Targets :
        rows[o] = {} /\ (last[o] # NoUpdate \/ o = Default) =>
            last[o] # NoUpdate /\ author[last[o]] \in deleted
=============================================================================
