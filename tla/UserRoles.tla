----------------------------- MODULE UserRoles -----------------------------
(***************************************************************************)
(* Users and their roles in the unified API (services/unified-api/         *)
(* services/user_service.py): create_user, update_user and delete_user.    *)
(* The roles of a user are replaced by a DELETE and one INSERT each, and   *)
(* every statement is an await between which other requests run.           *)
(*                                                                         *)
(* auth_user_role has no unique key; its user_id and role_id refer to rows *)
(* that must be there, and a row goes with its user (models/user.py).  A   *)
(* created user is named by the request that created it.  Names, e-mail    *)
(* addresses, profile fields and who may ask are left out: whether a name  *)
(* is taken and a request allowed is open.                                 *)
(***************************************************************************)
CONSTANTS
    UserRequests,
    Users,        \* the users there are at first
    Roles

ASSUME RolesAssumption == Users \cap UserRequests = {}

VARIABLES
    userRows,     \* auth_user
    roleRows,     \* auth_user_role, each row with the request that inserted it
    method,       \* what each request asks for
    userOf,       \* the user it is about
    withRoles,    \* the requests that have role_ids
    roleIds,      \* these role_ids
    serving,      \* where its handler is
    remaining,    \* the role_ids not yet inserted
    servedBefore  \* history: the requests that were over when it began

roleVars == <<userRows, roleRows, method, userOf, withRoles, roleIds, serving,
              remaining, servedBefore>>

UserIds == Users \cup UserRequests
Served == {"answered", "refused", "failed"}
RoleRow == [by : UserRequests, user : UserIds, role : Roles]

RolesTypeOK ==
    /\ userRows \subseteq UserIds
    /\ roleRows \subseteq RoleRow
    /\ method \in [UserRequests -> {"create", "update", "delete"}]
    /\ userOf \in [UserRequests -> UserIds]
    /\ withRoles \subseteq UserRequests
    /\ roleIds \in [UserRequests -> SUBSET Roles]
    /\ serving \in [UserRequests ->
         {"new", "checking", "writing", "clearing", "assigning", "reading"} \cup Served]
    /\ remaining \in [UserRequests -> SUBSET Roles]
    /\ servedBefore \in [UserRequests -> SUBSET UserRequests]

RolesInit ==
    /\ userRows = Users /\ roleRows = {}
    /\ method = [q \in UserRequests |-> "create"]
    /\ userOf = [q \in UserRequests |-> q]
    /\ withRoles = {}
    /\ roleIds = [q \in UserRequests |-> {}]
    /\ serving = [q \in UserRequests |-> "new"]
    /\ remaining = [q \in UserRequests |-> {}]
    /\ servedBefore = [q \in UserRequests |-> {}]

-----------------------------------------------------------------------------
Move(q, place) == serving' = [serving EXCEPT ![q] = place]
SameRequest == UNCHANGED <<method, userOf, withRoles, roleIds, servedBefore>>

(* A request is sent, about a user there is, or one to be created.         *)
Send(q, m, u, with, ids) ==
    /\ serving[q] = "new"
    /\ IF m = "create" THEN u = q ELSE u \in userRows
    /\ m = "delete" => ~with
    /\ ~with => ids = {}
    /\ method' = [method EXCEPT ![q] = m]
    /\ userOf' = [userOf EXCEPT ![q] = u]
    /\ withRoles' = IF with THEN withRoles \cup {q} ELSE withRoles
    /\ roleIds' = [roleIds EXCEPT ![q] = ids]
    /\ servedBefore' = [servedBefore EXCEPT ![q] =
                          {p \in UserRequests : serving[p] \in Served}]
    /\ Move(q, "checking")
    /\ UNCHANGED <<userRows, roleRows, remaining>>

(* create_user finds the address and the name free; the others find the    *)
(* user (404).                                                             *)
Check(q) ==
    /\ serving[q] = "checking"
    /\ IF method[q] = "create" \/ userOf[q] \in userRows
       THEN Move(q, "writing") ELSE Move(q, "refused")
    /\ UNCHANGED <<userRows, roleRows, remaining>> /\ SameRequest

(* Where a request goes that has written the row of its user.              *)
AfterWrite(q) ==
    IF q \notin withRoles THEN "reading"
    ELSE IF method[q] = "create" THEN "assigning" ELSE "clearing"

(* The INSERT of the user.                                                 *)
InsertUser(q) ==
    /\ serving[q] = "writing" /\ method[q] = "create"
    /\ userRows' = userRows \cup {q}
    /\ remaining' = [remaining EXCEPT ![q] = roleIds[q]]
    /\ Move(q, AfterWrite(q))
    /\ UNCHANGED roleRows /\ SameRequest

(* The UPDATE of the user, which matches no row of one who is gone.        *)
UpdateUser(q) ==
    /\ serving[q] = "writing" /\ method[q] = "update"
    /\ remaining' = [remaining EXCEPT ![q] = roleIds[q]]
    /\ Move(q, AfterWrite(q))
    /\ UNCHANGED <<userRows, roleRows>> /\ SameRequest

(* Mutant: the roles a user has are kept.                                  *)
KeepRoles(q) ==
    /\ serving[q] = "clearing"
    /\ Move(q, "assigning")
    /\ UNCHANGED <<userRows, roleRows, remaining>> /\ SameRequest

(* The DELETE of all roles of the user.                                    *)
ClearRoles(q) ==
    /\ serving[q] = "clearing"
    /\ roleRows' = {row \in roleRows : row.user # userOf[q]}
    /\ Move(q, "assigning")
    /\ UNCHANGED <<userRows, remaining>> /\ SameRequest

(* The INSERT of one role.                                                 *)
AssignRole(q, r) ==
    /\ serving[q] = "assigning" /\ r \in remaining[q] /\ userOf[q] \in userRows
    /\ roleRows' = roleRows \cup {[by |-> q, user |-> userOf[q], role |-> r]}
    /\ remaining' = [remaining EXCEPT ![q] = @ \ {r}]
    /\ UNCHANGED <<userRows, serving>> /\ SameRequest

Assigned(q) ==
    /\ serving[q] = "assigning" /\ remaining[q] = {}
    /\ Move(q, "reading")
    /\ UNCHANGED <<userRows, roleRows, remaining>> /\ SameRequest

(* The user is read back and answered; one who is gone is not found.       *)
ReadBack(q) ==
    /\ serving[q] = "reading"
    /\ Move(q, IF userOf[q] \in userRows \/ method[q] = "create"
               THEN "answered" ELSE "refused")
    /\ UNCHANGED <<userRows, roleRows, remaining>> /\ SameRequest

(* delete_user: the roles go with the row.                                 *)
EraseUser(q) ==
    /\ serving[q] = "writing" /\ method[q] = "delete"
    /\ userRows' = userRows \ {userOf[q]}
    /\ roleRows' = {row \in roleRows : row.user # userOf[q]}
    /\ Move(q, "answered")
    /\ UNCHANGED remaining /\ SameRequest

(* A name is taken, or the request is not allowed (400, 403).              *)
Decline(q) ==
    /\ serving[q] = "checking"
    /\ Move(q, "refused")
    /\ UNCHANGED <<userRows, roleRows, remaining>> /\ SameRequest

(* A statement raises: a name another request has just taken, a role or a  *)
(* user that is gone, a connection that is lost.  What was done stays.     *)
Raise(q) ==
    /\ serving[q] \in {"checking", "writing", "clearing", "assigning", "reading"}
    /\ Move(q, "failed")
    /\ UNCHANGED <<userRows, roleRows, remaining>> /\ SameRequest

UserStep(q) ==
    \/ Check(q) \/ InsertUser(q) \/ UpdateUser(q) \/ ClearRoles(q)
    \/ (\E r \in Roles : AssignRole(q, r)) \/ Assigned(q) \/ ReadBack(q)
    \/ EraseUser(q) \/ Decline(q) \/ Raise(q)

RolesNext == \E q \in UserRequests :
    \/ \E m \in {"create", "update", "delete"}, u \in UserIds,
          with \in BOOLEAN, ids \in SUBSET Roles : Send(q, m, u, with, ids)
    \/ UserStep(q)

RolesSpec == RolesInit /\ [][RolesNext]_roleVars

-----------------------------------------------------------------------------
Replaces(p) == method[p] = "update" /\ p \in withRoles

(* An answered request about the roles of a user is what these are, up to  *)
(* requests it overlapped and later ones: nothing an earlier request gave  *)
(* is left or comes back, and what is missing of its own was taken by      *)
(* another replacement, which may have failed half-way.                    *)
RolesAsAsked ==
    \A q \in UserRequests :
        /\ serving[q] = "answered" /\ userOf[q] \in userRows
        /\ method[q] = "create" \/ Replaces(q)
        => /\ \A row \in roleRows : row.user = userOf[q] => row.by \notin servedBefore[q]
           /\ \A r \in roleIds[q] :
                 \/ [by |-> q, user |-> userOf[q], role |-> r] \in roleRows
                 \/ \E p \in UserRequests \ (servedBefore[q] \cup {q}) :
                       Replaces(p) /\ userOf[p] = userOf[q] /\ serving[p] # "new"
=============================================================================
