---------------------------- MODULE ManagerPages ----------------------------
(***************************************************************************)
(* The manager's pages (managerServer/frontend/src/pages), one of which is *)
(* mounted at a time.  Each loads what it shows when it is mounted and     *)
(* when its query changes, and sends changes whose success loads it again, *)
(* with the query of the render the change was made in.  No request is     *)
(* cancelled and answers come in any order.                                *)
(*                                                                         *)
(* A query is a page number and a filter: the search and the status on     *)
(* Devices, the limit on Statistics.  What an answer holds is the query it *)
(* is for and the number of pages; messages are left out.                  *)
(***************************************************************************)
EXTENDS Naturals, FiniteSets

CONSTANTS
    Ids,        \* the devices or users in a list
    Filters,    \* the filters
    AllFilter,  \* the filter of a page just mounted
    MaxPages,   \* bound on the page numbers
    MaxActs,    \* bound on the clicks of the user
    None        \* nobody

ASSUME PagesAssumption ==
    /\ MaxPages \in Nat \ {0} /\ MaxActs \in Nat
    /\ AllFilter \in Filters /\ None \notin Ids

VARIABLES
    canManage,   \* the user is a global_admin or an ou_admin
    mounted,     \* the page mounted
    query, listLoading,   \* its query, and whether it shows the spinner
    listed, pages,        \* the list it holds and the number of its pages
    open,        \* the forms and modals it has open
    currentUser, \* Users: the user of the edit modal
    formOf,      \* Users: the user whose data editFormData is
    flying,      \* list requests in flight, by query
    sent,        \* changes in flight
    acts,        \* clicks so far
    failed,      \* history: the last list request failed
    raced,       \* history: the list was asked for while a request for it was
                 \* in flight, or with a query that was not the page's
    changed      \* history: a change was made on this page

pagesVars == <<canManage, mounted, query, listLoading, listed, pages, open,
               currentUser, formOf, flying, sent, acts, failed, raced, changed>>
edits == <<open, currentUser, formOf>>

PageNames == {"dashboard", "devices", "users", "organizations", "statistics",
              "profile"}
ListQueries == [page : 1..MaxPages, filter : Filters]
FirstQuery == [page |-> 1, filter |-> AllFilter]
Nothing == [page |-> 0, filter |-> AllFilter]
Forms == {"create", "edit", "mfa", "password"}
Ops == {"device", "create", "edit", "delete", "setup", "verify", "password"}
Changes == [op : Ops, id : Ids \cup {None}, form : Ids \cup {None},
            query : ListQueries, n : 1..MaxActs]

PagesTypeOK ==
    /\ canManage \in BOOLEAN /\ mounted \in PageNames
    /\ query \in ListQueries /\ listLoading \in BOOLEAN /\ pages \in 1..MaxPages
    /\ listed \in ListQueries \cup {Nothing}
    /\ open \subseteq Forms
    /\ currentUser \in Ids \cup {None} /\ formOf \in Ids \cup {None}
    /\ flying \in [ListQueries -> Nat]
    /\ sent \subseteq Changes /\ acts \in 0..MaxActs
    /\ {failed, raced, changed} \subseteq BOOLEAN

Mounted(p) ==
    /\ mounted' = p /\ query' = FirstQuery /\ listed' = Nothing /\ pages' = 1
    /\ open' = {} /\ currentUser' = None /\ formOf' = None /\ sent' = {}
    /\ flying' = [q \in ListQueries |-> IF q = FirstQuery THEN 1 ELSE 0]
    /\ listLoading' = TRUE /\ failed' = FALSE /\ raced' = FALSE /\ changed' = FALSE

PagesInit ==
    /\ canManage \in BOOLEAN
    /\ mounted = "dashboard" /\ query = FirstQuery /\ listed = Nothing /\ pages = 1
    /\ open = {} /\ currentUser = None /\ formOf = None /\ sent = {}
    /\ flying = [q \in ListQueries |-> IF q = FirstQuery THEN 1 ELSE 0]
    /\ listLoading = TRUE /\ failed = FALSE /\ raced = FALSE /\ changed = FALSE
    /\ acts = 0

-----------------------------------------------------------------------------
(* What the pages offer.                                                   *)

Covered == mounted \in {"users", "organizations"} /\ open # {}    \* by a modal
Loaded(p) ==       \* the rows are there, and there are some
    /\ mounted = p /\ ~listLoading /\ listed # Nothing /\ ~Covered
    /\ listed.page <= pages

Turned(n) == {[query EXCEPT !.page = n]} \cap ListQueries

(* Devices: the search and the filter, both of which go to the first page; *)
(* the pager, also while the list is loading; and the rows with their      *)
(* buttons.                                                                *)
DevicesFilters ==
    IF mounted # "devices" THEN {}
    ELSE {[page |-> 1, filter |-> f] : f \in Filters} \ {query}
DevicesPager ==
    IF mounted # "devices" \/ pages = 1 THEN {}
    ELSE Turned(query.page - 1) \cup
         IF query.page = pages THEN {} ELSE Turned(query.page + 1)
DevicesRows == IF Loaded("devices") /\ canManage THEN Ids ELSE {}

(* Mutant: the pager is always there.                                      *)
UsersPagerAlways ==
    IF mounted # "users" \/ Covered THEN {}
    ELSE Turned(query.page - 1) \cup Turned(query.page + 1)

(* Users: rows and pager are hidden while the list is loading.  The last   *)
(* page may be full, and then offers another.                              *)
UsersRows == IF Loaded("users") THEN Ids ELSE {}
UsersPager ==
    IF mounted # "users" \/ listLoading \/ Covered THEN {}
    ELSE Turned(query.page - 1) \cup
         IF listed # Nothing /\ listed.page <= pages THEN Turned(query.page + 1) ELSE {}

CreateUserModal == mounted = "users" /\ "create" \in open
EditUserModal == mounted = "users" /\ "edit" \in open /\ currentUser # None

CreateOrganizationModal == mounted = "organizations" /\ "create" \in open

(* Statistics: another limit, or Refresh, also while it is loading.        *)
StatisticsFilters ==
    IF mounted # "statistics" THEN {}
    ELSE {[page |-> 1, filter |-> f] : f \in Filters}

(* Profile: nothing but a message until the profile was loaded once, and   *)
(* nothing while it is loading again.                                      *)
ProfileView == Loaded("profile")

-----------------------------------------------------------------------------
Act == acts < MaxActs /\ acts' = acts + 1

(* A request for the list of query q, on a page whose query is now.        *)
LoadList(q, now) ==
    /\ listLoading' = TRUE
    /\ flying' = [flying EXCEPT ![q] = @ + 1]
    /\ raced' = (q # now \/ \E r \in ListQueries : flying[r] > 0)

(* Another page is mounted; the answers to the last one's are lost.        *)
Visit(p) == Act /\ p # mounted /\ ~Covered /\ Mounted(p) /\ UNCHANGED canManage

(* Mutant: the effect misses the page number among its dependencies.       *)
AskMissesPage(q) ==
    /\ Act
    /\ q \in DevicesFilters \cup DevicesPager \cup UsersPager \cup StatisticsFilters
    /\ query' = q
    /\ IF q.filter # query.filter THEN LoadList(q, q)
       ELSE UNCHANGED <<listLoading, flying, raced>>
    /\ UNCHANGED <<canManage, mounted, listed, pages, edits, sent, failed, changed>>

(* The user asks for another list, and the page's effect for its rows.     *)
Ask(q) ==
    /\ Act
    /\ q \in DevicesFilters \cup DevicesPager \cup UsersPager \cup StatisticsFilters
    /\ query' = q /\ LoadList(q, q)
    /\ UNCHANGED <<canManage, mounted, listed, pages, edits, sent, failed, changed>>

(* A list request is answered, or fails; the latest answer wins.           *)
ListAnswered(q) ==
    /\ flying[q] > 0 /\ flying' = [flying EXCEPT ![q] = @ - 1]
    /\ listLoading' = FALSE
    /\ \/ listed' = q /\ pages' \in 1..MaxPages /\ failed' = FALSE
       \/ failed' = TRUE /\ UNCHANGED <<listed, pages>>
    /\ UNCHANGED <<canManage, mounted, query, edits, sent, acts, raced, changed>>

(* Mutant: the form is filled only if it is empty.                         *)
openEditModalKeeps(id) ==
    /\ Act /\ id \in UsersRows
    /\ currentUser' = id /\ formOf' = (IF formOf = None THEN id ELSE formOf)
    /\ open' = open \cup {"edit"}
    /\ UNCHANGED <<canManage, mounted, query, listLoading, listed, pages, flying, sent,
                   failed, raced, changed>>

(* The edit modal: the user and the form are set together.                 *)
openEditModal(id) ==
    /\ Act /\ id \in UsersRows
    /\ currentUser' = id /\ formOf' = id /\ open' = open \cup {"edit"}
    /\ UNCHANGED <<canManage, mounted, query, listLoading, listed, pages, flying, sent,
                   failed, raced, changed>>

(* The buttons that open or close a form; Cancel forgets neither the user  *)
(* nor the data.                                                           *)
Toggle(f) ==
    /\ Act
    /\ \/ f = "create" /\ mounted \in {"users", "organizations"} /\ ~Covered
          /\ open' = open \cup {f}
       \/ f = "create" /\ (CreateUserModal \/ CreateOrganizationModal)
          /\ open' = open \ {f}
       \/ f = "edit" /\ EditUserModal /\ open' = open \ {f}
       \/ f = "password" /\ ProfileView /\ open' = (open \ {f}) \cup ({f} \ open)
       \/ f = "mfa" /\ ProfileView /\ f \in open /\ open' = open \ {f}
    /\ UNCHANGED <<canManage, mounted, query, listLoading, listed, pages,
                   currentUser, formOf, flying, sent, failed, raced, changed>>

(* A change is sent; no button is disabled until it is answered.           *)
SendChange(op, id) ==
    /\ Act
    /\ sent' = sent \cup {[op |-> op, id |-> id, query |-> query, n |-> acts',
                           form |-> IF op = "edit" THEN formOf ELSE None]}
    /\ changed' = TRUE
    /\ UNCHANGED <<canManage, mounted, query, listLoading, listed, pages, edits, flying,
                   failed, raced>>

handleDeactivate(id) == id \in DevicesRows /\ SendChange("device", id)  \* or reactivate
handleCreate == CreateUserModal /\ SendChange("create", None)
handleEdit == EditUserModal /\ SendChange("edit", currentUser)
handleDelete(id) == id \in UsersRows /\ SendChange("delete", id)
CreateOrganization == CreateOrganizationModal /\ SendChange("create", None)
handleSetupMfa == ProfileView /\ SendChange("setup", None)
handleVerifyMfa == ProfileView /\ "mfa" \in open /\ SendChange("verify", None)
handleChangePassword == ProfileView /\ "password" \in open /\ SendChange("password", None)

(* What a successful change does to the page's forms.                      *)
Closes(op) ==
    CASE op = "create" -> {"create"}
      [] op = "edit" -> {"edit"}
      [] op = "verify" -> {"mfa"}
      [] op = "password" -> {"password"}
      [] OTHER -> {}
Opens(op) == IF op = "setup" THEN {"mfa"} ELSE {}

(* A change is answered: what it opened or closes goes, whoever it is      *)
(* about, and the list is loaded again.  Or it fails, with a message.      *)
ChangeAnswered(c) ==
    /\ c \in sent /\ sent' = sent \ {c}
    /\ \/ /\ open' = (open \ Closes(c.op)) \cup Opens(c.op)
          /\ currentUser' = (IF c.op = "edit" THEN None ELSE currentUser)
          /\ IF c.op \in {"setup", "password"} THEN UNCHANGED <<listLoading, flying, raced>>
             ELSE LoadList(c.query, query)
       \/ UNCHANGED <<open, currentUser, listLoading, flying, raced>>
    /\ UNCHANGED <<canManage, mounted, query, listed, pages, formOf, acts, failed, changed>>

UserActs ==
    \/ \E p \in PageNames : Visit(p)
    \/ \E q \in ListQueries : Ask(q)
    \/ \E f \in Forms : Toggle(f)
    \/ \E id \in Ids : openEditModal(id) \/ handleDeactivate(id) \/ handleDelete(id)
    \/ handleCreate \/ handleEdit \/ CreateOrganization
    \/ handleSetupMfa \/ handleVerifyMfa \/ handleChangePassword

PagesNext ==
    \/ UserActs
    \/ \E q \in ListQueries : ListAnswered(q)
    \/ \E c \in sent : ChangeAnswered(c)

PagesSpec == PagesInit /\ [][PagesNext]_pagesVars

-----------------------------------------------------------------------------
(* Rows that are shown are the rows the page asks for, unless a request    *)
(* for them failed or two crossed; and requests can only cross on a page   *)
(* that lets its query change while it loads, or by a change that is       *)
(* answered late.                                                          *)
RowsAreAskedFor ==
    /\ ~listLoading /\ listed # Nothing /\ ~failed /\ ~raced => listed = query
    /\ raced => changed \/ mounted \in {"devices", "statistics"}

(* An update sends the data of the user it is for, however modals were     *)
(* opened, cancelled and closed by late answers in between.                *)
UpdateIsOfItsUser == \A c \in sent : c.op = "edit" => c.form = c.id /\ c.id # None
=============================================================================
