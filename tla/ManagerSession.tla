--------------------------- MODULE ManagerSession ---------------------------
(***************************************************************************)
(* Signing in to the manager's pages and out again                         *)
(* (managerServer/frontend): the AuthContext of every open tab, the user   *)
(* and auth_token all tabs share in localStorage, the routes and the       *)
(* interceptor of services/api.ts.                                         *)
(*                                                                         *)
(* Logins are numbered; a stored token or user is the number of its login. *)
(* localStorage is read and written an item at a time: other tabs may act  *)
(* between two accesses of a handler, its own tab may not.                 *)
(* The interceptor reads access_token and refresh_token, which nothing     *)
(* sets: requests carry no token, and a 401 always takes the branch        *)
(* without a refresh.                                                      *)
(***************************************************************************)
EXTENDS Naturals

CONSTANTS
    Tabs,        \* open tabs of one browser
    MaxSignIns,   \* bound on logins
    MaxSignOuts,   \* bound on the logout requests of a tab in flight
    Admins       \* the logins of a global_admin or an ou_admin

ASSUME ManagerSessionAssumption ==
    MaxSignIns \in Nat /\ MaxSignOuts \in Nat /\ Admins \subseteq 1..MaxSignIns

VARIABLES
    authToken, storedUser,   \* localStorage, 0 for nothing
    signIns,    \* logins so far
    route,      \* the page each tab shows, or is loading
    context,    \* AuthContext's token and user in each tab, 0 for null
    waiting,    \* tabs with requests of pages in flight; leaving a page
                \* cancels none
    leaving,    \* the logout requests of each tab in flight
    doing,      \* the handler each tab is in the middle of, the token it has
                \* read or the login it stores, whether a login was being
                \* stored since it read, and whether it loads the page in the
                \* end
    ended,      \* history: logins that ended by a logout or a 401
    crossed     \* history: logins stored while another was being stored

shared == <<authToken, storedUser, signIns>>
shown == <<route, context>>
requests == <<waiting, leaving>>
managerVars == <<shared, shown, requests, doing, ended, crossed>>

AdminPages == {"users", "organizations"}
AppPages == {"dashboard", "devices", "statistics", "profile"} \cup AdminPages
Nobody == [token |-> 0, user |-> 0]
Doing(at, login, torn, reload) ==
    [at |-> at, login |-> login, torn |-> torn, reload |-> reload]
AtRest == Doing("nothing", 0, FALSE, FALSE)

Free(t) == doing[t] = AtRest
Does(t, at) == doing[t].at = at
Storing == {doing[t].login : t \in {u \in Tabs : Does(u, "storing")}}

ManagerTypeOK ==
    /\ signIns \in 0..MaxSignIns /\ {authToken, storedUser} \subseteq 0..signIns
    /\ route \in [Tabs -> AppPages \cup {"login"}]
    /\ context \in [Tabs -> [token : 0..MaxSignIns, user : 0..MaxSignIns]]
    /\ waiting \subseteq Tabs /\ leaving \in [Tabs -> 0..MaxSignOuts]
    /\ doing \in [Tabs -> [at : {"nothing", "loading", "reading", "storing",
                                  "removing", "clearing"},
                           login : 0..MaxSignIns, torn : BOOLEAN, reload : BOOLEAN]]
    /\ ended \subseteq 1..signIns /\ crossed \subseteq 1..signIns

ManagerInit ==
    /\ authToken = 0 /\ storedUser = 0 /\ signIns = 0 /\ ended = {} /\ crossed = {}
    /\ route = [t \in Tabs |-> "login"] /\ context = [t \in Tabs |-> Nobody]
    /\ waiting = {} /\ leaving = [t \in Tabs |-> 0]
    /\ doing = [t \in Tabs |-> AtRest]

(* AuthProvider's effect: both or neither.                                 *)
Restored(token, user) ==
    IF token # 0 /\ user # 0 THEN [token |-> token, user |-> user] ELSE Nobody

isAuthenticated(c) == c.token # 0 /\ c.user # 0

(* ProtectedRoute; no route asks for a role.                               *)
Protected(c, path) == IF isAuthenticated(c) THEN path ELSE "login"

(* The routes: all pages but the login page are protected.                 *)
Routed(c, path) == IF path = "login" THEN path ELSE Protected(c, path)

(* The links of the navigation bar.                                        *)
Links(t) ==
    IF route[t] = "login" THEN {}
    ELSE AppPages \ IF context[t].user \in Admins THEN {} ELSE AdminPages

(* Pages load what they show; the devices page alone does not through api. *)
Loads(t, path) == IF path \in {"login", "devices"} THEN waiting ELSE waiting \cup {t}

(* A tab is loaded anew: its requests and its context are gone with its    *)
(* page.                                                                   *)
LoadPage(t, path) ==
    /\ doing' = [doing EXCEPT ![t] = Doing("loading", 0, FALSE, FALSE)]
    /\ route' = [route EXCEPT ![t] = path] /\ context' = [context EXCEPT ![t] = Nobody]
    /\ waiting' = waiting \ {t} /\ leaving' = [leaving EXCEPT ![t] = 0]

(* Any path that is not a page's is the dashboard's.                       *)
OpenURL(t, path) ==
    /\ Free(t) /\ LoadPage(t, path)
    /\ UNCHANGED <<shared, ended, crossed>>

(* AuthProvider's effect reads the token, then the user.                   *)
ReadToken(t) ==
    /\ Does(t, "loading")
    /\ doing' = [doing EXCEPT ![t] = Doing("reading", authToken, Storing # {}, FALSE)]
    /\ UNCHANGED <<shared, shown, requests, ended, crossed>>

ReadUser(t) ==
    LET c == Restored(doing[t].login, storedUser)
    IN  /\ Does(t, "reading")
        /\ context' = [context EXCEPT ![t] = c]
        /\ route' = [route EXCEPT ![t] = Routed(c, route[t])]
        /\ waiting' = Loads(t, Routed(c, route[t]))
        /\ doing' = [doing EXCEPT ![t] = AtRest]
        /\ UNCHANGED <<shared, leaving, ended, crossed>>

FollowLink(t, path) ==
    /\ Free(t) /\ path \in Links(t)
    /\ route' = [route EXCEPT ![t] = path]
    /\ waiting' = Loads(t, path)
    /\ UNCHANGED <<shared, context, leaving, doing, ended, crossed>>

(* t goes on to do d; every tab that is reading reads a torn login.        *)
TearReads(t, d) ==
    doing' = [u \in Tabs |-> IF u = t THEN d
                             ELSE IF Does(u, "reading")
                                    THEN Doing("reading", doing[u].login, TRUE, FALSE)
                             ELSE doing[u]]

(* Login's onSuccess: the token is stored, "" if the answer has none, then *)
(* the user, {} if it has none; the dashboard is asked for, and the        *)
(* context is not told.                                                    *)
onSuccess(t) ==
    /\ Free(t) /\ route[t] = "login" /\ signIns < MaxSignIns
    /\ signIns' = signIns + 1
    /\ authToken' \in {0, signIns'}
    /\ TearReads(t, Doing("storing", signIns', FALSE, FALSE))
    /\ crossed' = IF Storing = {} THEN crossed ELSE crossed \cup Storing \cup {signIns'}
    /\ UNCHANGED <<storedUser, shown, requests, ended>>

StoreUser(t) ==
    /\ Does(t, "storing")
    /\ storedUser' = doing[t].login
    /\ TearReads(t, AtRest)
    /\ route' = [route EXCEPT ![t] = Protected(context[t], "dashboard")]
    /\ waiting' = Loads(t, route'[t])
    /\ UNCHANGED <<authToken, signIns, context, leaving, ended, crossed>>

(* Requests of a tab are answered, none of them with a 401.                *)
Answered(t) ==
    /\ Free(t) /\ t \in waiting /\ waiting' = waiting \ {t}
    /\ UNCHANGED <<shared, shown, leaving, doing, ended, crossed>>

ForgetUser == storedUser' = 0 /\ ended' = ended \cup ({storedUser} \ {0})

(* The interceptor on a 401: the stored user goes, and a tab that is not   *)
(* on the login page loads it.                                             *)
Unauthorised(t) ==
    /\ Free(t) /\ t \in waiting
    /\ ForgetUser
    /\ \/ route[t] # "login" /\ LoadPage(t, "login")
       \/ /\ route[t] = "login" /\ waiting' \in {waiting, waiting \ {t}}
          /\ UNCHANGED <<shown, leaving, doing>>
    /\ UNCHANGED <<authToken, signIns, crossed>>

(* The logout button, which nothing disables.                              *)
handleLogout(t) ==
    /\ Free(t) /\ route[t] # "login" /\ leaving[t] < MaxSignOuts
    /\ leaving' = [leaving EXCEPT ![t] = @ + 1]
    /\ UNCHANGED <<shared, shown, waiting, doing, ended, crossed>>

(* Mutant: the login is forgotten only when the server agrees.             *)
contextLogoutIfAnswered(t) ==
    /\ Free(t) /\ leaving[t] > 0
    /\ leaving' = [leaving EXCEPT ![t] = @ - 1]
    /\ \/ ForgetUser /\ UNCHANGED <<context, route>>
          /\ doing' = [doing EXCEPT ![t] = Doing("removing", 0, FALSE, FALSE)]
       \/ /\ ended' = ended \cup ({context[t].token} \ {0})
          /\ context' = [context EXCEPT ![t] = Nobody]
          /\ route' = [route EXCEPT ![t] = "login"]
          /\ UNCHANGED <<storedUser, doing>>
    /\ UNCHANGED <<authToken, signIns, waiting, crossed>>

(* A logout request is over.  If it succeeds, or meets a 401, the stored   *)
(* user goes at once; a 401 also has the login page loaded anew in the     *)
(* end, unless it is shown already.                                        *)
contextLogout(t) ==
    /\ Free(t) /\ leaving[t] > 0
    /\ leaving' = [leaving EXCEPT ![t] = @ - 1]
    /\ \E reload \in BOOLEAN :
          /\ doing' = [doing EXCEPT ![t] = Doing("removing", 0, FALSE, reload)]
          /\ \/ ForgetUser /\ (reload => route[t] # "login")
             \/ UNCHANGED <<storedUser, ended>> /\ ~reload
    /\ UNCHANGED <<authToken, signIns, shown, waiting, crossed>>

(* In any case what is stored by then is cleared, the token first.         *)
RemoveToken(t) ==
    /\ Does(t, "removing")
    /\ authToken' = 0
    /\ doing' = [doing EXCEPT ![t] = Doing("clearing", 0, FALSE, doing[t].reload)]
    /\ UNCHANGED <<storedUser, signIns, shown, requests, ended, crossed>>

RemoveUser(t) ==
    /\ Does(t, "clearing")
    /\ storedUser' = 0
    /\ ended' = ended \cup ({context[t].token, storedUser} \ {0})
    /\ \/ doing[t].reload /\ LoadPage(t, "login")
       \/ /\ ~doing[t].reload
          /\ context' = [context EXCEPT ![t] = Nobody]
          /\ route' = [route EXCEPT ![t] = "login"]
          /\ doing' = [doing EXCEPT ![t] = AtRest]
          /\ UNCHANGED requests
    /\ UNCHANGED <<authToken, signIns, crossed>>

ManagerNext ==
    \E t \in Tabs :
       \/ \E path \in AppPages \cup {"login"} : OpenURL(t, path)
       \/ ReadToken(t) \/ ReadUser(t)
       \/ \E path \in AppPages : FollowLink(t, path)
       \/ onSuccess(t) \/ StoreUser(t) \/ Answered(t) \/ Unauthorised(t)
       \/ handleLogout(t) \/ contextLogout(t) \/ RemoveToken(t) \/ RemoveUser(t)

ManagerSpec == ManagerInit /\ [][ManagerNext]_managerVars

-----------------------------------------------------------------------------
(* A tab that is loaded is signed in by one login, and by none that was    *)
(* over, though token and user are read and removed one by one, a 401      *)
(* removes only one of them and logout may fail: unless a login was being  *)
(* stored while the tab read the two, or the login whose token it read was *)
(* stored while another was.                                               *)
EndedStaysOut ==
    [][\A t \in Tabs : context'[t] # context[t] =>
          \/ doing[t].torn \/ context'[t].token \in crossed
          \/ /\ context'[t].token = context'[t].user
             /\ context'[t].user \notin ended]_managerVars

(* docs/USAGE.md: "After successful login, you'll see the dashboard".      *)
LoginShowsDashboard ==
    [][\A t \in Tabs : StoreUser(t) => route'[t] = "dashboard"]_managerVars
=============================================================================
