----------------------------- MODULE WebSession -----------------------------
(***************************************************************************)
(* Signing in to the web client and out again (webClient/frontend, App.tsx *)
(* and services/api.ts) in several tabs of one browser: what App believes  *)
(* in each, the tokens in the localStorage they share, and the logout      *)
(* requests in flight, each with the interceptor that refreshes the access *)
(* token on a 401 and sends it again.                                      *)
(*                                                                         *)
(* Logins are numbered and a token is the number of its login.  The API's  *)
(* answers are any it can give; a login's brings both tokens (unified-api) *)
(* or neither (webClient/api).  Only logout ever meets a 401: the status   *)
(* request is answered 200 and no other request is made through api.       *)
(* localStorage is written an item at a time: other tabs may act between   *)
(* two writes of a handler, its own tab may not.                           *)
(***************************************************************************)
EXTENDS Naturals, Sequences

CONSTANTS WebTabs,                \* the tabs of the browser
          MaxLogins, MaxClicks    \* bounds on logins and clicks on Logout

ASSUME WebSessionAssumption == WebTabs # {} /\ MaxLogins \in Nat /\ MaxClicks \in Nat

VARIABLES
    loading, authEnabled,   \* App's state in each tab
    session,                \* the login App takes to be signed in, 0 for none
    task,                   \* the handler a tab is in the middle of: the item
                            \* it writes next, with what, and what it does then
    access, refresh,        \* the tokens in localStorage, 0 for none
    logins,                 \* the tab of each login so far
    bears,                  \* the logins whose answer brought tokens
    logout,                 \* the requests: progress, their tab, the login they
                            \* were clicked in, the token they refresh with
    doubled,                \* history: the tabs where Logout was clicked while
                            \* a request of an earlier click was in flight
    met                     \* history: the logins during which Logout was
                            \* clicked, or a request of it was in flight, or a
                            \* handler was writing, in another tab than theirs

app == <<loading, authEnabled, session>>
storage == <<access, refresh>>
sessionVars == <<app, task, storage, logins, bears, logout, doubled, met>>

Clicks == 1..MaxClicks
Items == {"access", "refresh"}
InFlight(c) == logout[c].at \in {"sent", "refreshing"}
Busy(t) == task[t].next \in Items
Idle == [next |-> "none", value |-> 0, then |-> "stay"]

SessionTypeOK ==
    /\ loading \in [WebTabs -> BOOLEAN] /\ authEnabled \in [WebTabs -> BOOLEAN]
    /\ logins \in Seq(WebTabs) /\ Len(logins) <= MaxLogins
    /\ session \in [WebTabs -> 0..Len(logins)]
    /\ task \in [WebTabs -> [next : Items \cup {"none"}, value : {0} \cup bears,
                             then : {"stay", "leave", "load"}]]
    /\ bears \subseteq 1..Len(logins) /\ met \subseteq 1..Len(logins)
    /\ {access, refresh} \subseteq {0} \cup bears
    /\ logout \in [Clicks -> [at : {"none", "sent", "refreshing", "over"}, tab : WebTabs,
                              of : 0..Len(logins), by : {0} \cup bears]]
    /\ doubled \subseteq WebTabs

SessionInit ==
    /\ loading = [t \in WebTabs |-> TRUE] /\ authEnabled = [t \in WebTabs |-> TRUE]
    /\ session = [t \in WebTabs |-> 0] /\ task = [t \in WebTabs |-> Idle]
    /\ access = 0 /\ refresh = 0 /\ logins = <<>> /\ bears = {}
    /\ logout = [c \in Clicks |-> [at |-> "none", tab |-> CHOOSE t \in WebTabs : TRUE,
                                   of |-> 0, by |-> 0]]
    /\ doubled = {} /\ met = {}

(* What App renders: the spinner, the login page or TestRunner.            *)
Page(t) == IF loading[t] THEN "spinner"
           ELSE IF authEnabled[t] /\ session[t] = 0 THEN "login" ELSE "runner"

(* checkAuth, answered or not.                                             *)
CheckAuth(t) ==
    /\ Page(t) = "spinner" /\ ~Busy(t)
    /\ loading' = [loading EXCEPT ![t] = FALSE]
    /\ \/ /\ authEnabled' \in {[authEnabled EXCEPT ![t] = b] : b \in BOOLEAN}
          /\ session' \in {[session EXCEPT ![t] = k] : k \in {0, access}}
       \/ /\ authEnabled' = [authEnabled EXCEPT ![t] = TRUE]
          /\ session' = [session EXCEPT ![t] = 0]
    /\ UNCHANGED <<task, storage, logins, bears, logout, doubled, met>>

(* What another tab than t is in the middle of.                            *)
OtherActs(t) ==
    \/ \E u \in WebTabs \ {t} : Busy(u)
    \/ \E c \in Clicks : InFlight(c) /\ logout[c].tab # t

(* Login's onSuccess: App is told if the answer has a user, then tokens    *)
(* are stored if it has them.                                              *)
Login(t) ==
    LET k == Len(logins) + 1
    IN  /\ Page(t) = "login" /\ ~Busy(t) /\ k <= MaxLogins
        /\ logins' = Append(logins, t)
        /\ session' \in {session, [session EXCEPT ![t] = k]}
        /\ \/ /\ bears' = bears \cup {k}
              /\ task' = [task EXCEPT ![t] = [next |-> "access", value |-> k, then |-> "stay"]]
           \/ UNCHANGED <<bears, task>>
        /\ met' = IF OtherActs(t) THEN met \cup {k} ELSE met
        /\ UNCHANGED <<loading, authEnabled, storage, logout, doubled>>

(* A request at another point of its way, with another refresh token.      *)
Now(c, at, by) == [at |-> at, tab |-> logout[c].tab, of |-> logout[c].of, by |-> by]

(* A tab is loaded anew, by its user or by window.location: its state is   *)
(* gone, and its requests with it.                                         *)
Load(t) ==
    /\ loading' = [loading EXCEPT ![t] = TRUE]
    /\ authEnabled' = [authEnabled EXCEPT ![t] = TRUE]
    /\ session' = [session EXCEPT ![t] = 0]
    /\ logout' = [c \in Clicks |-> IF InFlight(c) /\ logout[c].tab = t
                                     THEN Now(c, "over", 0)
                                     ELSE logout[c]]

Reload(t) == ~Busy(t) /\ Load(t) /\ UNCHANGED <<task, storage, logins, bears, doubled, met>>

(* A handler writes an item: access first, then refresh, after which it    *)
(* stays on the page, tells App of the logout or loads the login page.     *)
Write(t) ==
    /\ \/ /\ task[t].next = "access"
          /\ access' = task[t].value
          /\ task' = [task EXCEPT ![t].next = "refresh"]
          /\ UNCHANGED <<app, refresh, logout>>
       \/ /\ task[t].next = "refresh"
          /\ refresh' = task[t].value
          /\ task' = [task EXCEPT ![t] = Idle]
          /\ UNCHANGED access
          /\ \/ task[t].then = "stay" /\ UNCHANGED <<app, logout>>
             \/ /\ task[t].then = "leave"
                /\ session' = [session EXCEPT ![t] = 0]
                /\ UNCHANGED <<loading, authEnabled, logout>>
             \/ task[t].then = "load" /\ Load(t)
    /\ UNCHANGED <<logins, bears, doubled, met>>

Send(c, t) ==
    /\ Page(t) = "runner" /\ authEnabled[t] /\ session[t] # 0 /\ ~Busy(t)
    /\ logout[c].at = "none" /\ \A d \in Clicks : d < c => logout[d].at # "none"
    /\ logout' = [logout EXCEPT ![c] = [at |-> "sent", tab |-> t, of |-> session[t], by |-> 0]]
    /\ doubled' = IF \E d \in Clicks : InFlight(d) /\ logout[d].tab = t
                    THEN doubled \cup {t} ELSE doubled
    /\ met' = met \cup {k \in 1..Len(logins) : logins[k] # t}

(* Mutant: the page is left before the request is answered.                *)
ClickLogoutEarly(c, t) ==
    /\ Send(c, t)
    /\ session' = [session EXCEPT ![t] = 0]
    /\ UNCHANGED <<loading, authEnabled, task, storage, logins, bears>>

(* TestRunner.handleLogout up to its await; nothing disables the button.   *)
ClickLogout(c, t) ==
    Send(c, t) /\ UNCHANGED <<app, task, storage, logins, bears>>

Over(c) == logout' = [logout EXCEPT ![c] = Now(c, "over", 0)]

(* Both tokens are to be removed; then the page is left or loaded anew.    *)
RemoveBoth(c, how) ==
    /\ Over(c)
    /\ task' = [task EXCEPT ![logout[c].tab] = [next |-> "access", value |-> 0, then |-> how]]
    /\ UNCHANGED <<app, storage>>

(* The request succeeds; or fails without a 401, and the tokens stay.      *)
LogoutAnswered(c) ==
    /\ logout[c].at = "sent" /\ ~Busy(logout[c].tab)
    /\ \/ RemoveBoth(c, "leave")
       \/ /\ Over(c)
          /\ session' = [session EXCEPT ![logout[c].tab] = 0]
          /\ UNCHANGED <<loading, authEnabled, task, storage>>
    /\ UNCHANGED <<logins, bears, doubled, met>>

(* The interceptor on a 401: refresh with the token of the moment, or give *)
(* up and load the login page.                                             *)
LogoutUnauthorised(c) ==
    /\ logout[c].at = "sent" /\ ~Busy(logout[c].tab)
    /\ \/ /\ refresh # 0
          /\ logout' = [logout EXCEPT ![c] = Now(c, "refreshing", refresh)]
          /\ UNCHANGED <<app, task, storage>>
       \/ refresh = 0 /\ RemoveBoth(c, "load")
    /\ UNCHANGED <<logins, bears, doubled, met>>

(* The refresh is answered: the new token is stored and the request sent   *)
(* again; or it fails.                                                     *)
RefreshAnswered(c) ==
    /\ logout[c].at = "refreshing" /\ ~Busy(logout[c].tab)
    /\ \/ /\ access' = logout[c].by
          /\ logout' = [logout EXCEPT ![c] = Now(c, "sent", 0)]
          /\ UNCHANGED <<app, task, refresh>>
       \/ RemoveBoth(c, "load")
    /\ UNCHANGED <<logins, bears, doubled, met>>

SessionNext ==
    \/ \E t \in WebTabs :
          \/ CheckAuth(t) \/ Login(t) \/ Reload(t) \/ Write(t)
          \/ \E c \in Clicks : ClickLogout(c, t)
    \/ \E c \in Clicks : LogoutAnswered(c) \/ LogoutUnauthorised(c) \/ RefreshAnswered(c)

SessionSpec == SessionInit /\ [][SessionNext]_sessionVars

(* No late answer, refresh or failure of one login's logout takes the      *)
(* tokens of another login of its tab, or puts an older one in their       *)
(* place: unless another tab is at work in it, or Logout was clicked twice *)
(* in its tab, a login loses a token only once Logout was clicked in it or *)
(* in a later one.  And what a tab takes to be signed in ends without a    *)
(* load of the page only once Logout was clicked there, in that login.     *)
LoginEndsByItsUser ==
    [][/\ \A k \in 1..Len(logins) :
             (access = k /\ access' < k) \/ (refresh = k /\ refresh' < k)
             => \/ k \in met \/ logins[k] \in doubled
                \/ \E c \in Clicks : logout[c].of >= k
       /\ \A t \in WebTabs :
             session[t] # 0 /\ session'[t] = 0 /\ ~loading'[t]
             => \/ t \in doubled
                \/ \E c \in Clicks : logout[c].tab = t /\ logout[c].of = session[t]]_sessionVars
=============================================================================
