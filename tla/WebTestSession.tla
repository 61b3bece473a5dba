--------------------------- MODULE WebTestSession ---------------------------
(***************************************************************************)
(* The web client's TestRunner (webClient/frontend) with its               *)
(* WebSocketService and the Trace tab, and the start_test handlers of the  *)
(* Flask-SocketIO server (webClient/api/app.py) it talks to.               *)
(*                                                                         *)
(* Events carry no correlation id: whatever terminal event arrives ends    *)
(* whatever the page shows as running.  The handlers run concurrently; an  *)
(* event goes to the connection its request came from and is lost when     *)
(* that connection is gone, although socket.io connects again by itself.   *)
(* test_progress only moves the progress bar and the charts and is left    *)
(* out.  Logging out unmounts the page and closes the socket of the        *)
(* moment; a new login mounts it again, with the same WebSocketService.    *)
(***************************************************************************)
EXTENDS Naturals, Sequences

CONSTANTS
    Tests,        \* the start_test calls the user may make
    MaxSockets,   \* bound on the sockets connect() creates
    MaxDrops,     \* bound on the connections lost
    NoTest        \* no test

ASSUME SessionAssumption ==
    /\ MaxSockets \in Nat \ {0} /\ MaxDrops \in Nat
    /\ NoTest \notin Tests

VARIABLES
    config,         \* AUTH_ENABLED, and whether the login library leaves a
                    \* session_id in sessionStorage (nothing in src/ does)
    current,        \* WebSocketService.socket, the latest socket created
    link,           \* state of every socket
    promise,        \* the promise connect() returned for it
    isConnected,    \* WebSocketService.isConnected
    wsConnected,    \* TestRunner's own idea of it
    listening,      \* sockets with TestRunner's listeners
    armed,          \* sockets with a TraceTest listener that saw isRunning
    tab,            \* the tab shown: the form, the traces, or another one;
                    \* "none" while TestRunner is not mounted
    isRunningTest, testResult,      \* TestRunner's state
    traceRunning, traceResult,      \* the mounted TraceTest's state
    kind, phase, sock,   \* of each test: form or trace, progress, connection
    cut,            \* tests whose connection was lost before their outcome
                    \* reached the browser
    inbox,          \* events on their way to the browser, by socket
    drops           \* connections lost so far

browser == <<current, promise, isConnected, wsConnected, listening, armed, tab>>
shown == <<isRunningTest, testResult, traceRunning, traceResult>>
server == <<kind, phase, sock, cut>>
vars == <<config, browser, shown, server, link, inbox, drops>>

Sockets == 1..MaxSockets

Events == [event : {"test_started", "test_complete", "error"}, test : Tests]

TypeOK ==
    /\ config \in [authEnabled : BOOLEAN, sessionStored : BOOLEAN]
    /\ current \in Sockets
    /\ link \in [Sockets -> {"none", "connecting", "up", "down", "closed"}]
    /\ promise \in [Sockets -> {"none", "pending", "settled"}]
    /\ isConnected \in BOOLEAN /\ wsConnected \in BOOLEAN
    /\ listening \subseteq Sockets /\ armed \subseteq Sockets
    /\ tab \in {"tests", "trace", "other", "none"}
    /\ isRunningTest \in BOOLEAN /\ traceRunning \in BOOLEAN
    /\ testResult \in Tests \cup {NoTest}
    /\ traceResult \in Tests \cup {NoTest}
    /\ kind \in [Tests -> {"none", "form", "trace"}]
    /\ phase \in [Tests -> {"idle", "sent", "running", "refused",
                            "unauthorised", "complete", "failed", "lost"}]
    /\ sock \in [Tests -> Sockets]
    /\ cut \subseteq Tests
    /\ inbox \in [Sockets -> Seq(Events)]
    /\ drops \in 0..MaxDrops

Init ==
    /\ config \in [authEnabled : BOOLEAN, sessionStored : BOOLEAN]
    /\ current = 1
    /\ link = [s \in Sockets |-> IF s = 1 THEN "connecting" ELSE "none"]
    /\ promise = [s \in Sockets |-> IF s = 1 THEN "pending" ELSE "none"]
    /\ isConnected = FALSE /\ wsConnected = FALSE
    /\ listening = {} /\ armed = {}
    /\ tab = "other"
    /\ isRunningTest = FALSE /\ testResult = NoTest
    /\ traceRunning = FALSE /\ traceResult = NoTest
    /\ kind = [t \in Tests |-> "none"]
    /\ phase = [t \in Tests |-> "idle"]
    /\ sock = [t \in Tests |-> 1]
    /\ cut = {}
    /\ inbox = [s \in Sockets |-> <<>>]
    /\ drops = 0

-----------------------------------------------------------------------------
(* The connection.                                                         *)

(* The socket connects, or connects again.  The first time, the promise    *)
(* resolves and initializeWebSocket registers the listeners, on the socket *)
(* that is the service's by then.                                          *)
Connect(s) ==
    /\ link[s] \in {"connecting", "down"}
    /\ link' = [link EXCEPT ![s] = "up"]
    /\ isConnected' = TRUE
    /\ promise' = [promise EXCEPT ![s] = "settled"]
    /\ IF promise[s] = "pending"
         THEN wsConnected' = TRUE /\ listening' = listening \cup {current}
         ELSE UNCHANGED <<wsConnected, listening>>
    /\ UNCHANGED <<config, current, armed, tab, shown, server, inbox, drops>>

(* An attempt to connect fails; socket.io will try again, but the promise  *)
(* is rejected and the listeners are not registered.                       *)
ConnectError(s) ==
    /\ link[s] \in {"connecting", "down"}
    /\ isConnected' = FALSE
    /\ promise' = [promise EXCEPT ![s] = "settled"]
    /\ wsConnected' = IF promise[s] = "pending" THEN FALSE ELSE wsConnected
    /\ UNCHANGED <<config, current, listening, armed, tab, shown, server, link,
                   inbox, drops>>

Unfinished(t) == phase[t] \in {"sent", "running"}
Underway(t) == \E i \in 1..Len(inbox[sock[t]]) : inbox[sock[t]][i].test = t

(* What a connection's end loses: the events on it, and the outcome of the *)
(* tests that run for it.                                                  *)
Lose(s) ==
    /\ inbox' = [inbox EXCEPT ![s] = <<>>]
    /\ cut' = cut \cup {t \in Tests : sock[t] = s /\ (Unfinished(t) \/ Underway(t))}

(* The connection is lost with the events on it; requests that are on it   *)
(* may be lost too.                                                        *)
Drop(s) ==
    /\ drops < MaxDrops /\ drops' = drops + 1
    /\ link[s] = "up"
    /\ link' = [link EXCEPT ![s] = "down"]
    /\ isConnected' = FALSE
    /\ Lose(s)
    /\ \E gone \in SUBSET {t \in Tests : sock[t] = s /\ phase[t] = "sent"} :
          phase' = [t \in Tests |-> IF t \in gone THEN "lost" ELSE phase[t]]
    /\ UNCHANGED <<config, current, promise, wsConnected, listening, armed, tab,
                   shown, kind, sock>>

-----------------------------------------------------------------------------
(* What the page offers and shows.                                         *)

(* The form is enabled, and the modal with the result is open, unless a    *)
(* test is running.                                                        *)
FormOffered == tab = "tests" /\ ~isRunningTest
ResultModal == IF tab = "tests" /\ ~isRunningTest THEN {testResult} \ {NoTest} ELSE {}

(* The trace form, and the report below it with the details it opens.      *)
TraceOffered == tab = "trace" /\ ~traceRunning
TraceReport == IF tab = "trace" THEN {traceResult} \ {NoTest} ELSE {}

(* The header has a user to log out only with authentication enabled.      *)
LogoutOffered == tab # "none" /\ config.authEnabled

-----------------------------------------------------------------------------
(* The user.                                                               *)

(* TraceTest is unmounted when its tab is left: its state goes and its     *)
(* listeners, though still registered, change nothing any more.            *)
SelectTab(to) ==
    /\ tab # "none" /\ to # tab
    /\ tab' = to
    /\ IF tab = "trace"
         THEN traceRunning' = FALSE /\ traceResult' = NoTest /\ armed' = {}
         ELSE UNCHANGED <<traceRunning, traceResult, armed>>
    /\ UNCHANGED <<config, current, promise, isConnected, wsConnected, listening,
                   isRunningTest, testResult, server, link, inbox, drops>>

(* WebSocketService.startTest: without a connection the request is dropped *)
(* and the caller is not told.                                             *)
StartTest(t, k) ==
    IF isConnected
      THEN /\ kind' = [kind EXCEPT ![t] = k]
           /\ phase' = [phase EXCEPT ![t] = "sent"]
           /\ sock' = [sock EXCEPT ![t] = current]
           /\ cut' = cut
      ELSE UNCHANGED server

(* handleTestStart with a connection, as far as TestRunner knows.  The     *)
(* button is enabled again until test_started arrives.                     *)
SubmitForm(t) ==
    /\ FormOffered /\ wsConnected
    /\ phase[t] = "idle"
    /\ StartTest(t, "form")
    /\ UNCHANGED <<config, browser, shown, link, inbox, drops>>

(* handleTestStart without one creates a new socket and forgets the test;  *)
(* the old socket stays and keeps connecting.                              *)
Reinitialize ==
    /\ FormOffered /\ ~wsConnected
    /\ current < MaxSockets
    /\ current' = current + 1
    /\ link' = [link EXCEPT ![current + 1] = "connecting"]
    /\ promise' = [promise EXCEPT ![current + 1] = "pending"]
    /\ UNCHANGED <<config, isConnected, wsConnected, listening, armed, tab,
                   shown, server, inbox, drops>>

(* TestResults: Close and Run Again both only forget the result.           *)
CloseResult ==
    /\ ResultModal # {}
    /\ testResult' = NoTest
    /\ UNCHANGED <<config, browser, isRunningTest, traceRunning, traceResult,
                   server, link, inbox, drops>>

(* handleLogout, once the request is answered: TestRunner is unmounted and *)
(* its cleanup disconnects the service's socket; sockets before it stay.   *)
(* A connect() still pending speaks to an unmounted page from now on, and  *)
(* what waits for a connection is never sent.                              *)
Logout ==
    /\ LogoutOffered
    /\ tab' = "none"
    /\ link' = [link EXCEPT ![current] = "closed"]
    /\ isConnected' = FALSE /\ wsConnected' = FALSE
    /\ promise' = [s \in Sockets |-> IF promise[s] = "pending" THEN "settled"
                                     ELSE promise[s]]
    /\ listening' = {} /\ armed' = {}
    /\ isRunningTest' = FALSE /\ testResult' = NoTest
    /\ traceRunning' = FALSE /\ traceResult' = NoTest
    /\ Lose(current)
    /\ phase' = [t \in Tests |->
                   IF phase[t] = "sent" /\ sock[t] = current /\ t \notin cut
                      /\ link[current] # "up" THEN "lost" ELSE phase[t]]
    /\ UNCHANGED <<config, current, kind, sock, drops>>

(* After a login the page is mounted anew and connects a new socket.       *)
Mount ==
    /\ tab = "none" /\ current < MaxSockets
    /\ tab' = "other"
    /\ current' = current + 1
    /\ link' = [link EXCEPT ![current + 1] = "connecting"]
    /\ promise' = [promise EXCEPT ![current + 1] = "pending"]
    /\ UNCHANGED <<config, isConnected, wsConnected, listening, armed, shown,
                   server, inbox, drops>>

(* Mutant: the trace form does not ask for a user.                         *)
SubmitTraceAnyone(t) ==
    /\ TraceOffered
    /\ phase[t] = "idle"
    /\ traceRunning' = TRUE /\ traceResult' = NoTest
    /\ armed' = armed \cup {current}
    /\ StartTest(t, "trace")
    /\ UNCHANGED <<config, current, promise, isConnected, wsConnected, listening,
                   tab, isRunningTest, testResult, link, inbox, drops>>

(* TraceTest.handleSubmit; the effect that follows registers listeners     *)
(* that see isRunning on the socket of the moment.  Only with              *)
(* authentication enabled is there a user.                                 *)
SubmitTrace(t) ==
    /\ TraceOffered /\ config.authEnabled
    /\ phase[t] = "idle"
    /\ traceRunning' = TRUE /\ traceResult' = NoTest
    /\ armed' = armed \cup {current}
    /\ StartTest(t, "trace")
    /\ UNCHANGED <<config, current, promise, isConnected, wsConnected, listening,
                   tab, isRunningTest, testResult, link, inbox, drops>>

-----------------------------------------------------------------------------
(* The server.                                                             *)

(* emit: to the connection of the request, if it is still there.           *)
Emit(t, event) ==
    inbox' = IF t \in cut THEN inbox
             ELSE [inbox EXCEPT ![sock[t]] =
                     Append(@, [event |-> event, test |-> t])]

(* The request names no user unless the trace form found a session_id.     *)
Authorised(t) ==
    config.authEnabled => kind[t] = "trace" /\ config.sessionStored

(* The request has reached the server, on this connection or on the one    *)
(* that was lost.                                                          *)
Received(t) == phase[t] = "sent" /\ (t \in cut \/ link[sock[t]] = "up")

(* handle_start_test up to the request to the testServer.                  *)
Accept(t) ==
    /\ Received(t)
    /\ Authorised(t)
    /\ phase' = [phase EXCEPT ![t] = "running"]
    /\ Emit(t, "test_started")
    /\ UNCHANGED <<config, browser, shown, link, drops, kind, sock, cut>>

(* Not authorised, or parameters the browser let pass but the server does  *)
(* not.                                                                    *)
Refuse(t) ==
    /\ Received(t)
    /\ phase' = [phase EXCEPT ![t] =
                   IF Authorised(t) THEN "refused" ELSE "unauthorised"]
    /\ Emit(t, "error")
    /\ UNCHANGED <<config, browser, shown, link, drops, kind, sock, cut>>

(* Mutant: an unreachable testServer is only logged.                       *)
FinishSilently(t, outcome) ==
    /\ phase[t] = "running"
    /\ phase' = [phase EXCEPT ![t] = outcome]
    /\ IF outcome = "complete" THEN Emit(t, "test_complete") ELSE inbox' = inbox
    /\ UNCHANGED <<config, browser, shown, link, drops, kind, sock, cut>>

(* The testServer's answer, or the lack of one within the timeout, becomes *)
(* the outcome.                                                            *)
Finish(t, outcome) ==
    /\ phase[t] = "running"
    /\ phase' = [phase EXCEPT ![t] = outcome]
    /\ Emit(t, IF outcome = "complete" THEN "test_complete" ELSE "error")
    /\ UNCHANGED <<config, browser, shown, link, drops, kind, sock, cut>>

-----------------------------------------------------------------------------
(* Mutant: an error is shown but the run is not ended.                     *)
HandleErrorIgnored(s, e) ==
    IF s \notin listening \/ e.event = "error"
      THEN UNCHANGED <<isRunningTest, testResult>>
    ELSE CASE e.event = "test_started" ->
                 isRunningTest' = TRUE /\ testResult' = NoTest
           [] e.event = "test_complete" ->
                 isRunningTest' = FALSE /\ testResult' = e.test

(* TestRunner's listeners.                                                 *)
HandleInRunner(s, e) ==
    IF s \notin listening THEN UNCHANGED <<isRunningTest, testResult>>
    ELSE CASE e.event = "test_started" ->
                 isRunningTest' = TRUE /\ testResult' = NoTest
           [] e.event = "test_complete" ->
                 isRunningTest' = FALSE /\ testResult' = e.test
           [] e.event = "error" ->
                 isRunningTest' = FALSE /\ testResult' = testResult

(* TraceTest's: once registered by a run they stay, and act on the events  *)
(* of any test.                                                            *)
HandleInTrace(s, e) ==
    IF s \notin armed \/ e.event = "test_started"
      THEN UNCHANGED <<traceRunning, traceResult>>
      ELSE /\ traceRunning' = FALSE
           /\ traceResult' = IF e.event = "test_complete" THEN e.test
                             ELSE traceResult

(* The next event reaches the browser.                                     *)
Deliver(s) ==
    /\ link[s] = "up" /\ inbox[s] # <<>>
    /\ inbox' = [inbox EXCEPT ![s] = Tail(@)]
    /\ HandleInRunner(s, Head(inbox[s]))
    /\ HandleInTrace(s, Head(inbox[s]))
    /\ UNCHANGED <<config, browser, server, link, drops>>

Network == \E s \in Sockets : Connect(s) \/ ConnectError(s) \/ Drop(s) \/ Deliver(s)

User ==
    \/ \E to \in {"tests", "trace", "other"} : SelectTab(to)
    \/ \E t \in Tests : SubmitForm(t) \/ SubmitTrace(t)
    \/ Reinitialize \/ CloseResult \/ Logout \/ Mount

Handler(t) ==
    \/ Accept(t) \/ Refuse(t)
    \/ \E outcome \in {"complete", "failed"} : Finish(t, outcome)

Next == Network \/ User \/ \E t \in Tests : Handler(t)

Spec == Init /\ [][Next]_vars

(* socket.io keeps trying to connect and delivers in the end; every        *)
(* request to the testServer has a timeout, so every handler ends.         *)
Fairness ==
    /\ \A s \in Sockets : WF_vars(Connect(s)) /\ WF_vars(Deliver(s))
    /\ \A t \in Tests : WF_vars(Handler(t))

FairSpec == Spec /\ Fairness

-----------------------------------------------------------------------------
Outstanding(t) == t \notin cut /\ (phase[t] = "running" \/ Underway(t))

(* The page shows a running test only while the outcome of some test is    *)
(* still to come, unless the connection was lost in between: concurrent    *)
(* handlers and reordered terminal events never leave it running.          *)
RunningExplained == isRunningTest => cut # {} \/ \E t \in Tests : Outstanding(t)

(* A result on a tab is of a test that completed: no refused or failed    *)
(* test leaves one behind.  And the Trace tab never shows that of a form   *)
(* test, although its listeners take any test's: the two are never        *)
(* accepted by one server.                                                 *)
ResultIsItsTests ==
    /\ \A t \in {testResult, traceResult} \ {NoTest} : phase[t] = "complete"
    /\ \A t \in TraceReport : kind[t] = "trace"

(* As long as no connection was lost a running test ends on the page.      *)
RunEnds == (isRunningTest /\ cut = {}) ~> (~isRunningTest \/ cut # {})
=============================================================================
