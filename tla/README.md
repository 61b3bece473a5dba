# WaddlePerf: a TLA+ development

TLA+ models of the WaddlePerf network-performance platform, the TLC
configurations that check them on small instances, and TLAPS proofs of the
theorems that hold for every instance. Every definition is translated from the
source; `PROJECT.json` (`map`) names the lines each one stands for. Paths below
are relative to the root of the repository.

Run from this directory:

    tlc -workers 2 -config Clients.cfg MCClients       # one check, see section 4
    tlapm GoClientProofs.tla                           # one module of proofs

## 1. Inventory

### The parts

| Part | State it keeps | Operations | Talks to |
|---|---|---|---|
| `goClient` (Go desktop client) | scheduler: `isRunning`, `stopChan`, `ticker`, `lastRunTime`, two counters under one mutex; tray: `isSchedulerRunning`, status line | `Start`, `Stop`, `RunTests`, `UploadResult`, menu clicks, `onExit` | uploads to the manager; probes targets |
| `containerClient` (Python, asyncio) | access and refresh token, their expiry, a lock; the results of a round | `_login`, `_refresh_token`, `_upload_result`, `run_all_tests`, `run_scheduler` | authentication and results API; probes targets |
| `testServer` (Go) | nothing between requests but the `server_test_results` table | one handler per protocol, download and upload speed test, trace; `Shutdown` | clients; MySQL |
| `services/unified-api` (Quart) | users, roles, refresh-token and reset-token rows, organisations, devices, enrollment secrets | login, refresh, logout, reset, change; users and roles; device enrolment and heartbeat; live test stream | database through `penguin_dal` |
| `managerServer/api` (Flask, four gunicorn workers) | users, organization units (OUs), device enrollments, OU configurations, system configuration, results | enrolment with a secret, heartbeat, (de)activation, configuration and check-in, MFA, results | clients; MySQL |
| `webClient/api` (Flask-SocketIO) | login sessions; one connection per page | login, `start_test`, speed-test proxy | testServer; browser |
| `webClient/frontend` (React) | per page: progress, results, `isRunning`; one shared socket; the login, and its two tokens in the local storage all tabs share | forms, start, cancel, socket events, logout, 401 interceptor | webClient/api; testServer |
| `managerServer/frontend` (React) | a token and a user in local storage, shared by the tabs; an AuthContext per tab; per page: query, list, forms | sign in and out, routes, lists, changes, figures over results, 401 interceptor | managerServer/api |
| `database` | schema, unique keys, cascades, one migration | – | – |
| `infrastructure`, `k8s`, `scripts`, `docs`, `tests` | deployment, prose, end-to-end tests | – | – |
| `archive`, `shared/go_libs` | superseded code; a `go.mod` without code | – | – |

### How they interact

    tray menu ──clicks──▶ Scheduler ──spawns──▶ loop goroutine ──▶ RunTests ──HTTP──▶ manager
        └───────────"Run Tests Now", one goroutine each──────────────▲
    containerClient ──login/refresh, upload──▶ results API
    manager tab ──list, change──▶ managerServer/api      tabs ──local storage── tabs
    webClient page ──socket.io start_test──▶ webClient/api ──HTTP──▶ testServer ──▶ targets
                   ◀──test_started / test_complete / error, no ids──┘
    client ──POST /enroll, check-in──▶ managerServer/api or unified-api ──▶ one database

* **Shared memory**: only inside the Go client (one mutex, one wait group, one
  stop channel, an unsynchronised ticker) and in the Python container client
  (four coroutines over two token fields). The tabs of a browser share the local
  storage, which each tab's memory copies when it is loaded and then contradicts.
* **Messages**: HTTP with timeouts; socket.io events, ordered on one connection
  and lost with it.
* **Shared tables**: both APIs run several workers against one database. Every
  statement commits by itself and no request spans several statements with a
  transaction or a row lock. This is the main source of interleavings.

### What is hard, and what makes each part correct

| Part | Hard behaviour | Correctness |
|---|---|---|
| Go scheduler, tray | overlapping rounds; pause or quit during a round; ticker and stop channel shared by loops | counters exact; no result lost or uploaded twice; scheduled rounds do not overlap; a pause ends every loop whose round ends; quit always completes; *Monitoring* means that something is scheduled |
| container client | four loops that refresh and log in at once; no retry of an upload but after a 401 | an upload carries a token, and one issued since its result was measured if a request of its own was answered; the loops return |
| unified-api enrolment | check, insert and count in three statements; client retries | the counter is never ahead and exact without overlap; retries count once |
| unified-api sessions | login, refresh, change and reset overlap; statements fail one by one | revoked means revoked; a reset token works once for each time it was stored; an old password opens nothing |
| manager enrolment | two clients enrol one serial; secrets change between statements | a device stays in its unit; it records a secret of that unit |
| manager configuration | concurrent first writes, cascade on deletion | the configuration served is the one last written; it disappears only with its author |
| web test session | events without ids, connections that come and go, several tests in flight | *running* and the result shown are explained by a test of the server; a running test ends |
| speed tests | leaving a page, cancelling, restarting; a cancel between two requests | a cancelled test ends and shows nothing; a download shown is of the whole file |
| web test form | three validators of the same fields, in two languages and three programs | what the form lets pass the servers behind it accept, but for targets only the browser takes, and what runs is what was asked |
| logging in and out | logouts, refreshes and answers of an earlier login; tabs that share tokens | a login ends by a logout of its user, up to what other tabs do in it; a login that ended does not come back, but by a read torn by another login |
| manager pages | answers in any order; forms kept open while others are answered | the rows shown are of the page's query unless requests crossed; an update goes to the user whose data it is |
| testServer | handler, save and shutdown; clients that hang up; attempts that fail | a graceful stop loses no result that was measured; answer and row claim no success that was not |
| protocol testers | lost, late, duplicated and reordered replies | a round-trip time belongs to the probe it is reported for; loss lies between 0 and 100 % |
| users and roles | delete-then-insert with awaits between, failures half-way | an answered request decides the roles, up to those it overlapped |
| manager accounts | setup, verify, login, logout and deletion in any order | the factor asked for is one its user verified; a sign-out lasts |

`PROJECT.json` lists every component with its status, and 40 hazards at the
lines where they bite, each with the properties aimed at it or with the reason
why there is none.

## 2. Plan

The order is by importance: first what runs unattended and counts (the Go
client), then what is shared by many clients (enrolment, sessions,
configuration), then what a user looks at (the pages), then the measurements.

| Module | Models | Composes | State |
|---|---|---|---|
| `RunLedger` | abstract specification of a round of tests | – | done |
| `TestRuns` | `RunTests`, `UploadResult`, the receiving manager | implements `RunLedger` | done, proved |
| `GoScheduler` | tray menu, `Start`, `Stop`, loops, exit | extends `TestRuns` | done, proved |
| `UnifiedEnrollment` | enrolment in the unified API | – | done, proved |
| `WebTestSession` | TestRunner, TraceTest, the socket, logging out, `handle_start_test` | – | done, proved |
| `SpeedSession` | speed and download test pages: start, cancel, leave, return | – | done, proved |
| `TestForm` | the test form, its validators, and those of the two servers behind it | – | done, proved |
| `WebSession` | login and logout of the web client in several tabs, refresh on a 401 | – | done, proved |
| `ManagerSession` | login, tabs, routes and 401s of the manager's pages | – | done, proved |
| `ManagerPages` | lists, forms and changes of the manager's pages | – | done, proved |
| `TestReports` | the figures of Dashboard and Statistics | – | done, proved |
| `DeviceRegistry` | abstract specification of enrolment at the manager | – | done |
| `ManagerEnrollment` | enrolment at the manager | implements `DeviceRegistry` | done, proved |
| `ManagerConfig` | OU and default configurations | – | done, proved |
| `AuthTokens` | sessions and passwords of the unified API | – | done, proved |
| `Probes` | the UDP and ICMP trains of the container client over a network that loses, delays, duplicates and reorders | – | done, proved |
| `ContainerClient` | the four loops, their shared tokens and uploads | – | done, proved |
| `TestServer` | the handlers, the testers' verdicts on their attempts, saving, transfers, hanging up, shutdown with its deadline | – | done, proved |
| `UserRoles` | users and their roles in the unified API | – | done, proved |
| `ManagerAccounts` | login, second factor, logout and deletion of users at the manager | – | done, proved |

*Proved* means every safety property of the module, its type invariant included.

The abstract specifications are `RunLedger` (what a round promises; `LedgerSpec` is
its image in `TestRuns`) and `DeviceRegistry` (what enrolment promises;
`RegistrySpec` is its image in `ManagerEnrollment`). The project keeps to twelve TLC
runs, so that all of it can be checked in one go. Modules that share no state are therefore explored by
one run: `MCClients` holds `TestRuns`, `Probes` and `ContainerClient`,
`MCServers` holds `UnifiedEnrollment`, `TestServer`, `UserRoles` and
`ManagerAccounts`, `MCManagerApi` holds `ManagerEnrollment`, `ManagerConfig` and
`ManagerSession`, `MCFrontends` the other six parts of the two frontends. The variable
`part` says which of them a
behaviour is of, the others stay in one of their initial states: the run explores
the sum of the parts, not their product, which would show nothing more.

## 3. Modules and code

One action per statement that other processes can tell apart: a database
statement, a message, a lock, the start or end of a goroutine. What runs between
two of these without being observed is one action. Each module's header says
what it leaves out. Variables marked *history* are read by properties only.

**TestRuns** (`goClient/internal/scheduler/scheduler.go`,
`internal/uploader/uploader.go`). `phase[r]` is where call `r` of `RunTests` is;
`testing[r]` the test goroutines that have not called `wg.Done`; `results[r]` the
slice under `resultsMu`; `mu`, `successCount`, `failureCount`, `lastRun` the
scheduler's fields. `Begin` is the call up to the spawning of the goroutines,
`TestDone` the append and `wg.Done` of one, `AllTested` the return of `wg.Wait`,
`Send`/`UploadReturns` the POST, and `LockCounter`/`Increment` the two halves of
`successCount++` so that a lost update would be seen. `wire`, `stored` and
`Record` are the manager (`services/unified-api/routes/tests.py`): it may record an
upload late, also after the 30 s timeout, or never. `Unbounded` are the targets of
SSH tests: `ssh.Dial` (`internal/protocols/tcp.go:124-130`) bounds the TCP
connection only, so a silent peer may hold the handshake, and with it `wg.Wait`,
for ever.

**GoScheduler** (`internal/tray/tray.go`, `scheduler.go`) extends `TestRuns`:
`ClientRunStep` and `ManagerRecords` are its steps with the rest unchanged, and
`Call` is its `Begin` on behalf of the loop, the start-up or the menu. Each click
is an action; `Start` is split where it blocks (`StartLocked`, `StartupRun`,
`StartupDone`, `Arm`). `ticker`, `loop` and `waitsOn` keep the data race on
`s.ticker`: a loop may read any ticker made since its own (`SeenTicker`). A
closed channel closed again is `app = "panicked"`.

**UnifiedEnrollment** (`services/unified-api/services/device_service.py`).
`Lookup`, `Insert`, `Count`, `Answer` are the four statements of `enroll_device`;
`seen[q]` is `current_uses` as its SELECT returned it. `CreateSecret`, `Expire`,
`Delete` and `Abort` are the other routes, time, and failure between statements.
History: `enrolled`, `undisturbed`.

**WebTestSession** (`webClient/frontend/src/components/TestRunner.tsx`,
`TraceTest.tsx`, `services/websocket.ts`, `App.tsx`, `webClient/api/app.py`). `link`,
`promise`, `isConnected` and `wsConnected` are the four ideas of "connected" the
code has; `listening` and `armed` the sockets on which the two components'
listeners are registered; `inbox` the events on their way, in order. `Connect`,
`ConnectError`, `Drop`, `Deliver` are the network, `SubmitForm`, `SubmitTrace`,
`CloseResult`, `Reinitialize`, `SelectTab`, `Logout` (which unmounts the page and
closes the socket of the moment) and `Mount` the user, `Accept`, `Refuse`, `Finish`
the handler. History: `cut`, the tests some event of which was lost with its
connection.

**SpeedSession** (`components/SpeedTest.tsx`, `DownloadTest.tsx`). Each visit of a
tab is a mount with a state of its own, since the run of a page that was left goes
on: `doing[i]` is what the run of mount `i` awaits. `ShowTest` and `ShowOther`
select tabs, `RunSpeedTest`, `RunDownloadTest`, `Cancel` and `CloseModal` are the
buttons a page offers in its state, `PingEnds`, `GapEnds` (the pause between two
pings), `StreamEnds`, `DownloadEnds`, `UploadEnds`, `ChunkArrives` and `ChunkFails`
the continuations of the awaits. History: `cancelled`.

**TestForm** (`components/TestForm.tsx`, `utils/validation.ts`,
`webClient/api/app.py`, `testServer/internal`). `form` holds the fields,
`handleTestTypeChange` and `Edit` change them as far as they are offered,
`handleSubmit` validates and sends, `handle_start_test` validates again and copies
field by field, `RunTest` validates once more and runs. Targets and host names are
classes, numbers are numbers. Two classes are targets only the browser takes: what
`new URL` accepts or repairs and `url.Parse` or the host pattern of `validation.go`
refuses (a percent sign that escapes nothing, a name for punycode), and names in
169.254. that are no IP addresses (an IP address, link-local or not, is accepted at
`validation.go:127-130`). `stage` says where the request is, `request` what
the next program will read.

**WebSession** (`App.tsx`, `components/Login.tsx`, `services/api.ts`). A token is
named by the login that got it; a login's answer may bring both tokens or neither,
and a user or none. Each tab has an App (`session[t]`) and all share `access` and
`refresh`. A handler that writes both is in `task[t]` between the two `Write`s,
where other tabs may act. `CheckAuth`, `Login`, `Reload` and `ClickLogout` are what
App and the user do; `LogoutAnswered`, `LogoutUnauthorised` and `RefreshAnswered`
the continuations of a logout request, the interceptor's refresh and second attempt
included. History: `doubled`, `met`.

**ManagerSession** (`managerServer/frontend/src/contexts/AuthContext.tsx`,
`App.tsx`, `services/api.ts`, `pages/Login.tsx`, `components`). `context[t]` is the
AuthContext of tab `t`, `authToken` and `storedUser` the local storage all tabs
share, `route[t]` the page shown, after the redirects of `ProtectedRoute`. The two
items are read (`ReadToken`, `ReadUser`), written (`onSuccess`, `StoreUser`) and
removed (`RemoveToken`, `RemoveUser`) one by one; `doing[t]` is the handler a tab is
in the middle of. Requests of a tab in flight outlive the page that sent them.
History: `ended`, `crossed`, and the field `torn` of `doing[t]`.

**ManagerPages** (`managerServer/frontend/src/pages`). One page is mounted;
`query` is what it asks for, `flying` the list requests in flight by the query each
is for, `sent` the changes in flight, each with the user it is for and the user
whose data it holds. Lists, pagers, filters, forms and modals are separate
operators, because each offers its own acts. History: `failed`, `raced`, `changed`.

**TestReports** (`pages/Dashboard.tsx`, `Statistics.tsx`). Both pages compute
averages and success rates from the same results, with different limits and
filters; `DashboardReport` and `StatisticsReport` are the two computations,
rounding included; `Kept` is `Array.filter`.

**ManagerEnrollment** (`managerServer/api/routes/enrollment.py`, `devices.py`).
`FindSecret`, `FindDevice`, `Touch` (a known device), `Insert` and `Answer` (a new
one) are the statements of `enroll_device`; the unique key of `device_serial` is
in `Insert`. Of the registry it implements, a request is admitted where its secret is
found, a device is enrolled where its row is inserted, and who is told its unit is
told where the answer is made, from the row found or read back.

**ManagerConfig** (`routes/enrollment.py`, `routes/users.py`,
`database/schema.sql`). A row of `client_configs` is a record of the PUT that made
it, the data and the author; `Find`, `Create`, `Update`, `Acknowledge` are the
statements of a PUT, `DeleteUser` cascades, `Served` is the check-in. History:
`last`, `raced`.

**AuthTokens** (`services/unified-api/services/auth_service.py`,
`routes/auth.py`). `pc[q]` is the next statement of request `q`. A row of a token is
named by the request that inserted it, and `token[q]` is the token it holds: a new
one, or one made for the same user and purpose in the same second (`Generate`),
since `_generate_jwt` depends on nothing else. `CheckReset` finds a row of the token
it is given, and `Mark` updates that row (`row[q]`) only. A password is named by the
request that set it: each is one the user never had.
History: `before` (what a client can know of the order), `older`, `skipped`.

**Probes** (`containerClient/tests/udp_test.py`, `icmp_test.py`, `client.py`).
`kind` says which of the two loops of `client.py` runs; `test` is its target,
`packet` the packet sent last or next, `buffer` the socket's queue. `Open` is the
start of a test, `SendProbe` the `sock_sendto`, `TakeDatagram`, `TakeEchoReply`,
`SkipMessage` what the code does with what `sock_recvfrom` returns, `Timeout` the
end of `wait_for`; `SendFails` and `ReceiveFails` are the `except` clauses. The
network is `Arrive`, `ArriveForeign`, `Quieten`: a reply is lost when it never
arrives, or arrives where nobody listens. History: `copies`.

**ContainerClient** (`containerClient/client.py`). `at[l]` is the await loop `l`
stands at; what runs between two awaits is one step, since the loops are
coroutines. `LoopTestDone` ends a test and starts the upload, `EnsureAuthenticated`
takes `tokenLock`, `Answered` and `Refused` are the two outcomes of every request,
`UploadOver` goes on to the next target, `NextRound` is `run_scheduler`. A token is
named by its place in the order of issue, so that "older" is "less"; `issued` and
`response` are the API's. History, in `upload[l]`: `began` (the newest token when
the upload began), `renewed` (one was issued for it).

**TestServer** (`testServer/cmd/testserver/main.go`, `internal/handlers`, `auth`,
`database`, `protocols`). `handling[c]` is where the goroutine of call `c` is:
`Receive` routes it, `Admit` and `Refuse` are the lookup of the credentials and the
validation, `Attempt` one attempt of a tester, `Fail` and `Conclude` its return,
`Save` and `SaveFails` the INSERT, `Respond` the answer or the transfer. `HangUp` is
the client that gives up or the write timeout, which no handler looks at. `Signal`,
`StopGracefully` and `ForcedEnd` are `main`; `Exit` cuts the handlers still running.
`Success` and `Timed` are the verdicts, one operator per tester, over the outcomes
of the attempts in `tried[c]`. History: `saveErrors`.

**UserRoles** (`services/unified-api/services/user_service.py`). `serving[q]` is the
next statement of request `q`: `Check`, `InsertUser`, `UpdateUser`, `ClearRoles`,
`AssignRole` (one INSERT), `ReadBack` and `EraseUser` are the statements, `Raise` the
`except` that leaves what was done. A row of `auth_user_role` carries the request
that inserted it. History: `servedBefore`, the requests that were over when one began.

**ManagerAccounts** (`managerServer/api/routes/auth.py`, `users.py`). `mfaSecret` and
`mfaEnabled` are the two columns, `jwt` the table of tokens; `CheckCredentials` and
`StoreToken` are `login`, `RevokeToken` `logout`, `Authorise` `get_user_from_token`,
`FindUser` the SELECT of every other route, and `SetUp`, `Enable`, `SetActive`,
`SetPassword`, `RemoveUser` what each writes then. A secret is named by the setup that
drew it, a code by its secret. History: `overBefore`.

Operators commented *Mutant* are plausible bugs of the definition that follows
them. No specification uses them: each run is repeated with one of them in the
place of the definition, to see the property it is aimed at fail.

## 4. What is checked

| Run (`.cfg`, module) | Properties | What it shows | Instance and states |
|---|---|---|---|
| `clients` (`Clients`, `MCClients`) | `CountersExact`, `ManagerAgrees`, `EveryRunReturns`, `LedgerSpec`; `OwnReply`, `CountedOnce`, `RoundEnds`; `UploadIsFresh`, `LoopsReturn` | overlapping rounds neither lose nor repeat a result and refine the ledger; when a latency may be that of another probe, and no reply counts more often than it came; no upload carries a stale token, and rounds and loops end | 2 runs × 2 targets, one of SSH; 2 tests × 2 packets, 2 copies, 2 buffered; 2 loops, one of them endless, with 2 and 1 targets, 6 tokens; 388 thousand |
| `go_scheduler_safety` (`GoSchedulerSafety`, `MCGoScheduler`) | `MenuAgreesWithScheduler`, `ScheduledRunsSerial` | any order of clicks, ticks and rounds | 2 runs, 1 target, symmetry; 2.2 million |
| `go_scheduler_live` (`GoSchedulerLive`) | `PauseEndsLoops`, `QuitCompletes` | a pause ends all loops but one held up by an SSH test, quit completes | 1 run, 2 targets, one of SSH; 301 thousand |
| `go_scheduler_resume` (`GoSchedulerResume`) | `MonitoringHasLoop` **violated** | finding 1 | 2 runs, 1 target |
| `servers` (`Servers`, `MCServers`) | `UsesNotAhead`, `ExactIfUndisturbed`, `RetriesCountedOnce`; `GracefulStopLosesNothing`, `ResultsAreHonest`; `RolesAsAsked`; `EnabledWasVerified`, `LoginNeedsCode` | what survives overlapping enrolments, retries, deletions and failures; what the testServer answers and its table says, and that stopping it loses nothing; whose roles a user has; which factor a login brings | 3 requests, 2 secrets, 1 chosen device id, limit 1; 2 calls of every kind, up to 2 attempts; 2 requests, 1 user and 1 to be created, 2 roles; 3 requests, 1 account; 1.5 million |
| `unified_enrollment_max_uses` (`UnifiedEnrollmentMaxUses`, `UnifiedEnrollment`) | `MaxUsesRespected` **violated** | finding 2 | 2 requests, 1 secret |
| `manager_api` (`ManagerApi`, `MCManagerApi`) | `RegistrySpec`; `SerialUpdatesServed`, `LostWithAuthor`; `EndedStaysOut` | concurrent enrolments of one serial are those of an atomic registry; PUTs of configurations, failures, deletions; tabs that share a login item by item | 3 requests, 2 secrets, 2 serials, 2 units; 3 PUTs, 2 administrators; 2 tabs, 2 logins; symmetry; 357 thousand |
| `auth_tokens_safety` (`AuthTokensSafety`, `MCAuthTokens`) | `RevocationHolds`, `ResetTokenOnce`, `OldPasswordRefused` | sessions, reset tokens and passwords under any overlap and failure, also when two requests get the same token | 4 requests, 2 users; 2.2 million |
| `frontends` (`Frontends`, `MCFrontends`) | `RunningExplained`, `ResultIsItsTests`, `RunEnds`; `CancelledShowsNothing`, `DownloadIsWhole`, `CancelEnds`; `AcceptedDownstream`, `RequestFitsType`; `LoginEndsByItsUser`; `RowsAreAskedFor`, `UpdateIsOfItsUser`; `ReportsAgree` | what a page shows is explained by a test of the server, and a running test ends; cancelled tests; on what the validators agree; logouts meet late answers in tabs that share tokens; answers of a page cross; two pages agree on the same results | see below; 371 thousand |
| `dns_query` (`DnsQuery`, `MCTestForm`) | `ResolvesTheQuery` **violated** | finding 4 | the form's part of `frontends` |
| `manager_login` (`ManagerLogin`, `MCManagerSession`) | `LoginShowsDashboard` **violated** | finding 5 | 1 tab, 1 sign-in |
| `probes_schedule` (`ProbesSchedule`, `MCProbes`) | `ScheduleGoesOn` **violated** | finding 3 | 1 test, 2 packets, 1 copy |

The type invariants are proved (section 6) and are not part of the runs, and so are
`EveryTargetCounted` (which `LedgerSpec` implies), `AnswersStayTrue` (which
`RegistrySpec` implies), `RevokedForAReason`, `SecretOfUnit`, `SignedOutStaysOut`,
`MonitoredUntilStopped`, `StepsCounted` and `RoundsCountDown`.

`CHECK_DEADLOCK FALSE` is in every configuration because each bounds the number
of requests, runs, tests or clicks: a behaviour that has used them up stops.

### Why the bounds are enough

* **TestRuns**: two calls are the least that can contend for the counters, two
  targets the least whose results can be collected in two orders and uploaded
  while one of them is late. The theorems of section 6 hold for any number.
* **GoScheduler**: two runs let a manual round overlap a scheduled one, which is
  the least `ScheduledRunsSerial` needs. `Loops` is 1..2 because a third loop
  cannot exist: the second `Stop` panics. Liveness needs one run: what could
  keep a loop or `onExit` waiting is a round in progress, and rounds differ
  only in their owner; its two targets are one that ends and one that may not.
  Safety is proved for any number of runs and targets.
* **UnifiedEnrollment**: an overlap takes two requests, a third can then come
  after both; one client-chosen id is enough for retries, random ids are named
  by their request. A limit of 0 (none) or 1 meets both branches of the check.
* **TestServer**: of two calls one can be over while the other is at any point when
  the server stops; two attempts tell the first from the last and one success from
  all. Proved for any number.
* **UserRoles**: two requests overlap, or one follows the other, and two roles can be
  half replaced. Proved for any number.
* **ManagerAccounts**: setup, verify and login are three requests; their codes and
  columns are those of one account, accounts share nothing. Proved for any number.
* **WebTestSession**: two tests are the least for one test's event to end
  another; a second socket lets a page log out and come back, and one lost
  connection separates a test from its events and is made again. The safety
  properties are proved for any number.
* **SpeedSession**: two mounts let a run that was left go on beside a new one; two
  pings have a gap between them, two streams an order of their ends, two chunks a
  first and a last. Proved for any number.
* **TestForm**: the numbers are those on either side of each limit the validators
  have (65535 ports, 300 seconds, 1000 probes), the values the code names, and
  nothing in between, where no validator tells two apart. Proved for all.
* **WebSession**: two tabs, two logins and two clicks: a logout of the first login
  that meets the second, in its own tab or in another, or is doubled. Proved for any
  number.
* **ManagerSession**: two tabs, two logins (one of an administrator, one not), a
  sign-out in flight in each tab: one tab stores, reads or removes while the other is
  between two items. Proved for any number.
* **ManagerPages**: two rows, two filters and two pages for one answer to be for
  another query than the one shown, five clicks, which is two more than the
  longest chain a property speaks of (open a form, send it, open another). Proved
  for any number.
* **TestReports**: two results of two devices and two types, a latency of zero and
  a missing one, a success and a failure, and charts cut below and above the
  number of results. Proved for any number, and for any latencies.
* **ManagerEnrollment**, **ManagerConfig**: two of each kind, and one request
  more than an overlap takes. Proved for any number.
* **AuthTokens**: every property relates at most four requests (login, refresh,
  the revoker, and what the revoker needs). Proved for any number.
* **Probes**: a second packet can take the first one's late reply, a second test
  the first one's. Two copies tell a duplicate from a delay, a buffer of two
  lets replies queue in either order. The safety properties are proved for any number.
* **ContainerClient**: two loops are the least that refresh or log in at once; a
  second target lets one upload begin while another's refresh is under way. An
  upload has at most three tokens issued to it (login, refresh, login again), so
  six let two uploads overlap in every way. Proved for any number.

Symmetry is used for safety runs only, over constants that are not compared with
anything but each other.

### Fairness

* `ClientsFairness`: weak fairness of the clients' own steps. In a round of the Go
  client the upload has a timeout (30 s), the mutex is never held across a blocking
  call, and each measurement has a timeout but those in `Unbounded`: the timeout of
  `ssh.Dial` bounds the connection, not the handshake, so an SSH test may end or hang
  (`BoundedStep` leaves its end out). `EveryRunReturns` says that a hanging one is the
  only thing that can hold a round, which has by then collected every other result
  and uploads none of them. A probe's event loop resumes a coroutine whose datagram is
  there, and fires a timer nothing has reset. Each request of the container client
  has a timeout of 30 s (`LoopStep`), and each test ends (`LoopTestDone`), but for
  the loops in `Endless`: finding 3 shows that a ping may not. Nothing is assumed of
  the manager (`Record`), of the network, or of calls that raise.
* `GoScheduler!FairSpec`: weak fairness of the goroutines' steps, without the ends
  of SSH tests as above; strong fairness
  of `LoopEnd`, because `select` chooses at random among ready cases, so a closed
  stop channel is chosen sooner or later though ticks keep arriving. A loop whose
  round is held up by an SSH test does not see the stop channel, which
  `PauseEndsLoops` excepts, and the menu stays blocked where that round is the
  start-up's; `QuitCompletes` holds all the same. Nothing is
  assumed of the user (clicks), the clock (`Fire`) or the manager.
* `FrontendsFairness`: weak fairness of `Connect` (socket.io reconnects without
  end), of `Deliver`, of handlers (each request to the testServer has a timeout) and
  of `GapEnds` (a timer of the browser). `Drop` and `ConnectError` remain possible;
  the servers of the speed test, the network and the user owe nothing.
* The other specifications state safety only and need no fairness.

## 5. Findings

1. **Resume schedules nothing** (`MonitoringHasLoop`). `stopChan` is made once in
   `NewScheduler` and closed by `Stop`: after Pause and Resume the new loop finds
   it closed and returns while the menu says *Monitoring*, and the next Stop
   (pause or quit) closes it again and panics. `goClient/internal/tray/tray.go:68`:
   "Pause/Resume scheduled tests".
2. **max_uses can be exceeded** (`MaxUsesRespected`). `enroll_device` checks and
   counts on a row read before two awaits: two overlapping enrolments both use a
   secret with `max_uses` 1. `services/unified-api/routes/devices.py:155`:
   "max_uses: Maximum number of uses".
3. **A ping may never end** (`ScheduleGoesOn`). `_ping_once` puts its timeout
   around each receive of a loop that skips other ICMP messages: where these
   arrive more often than every five seconds an unanswered ping, its round and
   the schedule stand still. `containerClient/README.md:24`: "Run with scheduler
   (every 90 seconds)".
4. **A DNS test resolves another name** (`ResolvesTheQuery`). `handle_start_test`
   (`webClient/api/app.py:456-467`) copies the request field by field and `query` is
   not among the fields, so the testServer resolves a name of its own.
   `docs/USAGE.md:435`: "**DNS Query**: Hostname to resolve (if protocol=dns)".
5. **A login shows the login page again** (`LoginShowsDashboard`). `Login.tsx:27-29`
   stores token and user and navigates, without telling the AuthContext, which reads
   the storage only when the page is loaded: `ProtectedRoute` finds nobody signed in.
   `docs/USAGE.md:71`: "After successful login, you'll see the dashboard with system
   statistics."

Next to these stands what *does* hold: `MonitoredUntilStopped`, `PauseEndsLoops`,
`ExactIfUndisturbed`, `RoundEnds` and `RequestFitsType` say under which conditions a
promise is kept or which part of it is, `UsesNotAhead` and `RetriesCountedOnce` what
is kept always.

Some properties are no stronger because the code keeps no more. `SerialUpdatesServed`
speaks of configurations whose PUTs never overlapped: two that both find no row insert
one each, and the check-in serves either. `RevocationHolds` speaks of the sessions
stored before the revocation: a login that verified the old password may store its
refresh token after it, or store the very token that was revoked if both logins are of
one second. `ResetTokenOnce` counts rows for the same reason: forgot-password called
twice in one second stores one token in two rows, a reset marks one of them, and the
token sets a password twice. `RolesAsAsked`, `EnabledWasVerified` and
`SerialUpdatesServed` except exactly what their hazards are about, the overlaps, which
the code leaves open; they say that nothing else has the same effect.
`AcceptedDownstream` excepts the targets only the browser takes, and says that none of
these is ever tested.

Likewise several properties of the pages are conditional, because nothing correlates a
request with its answer: `RunningExplained` and `RunEnds` on events not lost,
`LoginEndsByItsUser` on Logout not being clicked twice and on no other tab being at work
in the login (a logout in one tab removes the tokens of another's login),
`EndedStaysOut` on no login being stored while a tab reads the two items, or while
another login is (else a tab is signed in by the token of one and the user of the
other), `RowsAreAskedFor` on list requests that neither cross nor fail. The histories
`cut`, `doubled`, `met`, `torn`, `crossed`, `failed` and `raced` name these conditions;
without any one of them TLC finds a counterexample.

`ResultsAreHonest` leaves open what a test is whose attempts succeed in part, since the
testers differ: one success is enough for UDP and ping, the last attempt decides for TCP
and the last answer for HTTP; and a test without any is a row for TCP and HTTP but an
error without a row for the others.

## 6. What is proved

Eight modules of proofs, each extending the modules it is about. The assumptions
are those the modules state and TLC evaluates: `RunsAssumption` (finitely many
runs and targets, a null that is no run), `EnrollmentAssumption` (finitely many
requests, a natural limit), `ServerAssumption`, `ManagerAssumption`, `ConfigAssumption`,
`AuthAssumption`, `ContainerAssumption`, `SessionAssumption`, `PagesAssumption`,
`RolesAssumption`, `AccountsAssumption` (the users there are at first are not named
like requests), `ReportsAssumption` (nulls that are no values, numbers that are numbers),
`ProbesAssumption`, `SpeedAssumption`, `WebSessionAssumption`,
`ManagerSessionAssumption` (numbers) and `FormAssumption` (the values the code names
are among the constants). Nothing else is assumed.

| Theorems (module) | Argument |
|---|---|
| `RunsTypeCorrect`, `CountersCorrect`, `CountedCorrect`, `ManagerCorrect` (`GoClientProofs`) | `IInv` below is inductive; each property follows from it |
| `Refinement`: `RunsSpec => LedgerSpec` | every step is a ledger step or a stutter (`LedgerStep`, `StutterStep`), under `IInv` |
| `CountDown` (`GoClientProofs`) | each step of a call takes one from `StepsLeft`, no other step changes it |
| `ClientTypes`, `MenuCorrect`, `SerialCorrect`, `MonitoredCorrect` (`GoClientProofs`, of `GoScheduler`) | `ClientInv`, and with it `LoopInv`, below are inductive |
| `ClientRounds`: `Spec => RunsSpec`, and `ClientLedger` | every step of the client is a step of its rounds or a stutter, so the theorems about `TestRuns` hold of the whole client |
| `TypeCorrect`, `NotAhead`, `Exact`, `CountedOnce` (`ServersProofs`, of `UnifiedEnrollment`) | as above, with cardinalities of the sets of enrolled requests |
| `ServerTypes`, `StopCorrect`, `ResultsCorrect` (`ServersProofs`, of `TestServer`) | there is no report before a test returns, afterwards it is saved or logged, and only a forced end cuts |
| `RolesTypes`, `RolesCorrect` (`ServersProofs`, of `UserRoles`) | a request past its DELETE has seen every earlier row go, and what it inserted is taken by a request it does not follow only |
| `AccountsTypes`, `FactorWasShown`, `LoginBringsCode`, `SignOutLasts` (`ServersProofs`, of `ManagerAccounts`) | a comparison outlives its row only where a setup overlaps it; a token becomes live only when its login stores it |
| `TypeCorrect`, `StayTrue`, `UnitOfSecret` (`ManagerEnrollmentProofs`) | `Permanence`: an enrolled device keeps unit and secret, a secret its unit |
| `RegistryRefined`: `Spec => RegistrySpec`, and `UnitsOffered` (`ManagerEnrollmentProofs`) | every statement is a step of the registry or a stutter (`RegistryStep`); what is invariant in the registry is so in its implementation |
| `TypeCorrect`, `SerialServed`, `OnlyLostWithAuthor` (`ManagerConfigProofs`) | sets of rows with at most one member stay so while a target is not raced |
| `TypeCorrect`, `OwnReplyCorrect`, `CountedCorrect` (`ContainerClientProofs`, of `Probes`) | cardinalities: what was taken, what waits and what flies of a reply is at most its copies |
| `ContainerTypes`, `FreshCorrect` (`ContainerClientProofs`) | no answer under way can put back a token older than the beginning of an upload that was issued one |
| `TestTypes`, `RunningCorrect`, `ResultCorrect` (`WebClientProofs`) | every event on its way is of a test that stands where the event says, so what ends or shows a test is explained by one |
| `SpeedTypes`, `CancelledCorrect`, `DownloadCorrect` (`WebClientProofs`) | a run that goes on after its cancel stands between two pings |
| `LoginTypes`, `LoginEnds` (`WebClientProofs`) | until Logout is clicked twice in a tab, one request of it at most is in flight, of the login signed in there; a login that nobody asked to end and no other tab is at work in keeps its tokens |
| `AcceptedCorrect`, `FitsCorrect` (`WebClientProofs`) | a request under way passed the form's validators, which imply the servers' but for the targets only the browser takes |
| `SessionTypes`, `EndedOut` (`ManagerFrontendProofs`) | a stored user is of the login whose token is stored, and not of one that ended, while no other login is being stored |
| `ReportsTypes`, `ReportsCorrect` (`ManagerFrontendProofs`, of `TestReports`) | the bars of a chart add up to its results (`SumOfCounts`), rounding keeps the bounds (`RoundedBounds`, `PercentAndTenths`), and what is cut shorter is a prefix (`FirstIsPrefix`) |
| `PagesTypes`, `RowsCorrect`, `UpdateCorrect` (`ManagerFrontendProofs`) | until two list requests cross, the one in flight is for the query of the page; a form's data is that of its user |
| `TypeCorrect`, `RevocationCorrect`, `ResetOnce`, `RevokedWithReason`, `OldRefused` (`AuthTokensProofs`) | one invariant per property, and frame lemmas (`StepsKeep`) |

The properties are not inductive by themselves; the strengthenings say why they
hold:

* `TestRuns`: `MutexInv` (the holder of `mu` is the one call between `LockCounter`
  and `Increment`, and its `read` is the counter's value), `CollectInv` (the slice
  has each finished target once), `ProgressInv` (`next` never passes the end by
  more than one), `TallyInv` (exactly the results before `next` are tallied),
  `StoreInv` (a result is on the wire or stored, once, only after it was sent),
  `VerdictInv` (a positive verdict means stored), and `CountersExact`. Without
  `MutexInv` the store half of an increment could write a stale value.
* `GoScheduler`: `MenuInv` (how often `Start` armed a ticker follows from the menu's
  flag and the stop channel: a pause that does not panic closes the channel for the
  first time, so a third start is impossible) and `CallInv` (the menu waits for the
  start-up round and each loop for its own, so none has two in progress). `LoopInv`: a
  loop that was started lives on while neither the stop channel nor the context is
  closed, and only leaving closes the context.
* `UnifiedEnrollment`: `KnownInv` (a request past the check has a known secret),
  `SeenInv` (what a request read is less than what is enrolled by the time it
  writes), `DistinctInv` (devices in the table have different ids) and `ExactInv`
  (an undisturbed secret has at most one request pending, and read the counter as
  it still is).
* `TestServer`: `ProgressOf` (no report before the test returns; past saving, a report
  is in the table or the log), `ReportOf` (a report is what its tester makes of all
  attempts of its call, of which there was one), `RowFits` (a row is what its handler
  makes of the report of its call) and `StopInv` (handlers are cut off by a forced end
  only).
* `UserRoles`: `RowInv` (a row has its user and was inserted by a request about it),
  `BeforeOf` (what was over is over), `ClearedOf` and `InsertedOf` (the two halves of
  `RolesAsAsked`, from the DELETE on).
* `ManagerAccounts`: `ComparedOf` (a verify that compared its code did so with the
  secret there is, or overlaps the setup that drew this), `HeldOf` (unless set up
  again, the factor stays the one verified), `CodeOf`, `TokenOf` (a stored token was
  answered by its login, and none is left of a deleted user), `SignedOutOf` and
  `Carried` (what `SignedOutStaysOut` says, from the check of the token on).
* `ManagerEnrollment`: `ReadInv` (the unit read from a device is still its unit, and a
  secret that was found is known). The refinement needs it where an answer is made
  from a row read some statements before.
* `ManagerConfig`: `SerialInv` (of a target not raced: at most one row, at most
  one pending PUT, the row's data is `last`) and `AuthorInv` (the last author of a
  configuration is gone, or a row is still his).
* `Probes`: `ConservedInv` (credits, places in the socket and copies in flight of a
  reply sum to at most its copies, so a reply credited *and* waiting came twice),
  `SentInv` (only probes that were sent have replies or credits), `MatchInv` (what
  the port, or the sequence number, guarantees of a datagram taken). An
  explanation by `OwnReply` lasts because it speaks of finished probes only.
* `ContainerClient`: `PastInv` (nobody is past the lock before there is a token, and
  who logs in under it finds none) and `RenewedInv` (an answer on its way carries a
  token newer than the beginning of its upload; and while an upload that was issued
  one asks again, neither the token stored nor one on its way to any loop is older
  than that upload). Without the first, a login under the lock could undo a refresh.
* `WebTestSession`: `EventInv` (an event in an inbox is of a test sent on that socket
  that is at least as far, and the start of a test that is over is followed by its
  end), `RunInv` (a page that runs, with nothing lost, will hear the outcome of some
  test), `ResultInv` (only authorised tests run, a result shown is of a test that
  completed).
* `SpeedSession`: `RunOf` (how streams, pings and chunks relate to the phase) and
  `CancelOf` (of a run cancelled and still going: no request in flight, no result).
* `WebSession`: `TabInv` (until Logout is clicked twice in a tab at most one request of
  it is in flight, of the login signed in there) and `TokenInv` (of a login that is
  `Safe`, because nobody asked to end it and no other tab is at work in it, no request
  is in flight, and both items are its own or a later login's, or are still to be
  written).
* `TestForm`: the fields fit the type, and a request past the form passed it.
* `ManagerSession`: `StoringInv` and `ClearInv` (where the handlers of the tabs are
  between two items), `PairInv` (the stored token is of the stored user, of no user or
  of the one login being stored, and a user that is stored with his token is not over,
  unless two logins were stored at a time) and `ReadInv` (what a tab that has read the
  token is about to read).
* `ManagerPages`: `FlightInv` (requests cross only where they can, and a page none of
  whose requests crossed has at most one in flight, for its query) and `EditInv` (the
  edit form holds the data of the user it is open for).
* `AuthTokens`: `RequestInv` (what a request's position says of what it did),
  `TokenInv` (a token is that of a row of its user and purpose, and a reset stands on
  a row of the token it presents), `RevokeInv` and `HonourInv` (after an unskipped
  revocation no row that was stored before the request is live, and a refresh that was
  answered found a live row of its token), `MarkInv` and `OnceInv` (a reset answered
  with success has marked its row, and a later one cannot have found that row), `ChainInv` (the
  passwords of a user form a chain that ends in the current one), `LoginInv` (a
  login that passed the check does not present a password that was replaced when
  an earlier change or reset was answered).

### Checked by TLC only

* Liveness (`EveryRunReturns`, `PauseEndsLoops`, `QuitCompletes`, `RunEnds`,
  `RoundEnds`, `CancelEnds`, `LoopsReturn`) and whatever needs ENABLED: not provable
  with the backends used.

Every safety property of the runs, invariant or action property, and both refinements
are proved. Of liveness, `CountDown` proves the part of `EveryRunReturns` that is not
fairness: the number of steps a round still makes is known when it begins. That it
can always make one unless another round holds the mutex, and that the holder
(`MutexInv`) releases it with its next step, is seen from the guards.

Induction over data is needed in one place, the sums of `TestReports`. The induction
theorems of the library cannot be used, so `SumOfCounts` takes a smallest
counterexample among the finite sets instead, which the well-foundedness of the
strict subset order provides. The other sequences in proved modules are the slice of
`TestRuns`, the socket's buffer of `Probes` and the inboxes of `WebTestSession`,
where facts about `Append`, `Tail` and `Len` suffice.

## 7. What is assumed of the environment

* The database: each statement is atomic and committed at once. For the unified
  API this is `penguin_dal`, which is not in the repository.
* The unique keys and cascades of `database/*.sql` and of `models/device.py`.
  `refresh_tokens` and `password_reset_tokens` are in no schema of the repository;
  the queries define what they hold. No key known keeps a token out of a second row;
  if there is one, the second INSERT raises, which is modelled too (`Fail`).
* The container client's results go to `/api/v1/tests/` of the unified API; what it
  answers, and when it refuses a token, is left open.
* Expiry is a nondeterministic refusal; comparisons of dates are not modelled. Whether
  two requests fall into one second is left open.
* The manager's four gunicorn workers (`managerServer/Dockerfile:55-57`) make
  requests concurrent.

## 8. What is not modelled

* Organisations of both APIs, the manager's system configuration and the creation of a
  manager's user: each is one statement after its checks, and relates to nothing else.
  The two keys of the configuration that the check-in reads are in no seed and cannot
  be created, so it always uses its defaults.
* The live test stream of the unified API: `handle_test_execution` is registered by
  nothing, and the address it would call is no route of the testServer.
* `goClient` configuration and device identity: read once at start-up.
* Statistics, listings, exports: queries without effect.
* Traceroute and other parsing of program output, formatting, rendering, charts and
  themes. The HTTP and TCP tests of the container client are one request or
  connection each and appear as the end of a test in `ContainerClient`.
* Application wiring, deployment, scripts and end-to-end tests; superseded code
  (`archive`, `shared/go_libs`).
* Within the modelled parts: the times and the targets of the testServer's testers and
  their parsing of the output of `ping` and `traceroute`, the DNS query and the system `ping` of the container
  client, the heartbeat and metadata of devices, the random schedule offsets
  and progress events. Each is named in the note
  of its component in `PROJECT.json`.
