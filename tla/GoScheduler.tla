---------------------------- MODULE GoScheduler -----------------------------
(***************************************************************************)
(* The Go desktop client as a whole: the tray menu (tray.go), the          *)
(* scheduler it starts and stops (scheduler.go) and the rounds of tests    *)
(* both of them run (TestRuns).                                            *)
(*                                                                         *)
(* The goroutines are                                                      *)
(*   - the menu: onReady, then the loop that handles one click at a time;  *)
(*   - one loop goroutine per successful Scheduler.Start, selecting among  *)
(*     the ticker, stopChan and the context;                               *)
(*   - one goroutine per "Run Tests Now" click;                            *)
(*   - the thread that runs onExit after systray.Quit.                     *)
(*                                                                         *)
(* Scheduler.ticker is written by Start and read by loop goroutines with   *)
(* no synchronisation: a loop may see any ticker made since its own.       *)
(*                                                                         *)
(* stopChan is made once, in NewScheduler.  A second Stop closes a closed  *)
(* channel and panics, so no third Start can happen: Loops == 1..2 bounds  *)
(* nothing.                                                                *)
(***************************************************************************)
EXTENDS TestRuns

VARIABLES
    schedule,     \* config.Schedule: enabled, runOnStartup
    app,          \* up, quitting (onExit to run), leaving, exited, panicked
    ui,           \* where the menu goroutine is
    monitored,    \* isSchedulerRunning, the menu's own flag
    title,        \* the status line of the menu
    isRunning,    \* Scheduler.isRunning
    stopClosed,   \* Scheduler.stopChan has been closed
    ctxDone,      \* the tray's context has been cancelled
    starts,       \* tickers made so far; the latest is Scheduler.ticker
    ticker,       \* each ticker: still running, a tick in its channel
    loop,         \* where each loop goroutine is
    waitsOn,      \* the ticker the loop's select was entered with
    owner,        \* who called each run
    report        \* how a "Run Tests Now" goroutine will set the title

trayVars == <<schedule, app, ui, monitored, title>>
schedVars == <<isRunning, stopClosed, ctxDone, starts, ticker, loop, waitsOn>>
callVars == <<owner, report>>
vars == <<runVars, trayVars, schedVars, callVars>>

Loops == 1..2

Nobody == <<"nobody", 0>>
Startup == <<"startup", 0>>
Manual == <<"manual", 0>>
Loop(i) == <<"loop", i>>

TypeOK ==
    /\ RunsTypeOK
    /\ schedule \in [enabled : BOOLEAN, runOnStartup : BOOLEAN]
    /\ app \in {"up", "quitting", "leaving", "exited", "panicked"}
    /\ ui \in {"boot", "idle", "start", "startupRun", "startupWait", "arm", "quit"}
    /\ monitored \in BOOLEAN
    /\ title \in {"Initializing", "Monitoring", "Manual Mode", "Paused",
                  "Running Tests", "Error"}
    /\ isRunning \in BOOLEAN
    /\ stopClosed \in BOOLEAN
    /\ ctxDone \in BOOLEAN
    /\ starts \in 0..2
    /\ ticker \in [Loops -> [on : BOOLEAN, pending : BOOLEAN]]
    /\ loop \in [Loops -> {"none", "entering", "waiting", "running", "done"}]
    /\ waitsOn \in [Loops -> Loops]
    /\ owner \in [Runs -> {Nobody, Startup, Manual} \cup {Loop(i) : i \in Loops}]
    /\ report \in [Runs -> {"none", "Monitoring", "Manual Mode", "shown"}]

Init ==
    /\ RunsInit
    /\ schedule \in [enabled : BOOLEAN, runOnStartup : BOOLEAN]
    /\ app = "up"
    /\ ui = "boot"
    /\ monitored = FALSE
    /\ title = "Initializing"
    /\ isRunning = FALSE
    /\ stopClosed = FALSE
    /\ ctxDone = FALSE
    /\ starts = 0
    /\ ticker = [k \in Loops |-> [on |-> FALSE, pending |-> FALSE]]
    /\ loop = [i \in Loops |-> "none"]
    /\ waitsOn = [i \in Loops |-> i]
    /\ owner = [r \in Runs |-> Nobody]
    /\ report = [r \in Runs |-> "none"]

(* The process exists: os.Exit and a panic end every goroutine.            *)
Alive == app \in {"up", "quitting", "leaving"}

Call(r, who) == Begin(r) /\ owner' = [owner EXCEPT ![r] = who]

-----------------------------------------------------------------------------
(* Scheduler.Start, called by the menu goroutine.                          *)

StartLocked ==
    /\ Alive /\ ui = "start" /\ mu = NoRun
    /\ IF isRunning
         THEN /\ title' = "Error"
              /\ ui' = "idle"
              /\ UNCHANGED isRunning
         ELSE /\ isRunning' = TRUE
              /\ ui' = IF schedule.runOnStartup THEN "startupRun" ELSE "arm"
              /\ UNCHANGED title
    /\ UNCHANGED <<runVars, schedule, app, monitored, stopClosed, ctxDone,
                   starts, ticker, loop, waitsOn, callVars>>

(* RunOnStartup: Start itself runs the tests, and the menu waits for them. *)
StartupRun(r) ==
    /\ Alive /\ ui = "startupRun"
    /\ Call(r, Startup)
    /\ ui' = "startupWait"
    /\ UNCHANGED <<schedule, app, monitored, title, schedVars, report>>

StartupDone ==
    /\ Alive /\ ui = "startupWait"
    /\ \A r \in Runs : owner[r] = Startup => phase[r] = "returned"
    /\ ui' = "arm"
    /\ UNCHANGED <<runVars, schedule, app, monitored, title, schedVars, callVars>>

(* The new ticker replaces Scheduler.ticker, the loop goroutine is         *)
(* spawned, Start returns nil and the caller shows it.                     *)
Arm ==
    /\ Alive /\ ui = "arm"
    /\ starts' = starts + 1
    /\ ticker' = [ticker EXCEPT ![starts'].on = TRUE]
    /\ loop' = [loop EXCEPT ![starts'] = "entering"]
    /\ monitored' = TRUE
    /\ title' = "Monitoring"
    /\ ui' = "idle"
    /\ UNCHANGED <<runVars, schedule, app, isRunning, stopClosed, ctxDone,
                   waitsOn, callVars>>

(* Scheduler.Stop closes stopChan whether or not it is closed already.     *)
StopPanics == isRunning /\ stopClosed

(* Mutant: Stop leaves isRunning set.                                      *)
StopKeepsRunning ==
    /\ mu = NoRun
    /\ stopClosed' = (stopClosed \/ isRunning)
    /\ UNCHANGED isRunning

(* Scheduler.Stop, when close(stopChan) does not panic.                    *)
Stop ==
    /\ mu = NoRun
    /\ stopClosed' = (stopClosed \/ isRunning)
    /\ isRunning' = FALSE

-----------------------------------------------------------------------------
(* The loop goroutine of the i-th Start.                                   *)

(* A tick is dropped when the ticker's one-place channel is full.          *)
Fire(k) ==
    /\ Alive /\ ticker[k].on /\ ~ticker[k].pending
    /\ ticker' = [ticker EXCEPT ![k].pending = TRUE]
    /\ UNCHANGED <<runVars, trayVars, isRunning, stopClosed, ctxDone, starts,
                   loop, waitsOn, callVars>>

(* s.ticker as loop i may read it: the race with Start.                    *)
SeenTicker(i) == i..starts

(* Mutant: the loop runs the tests in a goroutine of their own.            *)
LoopRunsAsync(i) == TRUE

LoopRunOver(i) == \A r \in Runs : owner[r] = Loop(i) => phase[r] = "returned"

(* The loop (re-)enters select, which evaluates s.ticker.C.                *)
LoopEnter(i) ==
    /\ Alive
    /\ loop[i] = "entering" \/ (loop[i] = "running" /\ LoopRunOver(i))
    /\ \E k \in SeenTicker(i) : waitsOn' = [waitsOn EXCEPT ![i] = k]
    /\ loop' = [loop EXCEPT ![i] = "waiting"]
    /\ UNCHANGED <<runVars, trayVars, isRunning, stopClosed, ctxDone, starts,
                   ticker, callVars>>

LoopTick(i, r) ==
    /\ Alive /\ loop[i] = "waiting" /\ ticker[waitsOn[i]].pending
    /\ ticker' = [ticker EXCEPT ![waitsOn[i]].pending = FALSE]
    /\ Call(r, Loop(i))
    /\ loop' = [loop EXCEPT ![i] = "running"]
    /\ UNCHANGED <<trayVars, isRunning, stopClosed, ctxDone, starts, waitsOn,
                   report>>

(* Mutant: the select has no case for stopChan.                            *)
LoopEndOnContext(i) ==
    /\ Alive /\ loop[i] = "waiting"
    /\ ctxDone
    /\ \E k \in SeenTicker(i) : ticker' = [ticker EXCEPT ![k].on = FALSE]
    /\ loop' = [loop EXCEPT ![i] = "done"]
    /\ UNCHANGED <<runVars, trayVars, isRunning, stopClosed, ctxDone, starts,
                   waitsOn, callVars>>

(* stopChan is closed, or the context is done: stop the ticker and return. *)
LoopEnd(i) ==
    /\ Alive /\ loop[i] = "waiting"
    /\ stopClosed \/ ctxDone
    /\ \E k \in SeenTicker(i) : ticker' = [ticker EXCEPT ![k].on = FALSE]
    /\ loop' = [loop EXCEPT ![i] = "done"]
    /\ UNCHANGED <<runVars, trayVars, isRunning, stopClosed, ctxDone, starts,
                   waitsOn, callVars>>

-----------------------------------------------------------------------------
(* The menu.                                                               *)

(* onReady.                                                                *)
Boot ==
    /\ Alive /\ ui = "boot"
    /\ IF schedule.enabled
         THEN ui' = "start" /\ UNCHANGED title
         ELSE ui' = "idle" /\ title' = "Manual Mode"
    /\ UNCHANGED <<runVars, schedule, app, monitored, schedVars, callVars>>

(* "Run Tests Now".                                                        *)
RunNow(r) ==
    /\ Alive /\ ui = "idle"
    /\ Call(r, Manual)
    /\ title' = "Running Tests"
    /\ UNCHANGED <<schedule, app, ui, monitored, schedVars, report>>

(* Its goroutine, after RunTests returned, reads isSchedulerRunning ...    *)
ManualRead(r) ==
    /\ Alive /\ owner[r] = Manual /\ phase[r] = "returned" /\ report[r] = "none"
    /\ report' = [report EXCEPT ![r] =
                    IF monitored THEN "Monitoring" ELSE "Manual Mode"]
    /\ UNCHANGED <<runVars, trayVars, schedVars, owner>>

(* ... and sets the title.                                                 *)
ManualShow(r) ==
    /\ Alive /\ report[r] \in {"Monitoring", "Manual Mode"}
    /\ title' = report[r]
    /\ report' = [report EXCEPT ![r] = "shown"]
    /\ UNCHANGED <<runVars, schedule, app, ui, monitored, schedVars, owner>>

(* "Pause Monitoring".                                                     *)
Pause ==
    /\ Alive /\ ui = "idle" /\ monitored
    /\ Stop
    /\ IF StopPanics
         THEN /\ app' = "panicked"
              /\ UNCHANGED <<monitored, title>>
         ELSE /\ monitored' = FALSE
              /\ title' = "Paused"
              /\ UNCHANGED app
    /\ UNCHANGED <<runVars, schedule, ui, ctxDone, starts, ticker, loop,
                   waitsOn, callVars>>

(* "Resume Monitoring".                                                    *)
Resume ==
    /\ Alive /\ ui = "idle" /\ ~monitored
    /\ ui' = "start"
    /\ UNCHANGED <<runVars, schedule, app, monitored, title, schedVars, callVars>>

(* "Quit": systray.Quit, and the menu goroutine returns.                   *)
Quit ==
    /\ Alive /\ ui = "idle"
    /\ ui' = "quit"
    /\ app' = "quitting"
    /\ UNCHANGED <<runVars, schedule, monitored, title, schedVars, callVars>>

(* onExit: Stop and cancelFunc ...                                         *)
OnExit ==
    /\ app = "quitting"
    /\ Stop
    /\ app' = IF StopPanics THEN "panicked" ELSE "leaving"
    /\ ctxDone' = ~StopPanics
    /\ UNCHANGED <<runVars, schedule, ui, monitored, title, starts, ticker,
                   loop, waitsOn, callVars>>

(* ... and os.Exit, whatever the other goroutines are doing.               *)
Exit ==
    /\ app = "leaving"
    /\ app' = "exited"
    /\ UNCHANGED <<runVars, schedule, ui, monitored, title, schedVars, callVars>>

-----------------------------------------------------------------------------
ClientRunStep(r) ==
    /\ Alive
    /\ RunStep(r)
    /\ UNCHANGED <<trayVars, schedVars, callVars>>

ClientBoundedStep(r) ==
    ClientRunStep(r) /\ ~\E t \in Unbounded : TestDone(r, t)

ManagerRecords == ManagerStep /\ UNCHANGED <<trayVars, schedVars, callVars>>

Starting ==
    StartLocked \/ (\E r \in Runs : StartupRun(r)) \/ StartupDone \/ Arm

LoopStep(i) ==
    LoopEnter(i) \/ (\E r \in Runs : LoopTick(i, r)) \/ LoopEnd(i)

Click == (\E r \in Runs : RunNow(r)) \/ Pause \/ Resume \/ Quit

Next ==
    \/ Boot \/ Starting \/ Click \/ OnExit \/ Exit
    \/ \E i \in Loops : Fire(i) \/ LoopStep(i)
    \/ \E r \in Runs : ManualRead(r) \/ ManualShow(r) \/ ClientRunStep(r)
    \/ ManagerRecords

Spec == Init /\ [][Next]_vars

(* Goroutines that can run do run; the user, the manager, the clock and    *)
(* the peer of an ssh test owe nothing.  select picks among the ready      *)
(* cases at random, so a loop whose stop channel is ready cannot be        *)
(* diverted by ticks for ever.                                             *)
FairSpec ==
    /\ Spec
    /\ WF_vars(Boot) /\ WF_vars(Starting) /\ WF_vars(OnExit) /\ WF_vars(Exit)
    /\ \A i \in Loops : WF_vars(LoopEnter(i)) /\ SF_vars(LoopEnd(i))
    /\ \A r \in Runs : WF_vars(ClientBoundedStep(r))
                       /\ WF_vars(ManualRead(r)) /\ WF_vars(ManualShow(r))

-----------------------------------------------------------------------------
Live(i) == loop[i] \in {"entering", "waiting", "running"}

InProgress(r) == phase[r] \notin {"idle", "returned"}

(* The menu keeps its own idea of whether the scheduler runs, and the      *)
(* scheduler another; whenever a click can be handled they agree, so Pause *)
(* always stops and Resume never finds the scheduler already running.      *)
MenuAgreesWithScheduler ==
    /\ (app = "up" /\ ui = "idle") => (monitored = isRunning)
    /\ title # "Error"

(* Until the first pause, scheduled rounds never overlap, however long     *)
(* they take compared with the interval: there is one loop and it runs its *)
(* tests itself.  Only "Run Tests Now" can overlap with it.                *)
ScheduledRunsSerial ==
    ~stopClosed =>
        \A r, q \in Runs :
            /\ InProgress(r) /\ owner[r] # Manual
            /\ InProgress(q) /\ owner[q] # Manual
            => r = q

(* The loop is in a round that waits only for tests nothing bounds.        *)
LoopHeldUp(i) ==
    loop[i] = "running" /\ \E r \in Runs : owner[r] = Loop(i) /\ HeldUp(r)

(* A pause takes effect: every loop goroutine ends, also one that was in   *)
(* the middle of a round of tests or had a tick waiting, unless that round *)
(* waits for ever for the silent peer of an ssh test.                      *)
PauseEndsLoops ==
    \A i \in Loops : stopClosed ~> (~Alive \/ ~Live(i) \/ []LoopHeldUp(i))

(* Quitting always comes to an end although onExit needs the mutex that    *)
(* rounds of tests take: nobody keeps it.                                  *)
QuitCompletes == app = "quitting" ~> app \in {"exited", "panicked"}

(* tray.go:68 offers "Pause/Resume scheduled tests": while the menu says   *)
(* that the scheduler runs there is a loop goroutine that can run          *)
(* scheduled tests.  After a resume it ends at once, for stopChan is still *)
(* closed.                                                                 *)
MonitoringHasLoop ==
    (app = "up" /\ ui = "idle" /\ monitored) => \E i \in Loops : Live(i)

(* What is kept of that: until something stops the scheduler its one loop  *)
(* does not end, whatever else is clicked and however long rounds take.    *)
MonitoredUntilStopped == ~stopClosed => MonitoringHasLoop
=============================================================================
