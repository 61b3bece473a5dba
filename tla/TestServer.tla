----------------------------- MODULE TestServer -----------------------------
(***************************************************************************)
(* The testServer (Go): its handlers, the tests they run, the results they *)
(* save, and the shutdown that waits for them.                             *)
(*                                                                         *)
(* Each call is handled by a goroutine of its own; nothing bounds their    *)
(* number (MAX_CONCURRENT_TESTS is only logged).  A handler does not look  *)
(* at its client: when the client has hung up, or WriteTimeout is over,    *)
(* it goes on and saves, and only its writes fail.  Latencies are left     *)
(* out, but for which attempts they are of.  Ping, info and health hold    *)
(* no state.                                                               *)
(***************************************************************************)
EXTENDS Naturals, Sequences

CONSTANTS
    Calls,      \* the HTTP requests to the server
    MaxCount,   \* bound on the attempts a call asks for
    NoReport    \* of a call with no result yet

(* What an attempt returns: a success, an answer that is none (an HTTP     *)
(* status of 400 or more), or an error.  A datagram without a response and *)
(* an SSH connection that fails return a success, a trace does when it saw *)
(* a hop or reached its target.                                            *)
Outcomes == {"ok", "bad", "none"}

(* What a tester returns and the client is sent: whether the test was a    *)
(* success, the HTTP status, and which attempts the times are of.          *)
Reports == [success : BOOLEAN, status : Outcomes, timed : SUBSET (1..MaxCount)]

(* What the table keeps of it.  No column and no key of raw_results says   *)
(* whether the test was a success; of ping, the number of packets received *)
(* is that of the times.                                                   *)
Rows == [call : Calls, status : Outcomes, timed : SUBSET (1..MaxCount)]

ASSUME ServerAssumption == MaxCount \in Nat /\ NoReport \notin Reports

VARIABLES
    server,     \* what main is doing
    kind,       \* the endpoint of each call
    wanted,     \* its count, with the default applied
    handling,   \* where its handler is
    tried,      \* the outcomes of its attempts
    report,     \* the result to be saved and answered
    savedRows,  \* server_test_results, by the call that inserted the row
    hungUp,     \* the calls that nobody listens to any more
    saveErrors  \* history: the calls whose failed INSERT was logged

serverVars == <<server, kind, wanted, handling, tried, report, savedRows,
                hungUp, saveErrors>>

Tests == {"http", "tcp", "udp", "ping", "trace"}

(* "result" is /speedtest/result, "transfer" a speed-test download or      *)
(* upload; both are public.                                                *)
Kinds == Tests \cup {"result", "transfer"}

Running == {"authorising", "testing", "streaming", "saving", "answering"}
Over == {"answered", "unheard", "refused", "failed"}

ServerTypeOK ==
    /\ server \in {"serving", "draining", "stopped", "forced"}
    /\ kind \in [Calls -> Kinds]
    /\ wanted \in [Calls -> 1..MaxCount]
    /\ handling \in [Calls -> {"new", "cut"} \cup Running \cup Over]
    /\ tried \in [Calls -> Seq(Outcomes)]
    /\ report \in [Calls -> Reports \cup {NoReport}]
    /\ savedRows \subseteq Rows
    /\ hungUp \subseteq Calls
    /\ saveErrors \subseteq Calls

ServerInit ==
    /\ server = "serving"
    /\ kind \in [Calls -> Kinds]
    /\ wanted \in [Calls -> 1..MaxCount]
    /\ \A c \in Calls : kind[c] \in {"trace", "result", "transfer"} => wanted[c] = 1
    /\ handling = [c \in Calls |-> "new"]
    /\ tried = [c \in Calls |-> <<>>]
    /\ report = [c \in Calls |-> NoReport]
    /\ savedRows = {} /\ hungUp = {} /\ saveErrors = {}

-----------------------------------------------------------------------------
(* What the testers make of their attempts.                                *)

(* Mutant: any answer is taken for a success.                              *)
HttpAnswered(as) == \E i \in DOMAIN as : as[i] # "none"

(* The last answer was an o.                                               *)
LastAnswer(as, o) ==
    \E i \in DOMAIN as : as[i] = o /\ \A j \in DOMAIN as : j > i => as[j] = "none"

(* The status is that of the last attempt that was answered, or 0.         *)
HttpStatus(as) == IF LastAnswer(as, "ok") THEN "ok"
                  ELSE IF LastAnswer(as, "bad") THEN "bad" ELSE "none"

HttpSuccess(as) == HttpStatus(as) = "ok"

(* The last attempt decides.                                               *)
TcpSuccess(as) == \E i \in DOMAIN as : i = Len(as) /\ as[i] = "ok"

(* One success is enough.                                                  *)
UdpSuccess(as) == \E i \in DOMAIN as : as[i] = "ok"

(* One reply is enough.                                                    *)
PingSuccess(as) == \E i \in DOMAIN as : as[i] = "ok"

(* A single attempt.                                                       *)
TraceSuccess(as) == as[1] = "ok"

Success(k, as) ==
    \/ k = "http" /\ HttpSuccess(as)
    \/ k = "tcp" /\ TcpSuccess(as)
    \/ k = "udp" /\ UdpSuccess(as)
    \/ k = "ping" /\ PingSuccess(as)
    \/ k = "trace" /\ TraceSuccess(as)

StatusOf(k, as) == IF k = "http" THEN HttpStatus(as) ELSE "none"

(* The attempts whose times are averaged: those of HTTP and TCP include    *)
(* the ones that failed.                                                   *)
Timed(k, as) == {i \in DOMAIN as : k \in {"udp", "ping"} => as[i] = "ok"}

(* TestUDP and the traces return the error of the last attempt, ping exits *)
(* with a status of its own; TestHTTP and TestTCP return a result.         *)
Fails(k, as) == k \in {"udp", "ping", "trace"} /\ ~Success(k, as)

-----------------------------------------------------------------------------
(* The handlers.                                                           *)

(* A call arrives: the API's pass the middleware, the others do not.  A    *)
(* body that cannot be decoded is refused.                                 *)
Receive(c) ==
    /\ server = "serving" /\ handling[c] = "new"
    /\ \/ /\ kind[c] \in Tests
          /\ handling' = [handling EXCEPT ![c] = "authorising"]
          /\ UNCHANGED report
       \/ /\ kind[c] = "transfer"
          /\ handling' = [handling EXCEPT ![c] = "streaming"]
          /\ UNCHANGED report
       \/ /\ kind[c] = "result"
          /\ handling' = [handling EXCEPT ![c] = "saving"]
          /\ report' = [report EXCEPT ![c] = [success |-> TRUE, status |-> "none", timed |-> {}]]
       \/ /\ kind[c] = "result"
          /\ handling' = [handling EXCEPT ![c] = "refused"]
          /\ UNCHANGED report
    /\ UNCHANGED <<server, kind, wanted, tried, savedRows, hungUp, saveErrors>>

(* The credentials are found in the database, and every field is valid.    *)
Admit(c) ==
    /\ handling[c] = "authorising"
    /\ handling' = [handling EXCEPT ![c] = "testing"]
    /\ UNCHANGED <<server, kind, wanted, tried, report, savedRows, hungUp, saveErrors>>

(* They are not (401), or a field is not (400).                            *)
Refuse(c) ==
    /\ handling[c] = "authorising"
    /\ handling' = [handling EXCEPT ![c] = "refused"]
    /\ UNCHANGED <<server, kind, wanted, tried, report, savedRows, hungUp, saveErrors>>

(* One attempt after the other.                                            *)
Attempt(c, o) ==
    /\ handling[c] = "testing" /\ Len(tried[c]) < wanted[c]
    /\ o = "bad" => kind[c] = "http"
    /\ tried' = [tried EXCEPT ![c] = Append(@, o)]
    /\ UNCHANGED <<server, kind, wanted, handling, report, savedRows, hungUp, saveErrors>>

(* The tester returns an error without a verdict: a target or protocol it  *)
(* does not know before the first attempt, a ping command that fails.      *)
Fail(c) ==
    /\ handling[c] = "testing" /\ (tried[c] = <<>> \/ kind[c] = "ping")
    /\ handling' = [handling EXCEPT ![c] = "failed"]
    /\ UNCHANGED <<server, kind, wanted, tried, report, savedRows, hungUp, saveErrors>>

(* The tester returns: an error is answered (500) and not saved.           *)
Conclude(c) ==
    /\ handling[c] = "testing" /\ Len(tried[c]) = wanted[c]
    /\ \/ /\ Fails(kind[c], tried[c])
          /\ handling' = [handling EXCEPT ![c] = "failed"]
          /\ UNCHANGED report
       \/ /\ ~Fails(kind[c], tried[c])
          /\ handling' = [handling EXCEPT ![c] = "saving"]
          /\ report' = [report EXCEPT ![c] =
                          [success |-> Success(kind[c], tried[c]),
                           status |-> StatusOf(kind[c], tried[c]),
                           timed |-> Timed(kind[c], tried[c])]]
    /\ UNCHANGED <<server, kind, wanted, tried, savedRows, hungUp, saveErrors>>

(* saveTestResult picks what it keeps of the result, type by type ...      *)
RowOf(c) == [call |-> c, status |-> report[c].status, timed |-> report[c].timed]

(* ... for InsertTestResult.                                               *)
Save(c) ==
    /\ handling[c] = "saving"
    /\ savedRows' = savedRows \cup {RowOf(c)}
    /\ handling' = [handling EXCEPT ![c] = "answering"]
    /\ UNCHANGED <<server, kind, wanted, tried, report, hungUp, saveErrors>>

(* The INSERT fails and is logged.  A test is answered all the same, a     *)
(* speed-test result with an error.                                        *)
SaveFails(c) ==
    /\ handling[c] = "saving"
    /\ saveErrors' = saveErrors \cup {c}
    /\ handling' = [handling EXCEPT ![c] =
                      IF kind[c] = "result" THEN "failed" ELSE "answering"]
    /\ UNCHANGED <<server, kind, wanted, tried, report, savedRows, hungUp>>

(* The result is written to whoever still listens, and so are the chunks   *)
(* of a download or the receipt of an upload.                              *)
Respond(c) ==
    /\ handling[c] \in {"answering", "streaming"}
    /\ handling' = [handling EXCEPT ![c] = IF c \in hungUp THEN "unheard" ELSE "answered"]
    /\ UNCHANGED <<server, kind, wanted, tried, report, savedRows, hungUp, saveErrors>>

(* The client gives up, as webClient/api does ten seconds after the        *)
(* timeout of a single attempt, or WriteTimeout (120 s) is over.           *)
HangUp(c) ==
    /\ handling[c] \in Running /\ c \notin hungUp
    /\ hungUp' = hungUp \cup {c}
    /\ UNCHANGED <<server, kind, wanted, handling, tried, report, savedRows, saveErrors>>

-----------------------------------------------------------------------------
(* main.                                                                   *)

(* SIGINT or SIGTERM: Shutdown closes the listener.                        *)
Signal ==
    /\ server = "serving" /\ server' = "draining"
    /\ UNCHANGED <<kind, wanted, handling, tried, report, savedRows, hungUp, saveErrors>>

(* The process ends, and with it the handlers still running.               *)
Exit(how) ==
    /\ server' = how
    /\ handling' = [c \in Calls |->
                      IF handling[c] \in Running THEN "cut" ELSE handling[c]]
    /\ UNCHANGED <<kind, wanted, tried, report, savedRows, hungUp, saveErrors>>

(* Mutant: the server is closed instead of shut down.                      *)
CloseAtOnce == server = "draining" /\ Exit("stopped")

(* Shutdown returns nil once no handler runs; main says that it stopped    *)
(* gracefully and returns.                                                 *)
StopGracefully ==
    /\ server = "draining" /\ \A c \in Calls : handling[c] \notin Running
    /\ Exit("stopped")

(* log.Fatalf: the deadline of 30 s, or a listener that fails; or the      *)
(* process is killed.                                                      *)
ForcedEnd == server \in {"serving", "draining"} /\ Exit("forced")

Handle(c) ==
    \/ Receive(c) \/ Admit(c) \/ Refuse(c) \/ Fail(c) \/ Conclude(c)
    \/ Save(c) \/ SaveFails(c) \/ Respond(c) \/ \E o \in Outcomes : Attempt(c, o)

ServerNext ==
    \/ \E c \in Calls : Handle(c) \/ HangUp(c)
    \/ Signal \/ StopGracefully \/ ForcedEnd

ServerSpec == ServerInit /\ [][ServerNext]_serverVars

-----------------------------------------------------------------------------
Saved(c) == \E row \in savedRows : row.call = c

(* A server that says it stopped gracefully cut no call off: whatever it   *)
(* had received it finished, and every result it had measured or was given *)
(* is in the table unless the log says why not.  Shutdown has to wait for  *)
(* the handlers, and these have to save before they return.                *)
GracefulStopLosesNothing ==
    server = "stopped" =>
        \A c \in Calls :
            /\ handling[c] \in {"new"} \cup Over
            /\ report[c] # NoReport => Saved(c) \/ c \in saveErrors

(* The client has read the result of its test.                             *)
ToldResult(c) == kind[c] \in Tests /\ handling[c] = "answered" /\ report[c] # NoReport

SomeOk(c) == \E i \in DOMAIN tried[c] : tried[c][i] = "ok"
AllOk(c) == \A i \in DOMAIN tried[c] : tried[c][i] = "ok"

(* Each tester decides in a way of its own what a success is, and the      *)
(* answer and the row tell it differently; neither may say more than there *)
(* was.  A test the client is told has succeeded had an attempt that did,  *)
(* and one whose every attempt did is not told a failure.  There is one    *)
(* row of a call, its status agrees with what the client is told, and      *)
(* where an error is answered instead of a result, so that the table shows *)
(* successes only, it shows their times only.                              *)
ResultsAreHonest ==
    /\ \A c \in Calls : ToldResult(c) =>
          /\ report[c].success => SomeOk(c)
          /\ AllOk(c) => report[c].success
    /\ \A r1, r2 \in savedRows : r1.call = r2.call => r1 = r2
    /\ \A row \in savedRows : LET c == row.call IN
          /\ kind[c] = "http" =>
                /\ row.status = "ok" => SomeOk(c)
                /\ ToldResult(c) => (report[c].success <=> row.status = "ok")
          /\ kind[c] \in {"udp", "ping", "trace"} => SomeOk(c)
          /\ kind[c] \in {"udp", "ping"} =>
                row.timed # {} /\ \A i \in row.timed : tried[c][i] = "ok"
=============================================================================
