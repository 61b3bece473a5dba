---------------------------- MODULE SpeedSession ----------------------------
(***************************************************************************)
(* The Speed Test and Download Test tabs of the web client                 *)
(* (webClient/frontend, SpeedTest.tsx and DownloadTest.tsx).               *)
(*                                                                         *)
(* Selecting a tab mounts its page anew.  The run a page started is not    *)
(* aborted when the page is left: it goes on, but nothing shows it and     *)
(* nothing can cancel it any more.  A request has no timeout.  Abort makes *)
(* every request in flight reject at once, and the run ends before the     *)
(* browser handles anything else; between two pings nothing is in flight   *)
(* and abort only leaves a mark.  Speeds, progress and the formatting of   *)
(* both are left out.                                                      *)
(***************************************************************************)
EXTENDS Naturals

CONSTANTS
    MaxMounts,    \* bound on the times a page is mounted
    Pings,        \* requests that measure the latency (20)
    MaxStreams,   \* bound on the streams the slider offers (20)
    Chunks        \* the size of the largest file, in requests of 10 MB

ASSUME SpeedAssumption ==
    /\ MaxMounts \in Nat \ {0} /\ Pings \in Nat \ {0}
    /\ MaxStreams \in Nat \ {0} /\ Chunks \in Nat \ {0}

VARIABLES
    page,      \* the mount that is shown, 0 when another tab is
    mounts,    \* pages mounted so far
    test,      \* what each mount is: the speed or the download test
    doing,     \* what its run is waiting for, "idle" when isRunning is false
    pings,     \* pings still to be sent
    chosen,    \* numStreams of the run
    streams,   \* streams that have not ended
    missing,   \* parts of the file that have not arrived
    aborted,   \* abortControllerRef.current.signal.aborted
    result,    \* whether there is a result
    cancelled  \* history: where the run stood when it was last cancelled

speedVars == <<page, mounts, test, doing, pings, chosen, streams, missing,
               aborted, result, cancelled>>

Mounts == 1..MaxMounts
Running(i) == doing[i] # "idle"

SpeedTypeOK ==
    /\ page \in 0..mounts /\ mounts \in 0..MaxMounts
    /\ test \in [Mounts -> {"speed", "file"}]
    /\ doing \in [Mounts -> {"idle", "ping", "gap", "download", "upload", "chunk"}]
    /\ pings \in [Mounts -> 0..(Pings - 1)]
    /\ chosen \in [Mounts -> 1..MaxStreams]
    /\ streams \in [Mounts -> 0..MaxStreams]
    /\ missing \in [Mounts -> 0..Chunks]
    /\ aborted \in [Mounts -> BOOLEAN]
    /\ result \in [Mounts -> BOOLEAN]
    /\ cancelled \in [Mounts -> {"never", "early", "late"}]

SpeedInit ==
    /\ page = 0 /\ mounts = 0
    /\ test = [i \in Mounts |-> "speed"]
    /\ doing = [i \in Mounts |-> "idle"]
    /\ pings = [i \in Mounts |-> 0]
    /\ chosen = [i \in Mounts |-> 1]
    /\ streams = [i \in Mounts |-> 0]
    /\ missing = [i \in Mounts |-> 0]
    /\ aborted = [i \in Mounts |-> FALSE]
    /\ result = [i \in Mounts |-> FALSE]
    /\ cancelled = [i \in Mounts |-> "never"]

-----------------------------------------------------------------------------
(* What the pages offer.                                                   *)

(* SpeedTest: the slider and both start buttons; cancel; or the modal.     *)
SpeedStart(i) == test[i] = "speed" /\ ~Running(i) /\ ~result[i]
SpeedCancel(i) == test[i] = "speed" /\ Running(i)
SpeedModal(i) == test[i] = "speed" /\ ~Running(i) /\ result[i]

(* DownloadTest: the sizes and the start button; cancel; or the modal.     *)
FileStart(i) == test[i] = "file" /\ ~Running(i) /\ ~result[i]
FileCancel(i) == test[i] = "file" /\ Running(i)
FileModal(i) == test[i] = "file" /\ ~Running(i) /\ result[i]

-----------------------------------------------------------------------------
(* The user.                                                               *)

(* A tab of TestRunner: the page that was shown is unmounted with its run  *)
(* as it is; a test's page is mounted with the state of useState.          *)
ShowTest(what) ==
    /\ page # 0 => test[page] # what
    /\ mounts < MaxMounts
    /\ mounts' = mounts + 1
    /\ page' = mounts + 1
    /\ test' = [test EXCEPT ![mounts + 1] = what]
    /\ UNCHANGED <<doing, pings, chosen, streams, missing, aborted, result, cancelled>>

ShowOther ==
    /\ page # 0 /\ page' = 0
    /\ UNCHANGED <<mounts, test, doing, pings, chosen, streams, missing, aborted,
                   result, cancelled>>

(* runSpeedTest up to the first ping; the modal's Run Again clears the     *)
(* result first.                                                           *)
RunSpeedTest(i) ==
    /\ page = i /\ (SpeedStart(i) \/ SpeedModal(i))
    /\ doing' = [doing EXCEPT ![i] = "ping"]
    /\ pings' = [pings EXCEPT ![i] = Pings - 1]
    /\ \E n \in 1..MaxStreams : chosen' = [chosen EXCEPT ![i] = n]
    /\ aborted' = [aborted EXCEPT ![i] = FALSE]
    /\ result' = [result EXCEPT ![i] = FALSE]
    /\ cancelled' = [cancelled EXCEPT ![i] = "never"]
    /\ UNCHANGED <<page, mounts, test, streams, missing>>

(* runDownloadTest up to the first request.                                *)
RunDownloadTest(i) ==
    /\ page = i /\ (FileStart(i) \/ FileModal(i))
    /\ doing' = [doing EXCEPT ![i] = "chunk"]
    /\ \E n \in 1..Chunks : missing' = [missing EXCEPT ![i] = n]
    /\ aborted' = [aborted EXCEPT ![i] = FALSE]
    /\ result' = [result EXCEPT ![i] = FALSE]
    /\ cancelled' = [cancelled EXCEPT ![i] = "never"]
    /\ UNCHANGED <<page, mounts, test, pings, chosen, streams>>

CloseModal(i) ==
    /\ page = i /\ (SpeedModal(i) \/ FileModal(i))
    /\ result' = [result EXCEPT ![i] = FALSE]
    /\ UNCHANGED <<page, mounts, test, doing, pings, chosen, streams, missing,
                   aborted, cancelled>>

(* The catch and finally of either run.                                    *)
Fail(i) == doing' = [doing EXCEPT ![i] = "idle"] /\ result' = result

(* Mutant: the requests are made without the signal.                       *)
CancelUnheard(i) ==
    /\ page = i /\ (SpeedCancel(i) \/ FileCancel(i)) /\ ~aborted[i]
    /\ aborted' = [aborted EXCEPT ![i] = TRUE]
    /\ cancelled' = [cancelled EXCEPT ![i] = "early"]
    /\ UNCHANGED <<page, mounts, test, doing, result, pings, chosen, streams, missing>>

(* Mutant: the AbortError of a stream is handled like any failure.         *)
CancelSwallowed(i) ==
    /\ page = i /\ (SpeedCancel(i) \/ FileCancel(i)) /\ ~aborted[i]
    /\ aborted' = [aborted EXCEPT ![i] = TRUE]
    /\ cancelled' = [cancelled EXCEPT ![i] =
                       IF doing[i] = "gap" /\ pings[i] = 0 THEN "late" ELSE "early"]
    /\ IF doing[i] = "gap" THEN UNCHANGED <<doing, result>>
       ELSE /\ doing' = [doing EXCEPT ![i] = "idle"]
            /\ result' = [result EXCEPT ![i] = doing[i] \in {"download", "upload"}]
    /\ UNCHANGED <<page, mounts, test, pings, chosen, streams, missing>>

(* cancelTest: every request in flight rejects with AbortError, which each *)
(* level throws on.                                                        *)
Cancel(i) ==
    /\ page = i /\ (SpeedCancel(i) \/ FileCancel(i)) /\ ~aborted[i]
    /\ aborted' = [aborted EXCEPT ![i] = TRUE]
    /\ cancelled' = [cancelled EXCEPT ![i] =
                       IF doing[i] = "gap" /\ pings[i] = 0 THEN "late" ELSE "early"]
    /\ IF doing[i] = "gap" THEN UNCHANGED <<doing, result>> ELSE Fail(i)
    /\ UNCHANGED <<page, mounts, test, pings, chosen, streams, missing>>

-----------------------------------------------------------------------------
(* The speed test.                                                         *)

(* A ping is answered or fails: either way the next one is 100 ms away.    *)
PingEnds(i) ==
    /\ doing[i] = "ping"
    /\ doing' = [doing EXCEPT ![i] = "gap"]
    /\ UNCHANGED <<page, mounts, test, pings, chosen, streams, missing, aborted,
                   result, cancelled>>

(* The 100 ms are over.  With pings left, an aborted run ends here.  After *)
(* the last, its streams throw 'Test cancelled', which is no AbortError:   *)
(* measureDownload and measureUpload go on as if the streams had ended,    *)
(* and a result of nothing is stored.                                      *)
GapEnds(i) ==
    /\ doing[i] = "gap"
    /\ IF pings[i] > 0
         THEN /\ pings' = [pings EXCEPT ![i] = @ - 1]
              /\ streams' = streams
              /\ IF aborted[i] THEN Fail(i)
                 ELSE doing' = [doing EXCEPT ![i] = "ping"] /\ result' = result
         ELSE /\ pings' = pings
              /\ IF aborted[i]
                   THEN /\ doing' = [doing EXCEPT ![i] = "idle"]
                        /\ result' = [result EXCEPT ![i] = TRUE]
                        /\ streams' = streams
                   ELSE /\ doing' = [doing EXCEPT ![i] = "download"]
                        /\ streams' = [streams EXCEPT ![i] = chosen[i]]
                        /\ result' = result
    /\ UNCHANGED <<page, mounts, test, chosen, missing, aborted, cancelled>>

(* One of several streams fails, or is answered when the 10 s are over.    *)
StreamEnds(i) ==
    /\ doing[i] \in {"download", "upload"} /\ streams[i] > 1
    /\ streams' = [streams EXCEPT ![i] = @ - 1]
    /\ UNCHANGED <<page, mounts, test, doing, pings, chosen, missing, aborted,
                   result, cancelled>>

(* The last download stream ends: Promise.all resolves, however many of    *)
(* them failed.                                                            *)
DownloadEnds(i) ==
    /\ doing[i] = "download" /\ streams[i] = 1
    /\ doing' = [doing EXCEPT ![i] = "upload"]
    /\ streams' = [streams EXCEPT ![i] = chosen[i]]
    /\ UNCHANGED <<page, mounts, test, pings, chosen, missing, aborted, result,
                   cancelled>>

UploadEnds(i) ==
    /\ doing[i] = "upload" /\ streams[i] = 1
    /\ doing' = [doing EXCEPT ![i] = "idle"]
    /\ streams' = [streams EXCEPT ![i] = 0]
    /\ result' = [result EXCEPT ![i] = TRUE]
    /\ UNCHANGED <<page, mounts, test, pings, chosen, missing, aborted, cancelled>>

-----------------------------------------------------------------------------
(* The download test.                                                      *)

(* Mutant: any answer counts as the part that was asked for.               *)
ChunkCounted(i) ==
    /\ doing[i] = "chunk"
    /\ missing' = missing
    /\ doing' = [doing EXCEPT ![i] = "idle"]
    /\ result' = [result EXCEPT ![i] = TRUE]
    /\ UNCHANGED <<page, mounts, test, pings, chosen, streams, aborted, cancelled>>

(* A part arrives.  A short or empty answer is asked for again.            *)
ChunkArrives(i) ==
    /\ doing[i] = "chunk"
    /\ missing' = [missing EXCEPT ![i] = @ - 1]
    /\ IF missing[i] > 1 THEN UNCHANGED <<doing, result>>
       ELSE /\ doing' = [doing EXCEPT ![i] = "idle"]
            /\ result' = [result EXCEPT ![i] = TRUE]
    /\ UNCHANGED <<page, mounts, test, pings, chosen, streams, aborted, cancelled>>

(* The request fails or is refused.                                        *)
ChunkFails(i) ==
    /\ doing[i] = "chunk"
    /\ Fail(i)
    /\ UNCHANGED <<page, mounts, test, pings, chosen, streams, missing, aborted,
                   cancelled>>

-----------------------------------------------------------------------------
SpeedUser(i) ==
    \/ RunSpeedTest(i) \/ RunDownloadTest(i) \/ CloseModal(i) \/ Cancel(i)

SpeedNetwork(i) ==
    \/ PingEnds(i) \/ GapEnds(i) \/ StreamEnds(i) \/ DownloadEnds(i)
    \/ UploadEnds(i) \/ ChunkArrives(i) \/ ChunkFails(i)

SpeedNext ==
    \/ ShowTest("speed") \/ ShowTest("file") \/ ShowOther
    \/ \E i \in Mounts : SpeedUser(i) \/ SpeedNetwork(i)

SpeedSpec == SpeedInit /\ [][SpeedNext]_speedVars

(* Only the timer is sure to fire: the server may never answer.            *)
SpeedFairness == \A i \in Mounts : WF_speedVars(GapEnds(i))

-----------------------------------------------------------------------------
(* A cancelled test never shows a result, whatever phase the cancel met    *)
(* and however many streams were open; the one exception is a cancel in    *)
(* the 100 ms after the last ping.                                         *)
CancelledShowsNothing ==
    \A i \in Mounts : result[i] => cancelled[i] # "early"

(* A download that shows a result received the whole file.                 *)
DownloadIsWhole ==
    \A i \in Mounts : test[i] = "file" /\ result[i] => missing[i] = 0

(* A cancelled run ends, even if the server never answers again and even   *)
(* if the page is left meanwhile.                                          *)
CancelEnds == \A i \in Mounts : (Running(i) /\ aborted[i]) ~> ~Running(i)
=============================================================================
