------------------------------ MODULE RoundMeasure ------------------------------
(***************************************************************************)
(* The processes that measure one round of the vLLM benchmark agent         *)
(* (cmd_bench of agent/main.py, tools/benchmark.py, tools/metrics.py, run   *)
(* of tools/common.py).  The runner starts a scraper, waits for its         *)
(* baseline, starts benchmark.py, which starts a client inside the          *)
(* container; when the client is done it stops the scraper and judges what  *)
(* was recorded.  A signal, the cancel marker, a timeout and a restart of   *)
(* the server can come between any two steps.  Of a metric we keep the      *)
(* number of requests that the server has served since it started.          *)
(***************************************************************************)
EXTENDS Integers, Sequences, FiniteSets, SequencesExt

CONSTANTS Requests,     \* the requests of a round
          Selections,   \* the metric groups that a configuration may select
          MaxAttempts,  \* bound on how often the round is begun
          MaxSamples    \* bound on the samples of a scraper before its last

ASSUME RoundMeasureAssumption ==
    /\ Requests \in Nat \ {0} /\ MaxAttempts \in Nat \ {0} /\ MaxSamples \in Nat \ {0}
    /\ Selections \subseteq SUBSET {"queue_time", "request_timeline", "server"}

Attempts == 1 .. MaxAttempts
Missing  == -1

VARIABLES
    select,    \* metrics.collect
    served,    \* the server's counter
    main,      \* the runner: what it does next; verdict, what it knows of the round
    verdict,
    attempt,
    task,      \* tasks.json: the status of the round
    monitor,   \* _RoundMonitor: "off", "on", or "read", about to write what it read
    marker,    \* the cancel marker
    scraper,   \* metrics.py scrape
    stopping,  \* it has got its SIGTERM
    samples,   \* its file
    tool,      \* benchmark.py of the current attempt
    shell,     \* what `docker exec' runs in the container, for every attempt
    client,    \* its vllm bench: alive, the requests left, whether one failed
    pidfile,
    mishaps    \* history: what has happened that nothing detects

runner    == <<main, verdict, attempt, task, monitor>>
recorder  == <<scraper, stopping, samples>>
container == <<shell, client, pidfile>>
roundVars == <<select, served, runner, marker, recorder, tool, container, mishaps>>

NoClient == [alive |-> FALSE, left |-> Requests, failed |-> FALSE]

RoundInit ==
    /\ select \in Selections
    /\ served = 0
    /\ main = "idle" /\ verdict = "none" /\ attempt = 0
    /\ task = "pending" /\ monitor = "off" /\ marker = FALSE
    /\ scraper = "off" /\ stopping = FALSE /\ samples = <<>>
    /\ tool = "off"
    /\ shell = [a \in Attempts |-> "off"] /\ client = [a \in Attempts |-> NoClient]
    /\ pidfile = [a \in Attempts |-> FALSE]
    /\ mishaps = {}

-----------------------------------------------------------------------------
\* (Bound: a restart, the death of the scraper and a cleanup that fails only
\* happen when nothing else did.)
Calm == mishaps = {}

(* The container *)

\* The shell starts the client in a session of its own, and then writes its pid.
ShellStarts(a) ==
    /\ shell[a] = "asked"
    /\ shell' = [shell EXCEPT ![a] = "started"]
    /\ client' = [client EXCEPT ![a].alive = TRUE]
    /\ UNCHANGED <<select, served, runner, marker, recorder, tool, pidfile, mishaps>>

ShellWrites(a) ==
    /\ shell[a] = "started"
    /\ shell' = [shell EXCEPT ![a] = "waits"]
    /\ pidfile' = [pidfile EXCEPT ![a] = TRUE]
    /\ UNCHANGED <<select, served, runner, marker, recorder, tool, client, mishaps>>

\* One request is served.
Request(a) ==
    /\ client[a].alive /\ client[a].left > 0
    /\ client' = [client EXCEPT ![a].left = @ - 1]
    /\ served' = served + 1
    /\ UNCHANGED <<select, runner, marker, recorder, tool, shell, pidfile, mishaps>>

\* The client ends; `timeout' may end it early.
ClientEnds(a) ==
    /\ client[a].alive
    /\ client' = [client EXCEPT ![a].alive = FALSE,
                                ![a].failed = @ \/ client[a].left > 0]
    /\ UNCHANGED <<select, served, runner, marker, recorder, tool, shell, pidfile, mishaps>>

\* The server dies and is started again: its counters begin at 0, and the
\* requests of a running client fail.
ServerRestarts ==
    /\ Calm /\ main # "idle" /\ served > 0
    /\ served' = 0
    /\ client' = [a \in Attempts |-> [client[a] EXCEPT !.failed = @ \/ client[a].alive]]
    /\ mishaps' = mishaps \cup {"restart"}
    /\ UNCHANGED <<select, runner, marker, recorder, tool, shell, pidfile>>

-----------------------------------------------------------------------------
(* metrics.py scrape *)

\* A sample that fails is recorded as such.
Sample == \E v \in {served, Missing} : samples' = Append(samples, v)

\* The baseline.
ScrapeFirst ==
    /\ scraper = "born" /\ Sample /\ scraper' = "loop"
    /\ UNCHANGED <<select, served, runner, marker, stopping, tool, container, mishaps>>

ScrapeNext ==
    /\ scraper = "loop" /\ ~stopping /\ Len(samples) < MaxSamples /\ Sample
    /\ UNCHANGED <<select, served, runner, marker, scraper, stopping, tool, container, mishaps>>

\* The last one, after the SIGTERM.
ScrapeLast ==
    /\ scraper = "loop" /\ stopping /\ Sample /\ scraper' = "gone"
    /\ UNCHANGED <<select, served, runner, marker, stopping, tool, container, mishaps>>

ScraperDies ==
    /\ Calm /\ scraper \in {"born", "loop"} /\ scraper' = "gone"
    /\ mishaps' = mishaps \cup {"killed"}
    /\ UNCHANGED <<select, served, runner, marker, stopping, samples, tool, container>>

-----------------------------------------------------------------------------
(* benchmark.py *)

Tool(p) == tool' = p
ToolKeeps == UNCHANGED <<select, served, runner, marker, recorder>>

\* run_bench: docker exec.
ToolStarts ==
    /\ tool = "exec" /\ Tool("wait")
    /\ shell' = [shell EXCEPT ![attempt] = "asked"]
    /\ ToolKeeps /\ UNCHANGED <<client, pidfile, mishaps>>

ResultIsWhole(a) == client[a].left = 0 /\ ~client[a].failed

\* The client is over, its result is copied and read.
ToolReads ==
    /\ tool = "wait" /\ shell[attempt] = "waits" /\ ~client[attempt].alive
    /\ Tool(IF ResultIsWhole(attempt) THEN "clean ok" ELSE "clean err")
    /\ ToolKeeps /\ UNCHANGED <<container, mishaps>>

\* (For the mutation runs: an interrupted tool does not clean up.)
AbandonOnly == "err"

Abandon == "clean cut"

\* docker exec fails or is given up, or the cancel marker is seen.
ToolGivesUp ==
    /\ tool = "wait" /\ Tool(IF marker THEN Abandon ELSE "clean err")
    /\ ToolKeeps /\ UNCHANGED <<container, mishaps>>

ToolCleans == tool \in {"clean ok", "clean err", "clean cut"}

AfterCleaning == IF tool = "clean ok" THEN "ok" ELSE "err"
ClientAlive(a) == client[a].alive \/ shell[a] = "asked"

\* The cleanup kills the client's session, if there is a pid file, and if its
\* own docker exec succeeds.
ToolCleansUp ==
    /\ ToolCleans /\ Tool(AfterCleaning)
    /\ \/ /\ client' = IF pidfile[attempt] THEN [client EXCEPT ![attempt].alive = FALSE]
                       ELSE client
          /\ mishaps' = IF ClientAlive(attempt) /\ ~pidfile[attempt] THEN mishaps \cup {"unseen"}
                       ELSE mishaps
       \/ /\ Calm /\ UNCHANGED client
          /\ mishaps' = IF ClientAlive(attempt) THEN mishaps \cup {"uncleaned"} ELSE mishaps
    /\ ToolKeeps /\ UNCHANGED <<shell, pidfile>>

\* What a signal does to the tool: SIGTERM is a KeyboardInterrupt, and the
\* second one cuts the cleanup.
Interrupted == IF tool = "exec" \/ ToolCleans THEN "err"
               ELSE IF tool = "wait" THEN Abandon ELSE tool
CutShort == ToolCleans /\ ClientAlive(attempt)

-----------------------------------------------------------------------------
(* The runner *)

GotoMain(p) == main' = p
Needs(groups) == select \cap groups # {}
NeedsBaseline == Needs({"queue_time", "request_timeline"})

\* A round is begun, or begun again after a block; the files of an earlier
\* attempt are not read again.  (Bound: again only after a calm attempt, or
\* when its client is left behind.)
Open ==
    /\ main \in {"idle", "blocked"} /\ attempt < MaxAttempts /\ ~marker
    /\ mishaps \subseteq {"unseen", "uncleaned"}
    /\ client'  = [a \in Attempts |-> IF ClientAlive(a) THEN client[a] ELSE NoClient]
    /\ shell'   = [a \in Attempts |-> IF ClientAlive(a) THEN shell[a] ELSE "off"]
    /\ pidfile' = [a \in Attempts |-> ClientAlive(a) /\ pidfile[a]]
    /\ attempt' = attempt + 1 /\ verdict' = "none"
    /\ GotoMain(IF NeedsBaseline THEN "baseline" ELSE "call")
    /\ scraper' = "born" /\ stopping' = FALSE /\ samples' = <<>>
    /\ task' = "running" /\ monitor' = "on" /\ tool' = "off"
    /\ UNCHANGED <<select, served, marker, mishaps>>

\* The last sample is a valid one.
HasBaseline == samples # <<>> /\ Last(samples) # Missing

\* The wait for the baseline; without one the run is marked as blocked while
\* the monitor still writes.
Baseline ==
    /\ main = "baseline"
    /\ \/ HasBaseline /\ GotoMain("call") /\ UNCHANGED <<verdict, task>>
       \/ /\ ~HasBaseline
          /\ GotoMain("close") /\ verdict' = "blocked" /\ task' = "blocked"
       \/ marker /\ GotoMain("close") /\ verdict' = "cancelled" /\ UNCHANGED task
    /\ UNCHANGED <<select, served, attempt, monitor, marker, recorder, tool, container, mishaps>>

Call ==
    /\ main = "call" /\ GotoMain("wait") /\ Tool("exec")
    /\ UNCHANGED <<select, served, verdict, attempt, task, monitor, marker, recorder,
                   container, mishaps>>

\* The tool has printed its answer.
Answer ==
    /\ main = "wait" /\ tool \in {"ok", "err"}
    /\ GotoMain("close") /\ verdict' = tool
    /\ UNCHANGED <<select, served, attempt, task, monitor, marker, recorder, tool, container,
                   mishaps>>

\* run: the marker, a timeout; SIGTERM to the tool, ...
GiveUp ==
    /\ main = "wait" /\ tool \notin {"ok", "err"}
    /\ GotoMain("term") /\ verdict' = IF marker THEN "cancelled" ELSE "err"
    /\ Tool(Interrupted)
    /\ mishaps' = IF CutShort THEN mishaps \cup {"uncleaned"} ELSE mishaps
    /\ UNCHANGED <<select, served, attempt, task, monitor, marker, recorder, container>>

\* ... and SIGKILL when it is not gone in time.
Reap ==
    /\ main = "term" /\ GotoMain("close")
    /\ \/ tool \in {"ok", "err"} /\ UNCHANGED <<tool, mishaps>>
       \/ /\ tool \notin {"ok", "err"} /\ Tool("err")
          /\ mishaps' = IF ClientAlive(attempt) THEN mishaps \cup {"uncleaned"} ELSE mishaps
    /\ UNCHANGED <<select, served, verdict, attempt, task, monitor, marker, recorder, container>>

Stopped == IF monitor = "on" THEN "off" ELSE monitor

\* monitor.close: a thread that writes is waited for, but not for ever.
Close ==
    /\ main = "close" /\ GotoMain("finish")
    /\ monitor' = Stopped
    /\ mishaps' = IF monitor = "read" THEN mishaps \cup {"slow"} ELSE mishaps
    /\ UNCHANGED <<select, served, verdict, attempt, task, marker, recorder, tool, container>>

\* _finish_scrape: SIGTERM; a scraper that has no handler yet dies of it.
FinishRound ==
    /\ main = "finish" /\ ~stopping
    /\ IF scraper = "born" THEN scraper' = "gone" ELSE UNCHANGED scraper
    /\ stopping' = TRUE
    /\ UNCHANGED <<select, served, runner, marker, samples, tool, container, mishaps>>

Finished == stopping /\ scraper = "gone"

\* pending_round, or the block.
Saved ==
    \/ verdict = "ok" /\ GotoMain("collect") /\ task' = "completed"
    \/ verdict = "err" /\ GotoMain("blocked") /\ task' = "failed"
    \/ verdict \notin {"ok", "err"} /\ GotoMain(verdict) /\ UNCHANGED task

\* The scraper is gone, or is killed after 25 s.
Settle ==
    /\ main = "finish"
    /\ \/ Finished /\ UNCHANGED <<scraper, mishaps>>
       \/ /\ stopping /\ scraper = "loop"
          /\ scraper' = "gone" /\ mishaps' = mishaps \cup {"killed"}
    /\ Saved
    /\ UNCHANGED <<select, served, verdict, attempt, monitor, marker, stopping, samples, tool,
                   container>>

-----------------------------------------------------------------------------
(* metrics.py collect *)

\* The samples that did not fail.
WithSample(kept, i) == IF samples[i] = Missing THEN kept ELSE Append(kept, samples[i])
Valid ==
    LET kept[i \in 0 .. Len(samples)] == IF i = 0 THEN <<>> ELSE WithSample(kept[i - 1], i)
    IN  kept[Len(samples)]

\* _delta: the last value minus the first, unless the counter was reset.
Delta ==
    IF Len(Valid) < 2 \/ \E i \in 1 .. Len(Valid) - 1 : Valid[i] > Valid[i + 1]
    THEN Missing ELSE Last(Valid) - Head(Valid)

\* The problems that collect reports.
MeanMissing     == Needs({"queue_time", "server"}) /\ Delta \in {Missing, 0}

\* (For the mutation runs: samples that failed are not looked for.)
TimelineShort == Needs({"request_timeline"}) /\ Len(samples) < 2

TimelineMissing == /\ Needs({"request_timeline"})
                   /\ Len(samples) < 2 \/ \E i \in DOMAIN samples : samples[i] = Missing
Complete == ~MeanMissing /\ ~TimelineMissing

Collect ==
    /\ main = "collect"
    /\ GotoMain(IF marker THEN "cancelled" ELSE IF Complete THEN "complete" ELSE "partial")
    /\ UNCHANGED <<select, served, verdict, attempt, task, monitor, marker, recorder, tool,
                   container, mishaps>>

-----------------------------------------------------------------------------
(* _RoundMonitor: a thread that reads tasks.json and writes it back. *)

\* (What it reads at another time, it writes back before the runner writes.)
MonitorReads ==
    /\ monitor = "on" /\ main \in {"baseline", "close", "finish"}/\ monitor' = "read"
    /\ UNCHANGED <<select, served, main, verdict, attempt, task, marker, recorder, tool,
                   container, mishaps>>

MonitorWrites ==
    /\ monitor = "read" /\ task' = "running"
    /\ monitor' = IF main \in {"baseline", "call", "close"} THEN "on" ELSE "off"
    /\ UNCHANGED <<select, served, main, verdict, attempt, marker, recorder, tool, container,
                   mishaps>>

\* (It matters when the runner looks at the marker next.)
CancelRound ==
    /\ ~marker /\ main \in {"baseline", "wait", "collect"}
    /\ marker' = TRUE
    /\ UNCHANGED <<select, served, runner, recorder, tool, container, mishaps>>

-----------------------------------------------------------------------------
InContainer == \E a \in Attempts : ShellStarts(a) \/ ShellWrites(a) \/ Request(a) \/ ClientEnds(a)
Scrapes  == ScrapeFirst \/ ScrapeNext \/ ScrapeLast
Tools    == ToolStarts \/ ToolReads \/ ToolGivesUp \/ ToolCleansUp
RunsTool     == Baseline \/ Call \/ Answer \/ GiveUp \/ Reap \/ Close \/ FinishRound \/ Settle \/ Collect
Monitors == MonitorReads \/ MonitorWrites

RoundNext == \/ InContainer \/ ServerRestarts
        \/ Scrapes \/ ScraperDies
        \/ Tools \/ Open \/ RunsTool \/ Monitors \/ CancelRound

-----------------------------------------------------------------------------
Over == {"blocked", "cancelled", "complete", "partial"}

\* Metrics that are accepted as complete are those of the round: they never
\* count a request that the round did not make, and with the timeline, which
\* no sample may be missing from, they count every one of them.  Not so when the
\* server was restarted unnoticed, the scraper was killed, or a client of an
\* earlier attempt is still at work; but a counter never runs backwards.
CompleteCoversRound ==
    main = "complete" /\ Needs({"queue_time", "server"}) =>
        /\ Delta > 0
        /\ mishaps \subseteq {"slow"} =>
              /\ Delta <= Requests
              /\ Needs({"request_timeline"}) => Delta = Requests

\* A client never outlives its round, to disturb the next one, unless its
\* cleanup failed, was cut short, or came before the client had a pid file.
ClientsAlone ==
    \/ mishaps \cap {"unseen", "uncleaned"} # {}
    \/ \A a \in Attempts : ClientAlive(a) => a = attempt /\ main \notin Over \cup {"collect"}

\* A round whose result is saved was measured to its end: every request was
\* answered, and nobody writes its samples any more.
SavedIsFinal ==
    main \in {"collect", "complete", "partial"} => ResultIsWhole(attempt) /\ scraper = "gone"

\* When the command is over the task list does not show the round as running,
\* except after a missing baseline, which is marked while the monitor is still
\* at work, or when the monitor was too slow to be waited for.
ShownAsIs ==
    main \in Over \ {"cancelled"} /\ task = "running" => verdict = "blocked" \/ "slow" \in mishaps

\* A round that is over: its result is final, its metrics cover it, and the task
\* list shows it as it ended.
RoundIsSound == CompleteCoversRound /\ SavedIsFinal /\ ShownAsIs
=============================================================================
