------------------------------ MODULE BenchRun ------------------------------
(***************************************************************************)
(* One run of the vLLM benchmark agent.  Each command (run, resume, start,  *)
(* bench, done, ...) is a short-lived process that advances the workflow    *)
(* saved in the run's state.json; execution.lock admits one at a time.      *)
(* Every save that a later command can tell apart is a step, and between    *)
(* two of them the command may crash, raise, or be interrupted: by a        *)
(* signal, or by the marker file that `cancel` leaves when another command  *)
(* is executing.                                                            *)
(* Two things make two experiments differ, and are saved apart: the         *)
(* configuration (benchmark.yaml and overrides) and the runtime options     *)
(* (tokenizer, local, visible_devices).                                     *)
(***************************************************************************)
EXTENDS Integers, Sequences

CONSTANTS Configs,    \* configurations
          Valid,      \* those that normalize() accepts
          Options,    \* runtime options that a command can set
          Services,   \* ways to launch vLLM
          Svc,        \* the service a configuration asks for
          Rounds,     \* the number of rounds it asks for
          ResumeFlags,  \* combinations of resume's flags
          MaxGrants,  \* bound on accept-partial grants that are not used yet
          NoCfg, NoOptions, NoService

ASSUME BenchRunAssumption ==
    /\ Valid \subseteq Configs
    /\ Svc \in [Configs -> Services]
    /\ Rounds \in [Configs -> Nat \ {0}]
    /\ ResumeFlags \subseteq (SUBSET {"reload", "accept", "retry"}) \cup {{"modify"}}
    /\ MaxGrants \in Nat
    /\ NoCfg \notin Configs /\ NoOptions \notin Options /\ NoService \notin Services

VARIABLES
    state,      \* the workflow state in state.json, and its meta:
    cfg,        \*   config
    opts,       \*   runtime_options
    runs,       \*   completed_runs: the rounds that will be reported
    pending,    \*   pending_round: benchmarked, metrics not collected yet
    accept,     \*   accept_partial_round: rounds completed when it was granted
    issue,      \*   issue: why the run is blocked, and where to resume
    started,    \*   service_started
    marker,     \* the cancel marker exists
    cmd,        \* the command that is executing
    container,  \* the vLLM service in the container, and by whom it was launched;
                \* "reused": by somebody else, and found by a probe of this run
    \* history, read by properties only
    unused,     \* accept-partial grants minus rounds completed without all metrics
    broken      \* a command crashed, raised, or refused overrides that it had saved
                \* in part

rounds == <<runs, pending, accept>>
hist   == <<unused, broken>>
exper  == <<cfg, opts>>
vars == <<state, exper, rounds, issue, started, marker, cmd, container, hist>>

-----------------------------------------------------------------------------
Experiment   == [cfg |-> cfg, opts |-> opts]
NoExperiment == [cfg |-> NoCfg, opts |-> NoOptions]
NoRound  == [round |-> 0, by |-> NoExperiment]
NoIssue  == [reason |-> "none", resume |-> "none"]
Empty    == [svc |-> NoService, by |-> "none"]
Idle     == [pc |-> "idle", op |-> "none", before |-> NoExperiment, flags |-> {},
             issue |-> NoIssue]

Init ==
    /\ state = "IDLE" /\ cfg = NoCfg /\ opts = NoOptions
    /\ runs = <<>> /\ pending = NoRound /\ accept = {}
    /\ issue = NoIssue /\ started = FALSE
    /\ marker = FALSE /\ cmd = Idle /\ container = Empty
    /\ unused = 0 /\ broken = FALSE

-----------------------------------------------------------------------------
(* workflow/benchmark.yaml *)

Waiting == {"WAITING_RESOURCE", "WAITING_DEVICE"}
Final   == {"DONE", "CANCELLED"}
States  == {"IDLE", "ENV_CHECK", "REPORT", "PROBE_SERVICE", "START_SERVICE", "HEALTH",
            "BENCHMARK", "COLLECT", "ANALYZE", "STOP_SERVICE",
            "WAIT_USER_DECISION"} \cup Waiting \cup Final
\* Why a run is blocked: only metrics_incomplete is ever told apart.
Reasons == {"none", "metrics_incomplete", "other"}

\* The resume_* events a state accepts.
Resumable(s) ==
    CASE s = "WAIT_USER_DECISION" -> {"IDLE", "ENV_CHECK", "PROBE_SERVICE", "HEALTH",
                                      "BENCHMARK", "COLLECT"}
      [] s \in Waiting -> {"PROBE_SERVICE"}
      [] OTHER -> {}

\* The event block: final states refuse it, and a blocked run stays blocked.
Blocked(s) == IF s \in Final THEN s ELSE "WAIT_USER_DECISION"

\* (For the mutation runs: cancel overwrites any state.)
CancelledFromAny(s) == "CANCELLED"

\* cmd_cancel leaves a final state alone; every other one accepts cancel.
CancelledFrom(s) == IF s \in Final THEN s ELSE "CANCELLED"

-----------------------------------------------------------------------------
At(p)   == cmd.pc = p
Goto(p) == cmd' = [cmd EXCEPT !.pc = p]
EndCmd  == cmd' = Idle
\* Go on, and forget flags that have been dealt with.
GotoDrop(p, flags) == cmd' = [cmd EXCEPT !.pc = p, !.flags = @ \ flags]

\* run, resume and a bench that found a new configuration go on to the next
\* stage (_drive); the other commands end with theirs.
StageDone == IF cmd.op = "drive" THEN Goto("drive") ELSE EndCmd
DriveOn   == cmd' = [Idle EXCEPT !.pc = "drive", !.op = "drive"]

\* _block: the transition is saved first and the issue by the next save.
Block(reason, resume) ==
    /\ state' = Blocked(state)
    /\ cmd' = [Idle EXCEPT !.pc = "issue",
                           !.issue = [reason |-> reason, resume |-> resume]]

SaveIssue ==
    /\ At("issue")
    /\ issue' = cmd.issue /\ EndCmd
    /\ UNCHANGED <<state, exper, rounds, started, marker, container, hist>>

-----------------------------------------------------------------------------
(* Faulty versions of definitions below, for the mutation runs. *)

\* One round too many.
MoreRoundsOffByOne == Len(runs) <= Rounds[cfg]

\* Completed rounds survive a change of the configuration.
DropRoundsKeepsThem == UNCHANGED <<runs, pending>>

\* Only the pending round is dropped.
DropRoundsPendingOnly == pending' = NoRound /\ UNCHANGED runs

-----------------------------------------------------------------------------
(* How a command starts, and how it freezes its experiment. *)

Begin(op, pc, flags) ==
    /\ cmd = Idle
    /\ cmd' = [pc |-> pc, op |-> op, before |-> Experiment, flags |-> flags,
               issue |-> NoIssue]

\* _config_for_run saves the runtime options first; run, bench and resume set
\* them.
SaveOptions == opts' \in Options \cup {opts}

BeginRun ==
    /\ state = "IDLE" /\ cfg = NoCfg /\ Begin("run", "validate", {}) /\ SaveOptions
    /\ UNCHANGED <<state, cfg, rounds, issue, started, marker, container, hist>>

\* The stages as commands of their own.
BeginStage ==
    /\ \/ /\ state \in {"IDLE", "ENV_CHECK"}
          /\ Begin("env-check", "validate", {}) /\ UNCHANGED opts
       \/ /\ state \in {"REPORT", "PROBE_SERVICE", "HEALTH"}
          /\ Begin("start", "validate", {}) /\ UNCHANGED opts
       \/ /\ state \in {"BENCHMARK", "COLLECT"}
          /\ Begin("bench", "validate", {}) /\ SaveOptions
    /\ UNCHANGED <<state, cfg, rounds, issue, started, marker, container, hist>>

\* resume, or confirm-start (which knows --modify and none of the other flags).
BeginResume(flags) ==
    /\ state \in Waiting \cup {"WAIT_USER_DECISION"}
    /\ "accept" \in flags => unused < MaxGrants
    /\ IF "reload" \in flags THEN Begin("resume", "reload", flags) /\ UNCHANGED opts
                              ELSE Begin("resume", "validate", flags) /\ SaveOptions
    /\ "modify" \in flags => UNCHANGED opts
    /\ UNCHANGED <<state, cfg, rounds, issue, started, marker, container, hist>>

\* Where a refused configuration sends the run.
RefusedAt ==
    CASE cmd.op \in {"run", "env-check"} -> "IDLE"
      [] cmd.op = "start" -> "PROBE_SERVICE"
      [] cmd.op = "bench" -> "BENCHMARK"
      [] OTHER -> IF issue = NoIssue THEN "IDLE" ELSE issue.resume

\* resume --reload-config saves the file's configuration unvalidated, or
\* blocks when it cannot be read.
Reload ==
    /\ At("reload") /\ ~marker
    /\ \/ \E c \in Configs : cfg' = c /\ GotoDrop("options", {"reload"}) /\ UNCHANGED state
       \/ Block("other", RefusedAt) /\ UNCHANGED cfg
    /\ UNCHANGED <<opts, rounds, issue, started, marker, container, hist>>

ReloadOptions ==
    /\ At("options") /\ SaveOptions /\ Goto("validate")
    /\ UNCHANGED <<state, cfg, rounds, issue, started, marker, container, hist>>

\* The rest of _config_for_run: apply the command's overrides, validate, save.
\* Without a saved configuration the file is read; env-check has no overrides,
\* so that it can be refused only by what is saved or read.
Freeze ==
    /\ At("validate")
    /\ \/ /\ cfg' \in Valid /\ (cmd.op = "env-check" /\ cfg # NoCfg => UNCHANGED cfg)
          /\ CASE cmd.op = "run"       -> DriveOn
               [] cmd.op = "env-check" -> Goto("env")
               [] cmd.op = "start"     -> Goto(IF state = "HEALTH" THEN "health" ELSE "probe")
               [] cmd.op = "bench"     -> Goto("compare")
               [] OTHER                -> Goto("settle")
          /\ UNCHANGED <<state, broken>>
       \/ /\ cmd.op # "env-check" \/ cfg \notin Valid
          /\ Block("other", RefusedAt)
          /\ broken' = (broken \/ Experiment # cmd.before)
          /\ UNCHANGED cfg
    /\ UNCHANGED <<opts, rounds, issue, started, marker, container, unused>>

DropRounds == runs' = <<>> /\ pending' = NoRound

\* resume compares with the experiment it found.
Settle ==
    /\ At("settle")
    /\ IF Experiment # cmd.before THEN DropRounds ELSE UNCHANGED <<runs, pending>>
    /\ Goto("decide")
    /\ UNCHANGED <<state, exper, accept, issue, started, marker, container, hist>>

\* --accept-partial needs a saved round that lacks metrics; --retry-round
\* forgets that round; --modify ends here.
Decide ==
    /\ At("decide")
    /\ IF /\ "accept" \in cmd.flags
          /\ issue.reason # "metrics_incomplete" \/ pending = NoRound
       THEN EndCmd /\ UNCHANGED <<accept, pending, unused>>
       ELSE /\ IF "accept" \in cmd.flags
               THEN accept' = {Len(runs)} /\ unused' = unused + 1
               ELSE UNCHANGED <<accept, unused>>
            /\ pending' = IF "retry" \in cmd.flags THEN NoRound ELSE pending
            /\ IF "modify" \in cmd.flags THEN EndCmd
                                          ELSE GotoDrop("go", {"accept", "retry"})
    /\ UNCHANGED <<state, exper, runs, issue, started, marker, container, broken>>

ResumeAt == IF issue = NoIssue THEN "PROBE_SERVICE" ELSE issue.resume
Target ==
    IF Experiment = cmd.before THEN ResumeAt
    ELSE IF ResumeAt \in {"IDLE", "ENV_CHECK"} THEN "IDLE" ELSE "PROBE_SERVICE"

\* The workflow may have no resume event for the target.
Go ==
    /\ At("go")
    /\ IF Target \in Resumable(state) THEN state' = Target /\ Goto("clear")
                                      ELSE EndCmd /\ UNCHANGED state
    /\ UNCHANGED <<exper, rounds, issue, started, marker, container, hist>>

ClearIssue ==
    /\ At("clear") /\ issue' = NoIssue /\ DriveOn
    /\ UNCHANGED <<state, exper, rounds, started, marker, container, hist>>

-----------------------------------------------------------------------------
(* The stages.  A tool is not started while the cancel marker exists.      *)
(* A stage of _drive freezes the experiment again, without overrides.      *)

Drive ==
    /\ At("drive") /\ ~marker
    /\ CASE state \in {"IDLE", "ENV_CHECK"}       -> Goto("env")
         [] state \in {"REPORT", "PROBE_SERVICE"} -> Goto("probe")
         [] state = "HEALTH"                      -> Goto("health")
         [] state \in {"BENCHMARK", "COLLECT"}    -> Goto("open")
         [] OTHER                                 -> EndCmd
    /\ UNCHANGED <<state, exper, rounds, issue, started, marker, container, hist>>

\* cmd_env_check.
EnvCheck ==
    /\ At("env")
    /\ \/ state = "IDLE" /\ state' = "ENV_CHECK" /\ UNCHANGED cmd
       \/ state = "ENV_CHECK" /\ ~marker /\ state' = "REPORT" /\ StageDone
       \/ state = "ENV_CHECK" /\ ~marker /\ Block("other", "ENV_CHECK")
    /\ UNCHANGED <<exper, rounds, issue, started, marker, container, hist>>

Matches == container.svc = Svc[cfg]
Own     == [svc |-> Svc[cfg], by |-> "run"]

\* cmd_start: reuse a matching service, launch one if none is there, wait for
\* a device (the issue is saved first), or block (probe failed, other service,
\* no start wanted).
Probe ==
    /\ At("probe")
    /\ \/ /\ state = "REPORT" /\ state' = "PROBE_SERVICE"
          /\ UNCHANGED <<issue, cmd, container>>
       \/ /\ state = "PROBE_SERVICE" /\ ~marker
          /\ \/ /\ Matches
                /\ container' = [container EXCEPT !.by = IF @ = "run" THEN @ ELSE "reused"]
                /\ state' = "HEALTH" /\ Goto("health") /\ UNCHANGED issue
             \/ /\ container = Empty
                /\ state' = "START_SERVICE" /\ Goto("launch")
                /\ UNCHANGED <<issue, container>>
             \/ /\ issue' = [reason |-> "other", resume |-> "PROBE_SERVICE"]
                /\ Goto("wait") /\ UNCHANGED <<state, container>>
             \/ Block("other", "PROBE_SERVICE") /\ UNCHANGED <<issue, container>>
    /\ UNCHANGED <<exper, rounds, started, marker, hist>>

Wait ==
    /\ At("wait") /\ state' \in Waiting /\ EndCmd
    /\ UNCHANGED <<exper, rounds, issue, started, marker, container, hist>>

\* _start_service: a launch that is reported as failed may have succeeded.
Launch ==
    /\ At("launch") /\ ~marker /\ container = Empty
    /\ \/ container' = Own /\ Goto("launched") /\ UNCHANGED state
       \/ container' \in {container, Own} /\ Block("other", "PROBE_SERVICE")
    /\ UNCHANGED <<exper, rounds, issue, started, marker, hist>>

\* Another service has taken the port since the probe.
LaunchRefused ==
    /\ At("launch") /\ ~marker /\ container # Empty
    /\ Block("other", "PROBE_SERVICE")
    /\ UNCHANGED <<exper, rounds, issue, started, marker, container, hist>>

Launched ==
    /\ At("launched")
    /\ started' = TRUE /\ state' = "HEALTH" /\ Goto("health")
    /\ UNCHANGED <<exper, rounds, issue, marker, container, hist>>

\* _wait_health, with its bounded retries.
Health ==
    /\ At("health") /\ ~marker
    /\ \/ Matches /\ state' = "BENCHMARK" /\ StageDone
       \/ Block("other", "PROBE_SERVICE")
    /\ UNCHANGED <<exper, rounds, issue, started, marker, container, hist>>

\* cmd_bench with another experiment than the run's: drop the rounds, then go
\* back to the probe.
Compare ==
    /\ At("compare")
    /\ IF Experiment = cmd.before THEN Goto("open") /\ UNCHANGED <<runs, pending>>
                                   ELSE Goto("recheck") /\ DropRounds
    /\ UNCHANGED <<state, exper, accept, issue, started, marker, container, hist>>

Recheck ==
    /\ At("recheck")
    /\ state' = "PROBE_SERVICE"
    /\ DriveOn
    /\ UNCHANGED <<exper, rounds, issue, started, marker, container, hist>>

\* The directory of the report must be writable.
Open ==
    /\ At("open")
    /\ \/ Goto("bench") /\ UNCHANGED state
       \/ Block("other", "BENCHMARK")
    /\ UNCHANGED <<exper, rounds, issue, started, marker, container, hist>>

MoreRounds == Len(runs) < Rounds[cfg]

\* The next round; its raw result is saved before its metrics are collected.
BenchRound ==
    /\ At("bench") /\ ~marker /\ MoreRounds /\ pending = NoRound
    /\ \/ /\ container # Empty
          /\ pending' = [round |-> Len(runs) + 1, by |-> Experiment]
          /\ UNCHANGED <<state, cmd>>
       \/ Block("other", "BENCHMARK") /\ UNCHANGED pending
    /\ UNCHANGED <<exper, runs, accept, issue, started, marker, container, hist>>

\* One save completes the round and forgets the pending one.
Complete ==
    /\ runs' = Append(runs, pending)
    /\ pending' = NoRound

UseGrant == accept' = {}

\* Metrics are missing: the round is completed all the same if that has been
\* granted; the grant is taken first.
Collect ==
    /\ At("bench") /\ ~marker /\ MoreRounds /\ pending # NoRound
    /\ \/ Complete /\ UNCHANGED <<state, cmd, accept>>
       \/ IF accept = {Len(runs)}
          THEN UseGrant /\ Goto("partial") /\ UNCHANGED <<state, runs, pending>>
          ELSE Block("metrics_incomplete", "BENCHMARK") /\ UNCHANGED rounds
    /\ UNCHANGED <<exper, issue, started, marker, container, hist>>

CompletePartial ==
    /\ At("partial")
    /\ Complete /\ unused' = unused - 1 /\ Goto("bench")
    /\ UNCHANGED <<state, exper, accept, issue, started, marker, container, broken>>

\* After the last round: COLLECT is saved, the report is written, then ANALYZE.
\* The report is the experiment and runs: no command that ANALYZE admits changes them.
WriteReport ==
    /\ At("bench") /\ ~MoreRounds
    /\ \/ state = "BENCHMARK" /\ state' = "COLLECT" /\ UNCHANGED cmd
       \/ state = "COLLECT" /\ Goto("analyze") /\ UNCHANGED state
       \/ state = "COLLECT" /\ Block("other", "COLLECT")
    /\ UNCHANGED <<exper, rounds, issue, started, marker, container, hist>>

\* The transition, then the task list and the answer.
Analyze ==
    /\ \/ At("analyze") /\ state' = "ANALYZE" /\ Goto("analyzed")
       \/ At("analyzed") /\ EndCmd /\ UNCHANGED state
    /\ UNCHANGED <<exper, rounds, issue, started, marker, container, hist>>

-----------------------------------------------------------------------------
(* done, stop and cancel *)

BeginDone ==
    /\ state = "ANALYZE" /\ Begin("done", "cleanup", {}) /\ state' = "STOP_SERVICE"
    /\ UNCHANGED <<exper, rounds, issue, started, marker, container, hist>>

\* done stops the service if this run started it; the stop may be switched
\* off by the configuration, and its failure does not matter.
Cleanup ==
    /\ At("cleanup")
    /\ \/ started /\ ~marker /\ container' = Empty
       \/ UNCHANGED container
    /\ Goto("finish")
    /\ UNCHANGED <<state, exper, rounds, issue, started, marker, hist>>

Finish ==
    /\ At("finish") /\ state' = "DONE" /\ EndCmd
    /\ UNCHANGED <<exper, rounds, issue, started, marker, container, hist>>

\* stop: in any state, whoever started the service.
BeginStop ==
    /\ Begin("stop", "stop", {})
    /\ UNCHANGED <<state, exper, rounds, issue, started, marker, container, hist>>

Stop ==
    /\ At("stop") /\ ~marker
    /\ container' \in {container, Empty} /\ EndCmd
    /\ UNCHANGED <<state, exper, rounds, issue, started, marker, hist>>

\* cancel while nothing executes, or else its marker (never removed).
Cancel ==
    /\ IF cmd = Idle THEN state' = CancelledFrom(state) /\ UNCHANGED marker
                     ELSE marker' = TRUE /\ UNCHANGED state
    /\ UNCHANGED <<exper, rounds, issue, started, cmd, container, hist>>

-----------------------------------------------------------------------------
(* How a command may end at any point. *)

Executing == cmd # Idle

\* SIGTERM, Ctrl-C, or a tool or check that sees the marker: cmd_cancel runs.
Interrupt ==
    /\ Executing
    /\ state' = CancelledFrom(state) /\ EndCmd
    /\ UNCHANGED <<exper, rounds, issue, started, marker, container, hist>>

\* Any other exception blocks the run, to be resumed where it stands.
ExecutionError ==
    /\ Executing
    /\ Block("other", IF state \in {"START_SERVICE", "REPORT"} THEN "PROBE_SERVICE" ELSE state)
    /\ broken' = TRUE
    /\ UNCHANGED <<exper, rounds, issue, started, marker, container, unused>>

\* The process is killed.
Crash ==
    /\ Executing /\ EndCmd /\ broken' = TRUE
    /\ UNCHANGED <<state, exper, rounds, issue, started, marker, container, unused>>

\* Somebody else's doing: a service ends, or is launched in its place.
Outside ==
    /\ \/ container # Empty /\ container' = Empty
       \/ container = Empty /\ \E s \in Services : container' = [svc |-> s, by |-> "other"]
    /\ UNCHANGED <<state, exper, rounds, issue, started, marker, cmd, hist>>

-----------------------------------------------------------------------------
Next ==
    \/ BeginRun \/ BeginStage \/ BeginDone \/ BeginStop \/ Cancel
    \/ \E flags \in ResumeFlags : BeginResume(flags)
    \/ Reload \/ ReloadOptions \/ Freeze \/ Settle \/ Decide \/ Go \/ ClearIssue \/ SaveIssue
    \/ Drive \/ EnvCheck \/ Probe \/ Wait \/ Launch \/ LaunchRefused \/ Launched \/ Health
    \/ Compare \/ Recheck \/ Open \/ BenchRound \/ Collect \/ CompletePartial
    \/ WriteReport \/ Analyze
    \/ Cleanup \/ Finish \/ Stop
    \/ Interrupt \/ ExecutionError \/ Crash \/ Outside

Spec == Init /\ [][Next]_vars

-----------------------------------------------------------------------------
Issues == [reason : Reasons, resume : States \cup {"none"}]
Ops    == {"none", "run", "env-check", "start", "bench", "resume", "drive", "done", "stop"}
\* The steps that come before a configuration is frozen, or need none, ...
FreeSteps == {"idle", "issue", "reload", "options", "validate", "cleanup", "finish", "stop"}
\* ... and those that read it.
Steps  == FreeSteps \cup {"settle", "decide", "go", "clear", "drive", "env", "probe",
                          "wait", "launch", "launched", "health", "compare", "recheck",
                          "open", "bench", "partial", "analyze", "analyzed"}
Experiments == [cfg : Configs \cup {NoCfg}, opts : Options \cup {NoOptions}]
Commands == [pc : Steps, op : Ops, before : Experiments,
             flags : SUBSET {"reload", "accept", "retry", "modify"}, issue : Issues]

\* The saved state and the command in progress have their types,
\* and no more rounds are kept than the largest configuration asks for.
TypeOK ==
    /\ state \in States
    /\ cfg \in Configs \cup {NoCfg} /\ opts \in Options \cup {NoOptions}
    /\ runs \in Seq([round : Nat \ {0}, by : Experiments])
    /\ runs = <<>> \/ \E c \in Configs : Len(runs) <= Rounds[c]
    /\ pending = NoRound \/ pending \in [round : Nat \ {0}, by : Experiments]
    /\ accept \subseteq Nat
    /\ issue \in Issues
    /\ cmd \in Commands
    /\ started \in BOOLEAN /\ marker \in BOOLEAN /\ broken \in BOOLEAN
    /\ container \in [svc : Services \cup {NoService}, by : {"none", "run", "other", "reused"}]
    /\ unused \in Int
    /\ cmd.pc \notin FreeSteps => cfg \in Configs

\* The rounds that are kept are those of the sweep in its order, each once,
\* and the pending one is the next, whatever was interrupted: a crash neither
\* repeats nor skips a round.
RoundsInOrder ==
    /\ \A i \in DOMAIN runs : runs[i].round = i
    /\ pending # NoRound => pending.round = Len(runs) + 1

\* Each round with incomplete metrics that was ever completed has an
\* accept-partial of its own, across changes of the configuration, retries
\* and crashes.
AcceptedOnce == unused >= 0

\* Each step is reached in the states it was written for.
StepFitsState ==
    /\ At("reload") \/ At("options") => cmd.op = "resume"
    /\ At("validate") =>
          CASE cmd.op = "env-check" -> state \in {"IDLE", "ENV_CHECK"}
            [] cmd.op = "start"     -> state \in {"REPORT", "PROBE_SERVICE", "HEALTH"}
            [] cmd.op = "bench"     -> state \in {"BENCHMARK", "COLLECT"}
            [] OTHER                -> TRUE
    /\ At("env") => state \in {"IDLE", "ENV_CHECK"}
    /\ At("probe") => state \in {"REPORT", "PROBE_SERVICE"}
    /\ At("wait") => state = "PROBE_SERVICE"
    /\ At("launch") \/ At("launched") => state = "START_SERVICE"
    /\ At("health") => state = "HEALTH"
    /\ \/ At("compare") \/ At("recheck") \/ At("open") \/ At("bench") \/ At("partial")
       => state \in {"BENCHMARK", "COLLECT"}
    /\ At("analyze") => state = "COLLECT"
    /\ At("cleanup") \/ At("finish") => state = "STOP_SERVICE"

\* Between taking a grant and completing the round that it is for.
PartialFits ==
    At("partial") => accept = {} /\ unused >= 1 /\ pending # NoRound /\ MoreRounds

\* A run that nothing has gone wrong with: what resume, bench and the report
\* rely on is only promised for it.
Intact == ~broken /\ state # "CANCELLED"

Reported == {"ANALYZE", "STOP_SERVICE", "DONE"}
Measuring == {"BENCHMARK", "COLLECT"}
Early == States \ (Measuring \cup Reported \cup {"WAIT_USER_DECISION", "CANCELLED"})
Unmeasured == runs = <<>> /\ pending = NoRound

\* Who is changing the experiment, or may have changed it, compares it with the
\* one that was there before; until then the rounds are of the latter.
Comparing == {"reload", "options", "validate", "settle", "compare"}
Measured == IF cmd.pc \in Comparing THEN cmd.before ELSE Experiment

RoundsAreMeasured ==
    /\ \A i \in DOMAIN runs : runs[i].by = Measured
    /\ pending # NoRound => pending.by = Measured
    /\ runs # <<>> => Len(runs) <= Rounds[Measured.cfg]

\* Where a run without rounds of its experiment stands, or will go on.
UnmeasuredFirst ==
    /\ state \in Early => Unmeasured
    /\ state = "WAIT_USER_DECISION" /\ ~At("issue") => issue.resume \in Measuring \/ Unmeasured
    /\ At("issue") => cmd.issue.resume \in Measuring \/ Unmeasured
    /\ At("recheck") => Unmeasured
    /\ (At("decide") \/ At("go")) /\ Experiment # cmd.before => Unmeasured

Finished == At("analyze") \/ state \in Reported => Len(runs) = Rounds[cfg]

\* The states of a command that settles the experiment.
SettlingFits ==
    /\ At("reload") \/ At("options") \/ At("settle") \/ At("decide") \/ At("go") =>
          state \in Waiting \cup {"WAIT_USER_DECISION"}
    /\ At("reload") => Experiment = cmd.before
    /\ At("validate") =>
          \/ cmd.op = "resume" /\ state \in Waiting \cup {"WAIT_USER_DECISION"}
          \/ cmd.op = "run" /\ state = "IDLE"
          \/ cmd.op \in {"env-check", "start", "bench"}
    /\ At("clear") => state # "WAIT_USER_DECISION" /\ state \notin Final \cup Reported

\* What makes the properties inductive: a grant that is still there, or has
\* just been taken, has not been used; and the rounds are those of the
\* experiment that the command in progress will find.
InductiveInv ==
    /\ TypeOK
    /\ RoundsInOrder
    /\ AcceptedOnce
    /\ accept # {} => unused >= 1
    /\ PartialFits
    /\ StepFitsState
    /\ SettlingFits
    /\ Intact => RoundsAreMeasured /\ UnmeasuredFirst /\ Finished

\* As long as no command has crashed, raised, or refused overrides that it had
\* saved in part: the report holds the rounds of its experiment, all of them,
\* and no round of another one.
ReportIsWhole ==
    state \in Reported /\ ~broken =>
        /\ Len(runs) = Rounds[cfg]
        /\ \A i \in DOMAIN runs : runs[i].by = Experiment

\* Under the same proviso nothing has been measured before the service of the
\* configuration is healthy: the overrides of a start, which drop no rounds,
\* can only hit a run without rounds.
NothingMeasuredEarly == state \in Early /\ ~broken => Unmeasured

\* A finished or cancelled run stays so, whatever command, marker or error
\* comes after.
FinalIsFinal == [][(state \in Final) => state' = state]_vars

-----------------------------------------------------------------------------
(* Claims of comments and documents that the code does not keep. *)

\* "A changed experiment must not silently reuse rounds from another
\* configuration."
RoundsOfOneConfig ==
    state \in Reported => \A i \in DOMAIN runs : runs[i].by = Experiment

\* A blocked run can be resumed: "resume applies the user's exception decision
\* and continues the saved run".
BlockedCanResume ==
    cmd = Idle /\ state = "WAIT_USER_DECISION" => ResumeAt \in Resumable(state)

\* done does not stop a service that it has reused.
ReusedIsKept ==
    [][At("cleanup") /\ cmd'.pc = "finish" /\ container' # container
            => container.by # "reused"]_vars
=============================================================================
