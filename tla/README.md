# TLA+ models of witty-agents

The repository holds several agents that work on operating-system and AI-serving
installations: crash and log analysis (`shennong-crash-agent`), benchmarks of vLLM
services (`vllm-benchmark-agent`), kernel data sets (`kernel-dataset-agent`), operations
(`openeuler-ops-agent`), natural language to SQL (`NL2sql-Agent`), and material around
them. This directory models the parts whose correctness depends on an order: processes or
coroutines that share a table, a file or a lock, calls that stop half way, and passes over
data whose last element, empty case or limit is easy to get wrong.

Paths are relative to `src/`. Four prefixes are abbreviated:

| | |
|---|---|
| `WLD` | `shennong-crash-agent/skills/witty-log-detection/src` |
| `CM` | `shennong-crash-agent/skills/crash-feature-matcher/src/crash_matcher` |
| `CR` | `shennong-crash-agent/skills/crash-report-generator` |
| `OPS` | `openeuler-ops-agent/skills` |

Sections: 1 the system, 2 the modules and the code, 3 what is model-checked, 4 what is
proved, 5 the plan, 6 what is not modelled.

## 1. The system

Each row is one component of `PROJECT.json`, which also says what is left out of it and
lists the hazards line by line.

| component | state it keeps | operations | what is hard | what makes it correct |
|---|---|---|---|---|
| **log-task service** (`WLD/server.py`, `service/`, `worker/base.py`, `sqlite/`) | `task_table`, `log_parse_result_table`; server, listener and worker processes | MCP calls create, stop, delete, result; a listener that polls, starts workers, sweeps; workers that insert and report; `init()` after a restart | three kinds of processes over one SQLite file, each statement a transaction of its own; SIGKILL; restarts in between | a task has one worker, the limit holds, a stop kills what runs, success means complete, deleted is gone |
| **benchmark run** (`vllm-benchmark-agent/agent/main.py`, `workflow.py`) | `state.json`: state, configuration, rounds, grants, issue; the cancel marker | run, the stages, resume, done, stop, cancel | commands that die, raise or are refused between two saves; overrides that change the experiment | a report is one experiment's, each round once and in order; final states are final |
| **several runs, NPU locks** (`tools/lock.py`, `agent/main.py`) | one lock file per device, the pointer `current_run`, `execution.lock` | acquire, hand over, release, stop; find a run | a check loop and a write loop over several files; every helper reads the pointer again | no device has two owners; a healthy service keeps its devices; a command stays with its run |
| **service probe and launch** (`tools/vllm.py`, `agent/main.py`) | the observations of a probe, starts so far | probe, decide, launch, health wait | three observations at three times of processes that fork, bind and die | no second service beside one that is loading |
| **measuring a round** (`tools/benchmark.py`, `metrics.py`, `common.py`) | client, scraper and runner processes, pid file, samples | start, wait, time out, signal, stop, judge | signals during clean-up, baseline and last sample taken by another process, counters that restart | a complete round's metrics cover it; no client outlives it; quantiles are of requests there were |
| **NL2SQL query plans** (`nl2sql_core/ir`) | none (a computation in steps) | parse, clean, execute on Elasticsearch | semi-joins intersected and applied in chunks under limits | no step widens, narrows or breaks what is asked |
| **NL2SQL splitting IN (SELECT)** (`engines/elasticsearch_engine.py`) | none | split either way, in batches | limits equal to batches, partial batches | rows that the statement selects, all unless cut |
| **NL2SQL one question** (`pipeline.py`) | four queries a run keeps | search, generate, check, execute, retry with feedback | a failure at each place of each attempt | answer, query and rows belong together |
| **NL2SQL clarification** (`clarify/session.py`) | session table | start, reply, resolve | replies that overlap on an await | a reply counts, questions are bounded |
| **NL2SQL rule store** (`rules/store.py`) | local rules, knowledge bases, three files that bind them | sync, import, search | three files written in turn, interleaved calls, crashes | what is reported as synced is found |
| **incremental collectors** (`kernel-dataset-agent/src`) | watermark and counters, one file per item | a cycle; `--since`, `--limit`, `--full` | truncation, quota, errors and death of a round while items appear | the watermark passes no item that has no file |
| **mailing list collector** (`collectors/linux-email.mjs`) | batches, manifests, done parts | a cycle over parts and pages | files first, manifest after, then the batch record | batch records say what there is |
| **patrol and alerts** (`OPS/ops-maintenance/src/utils`) | jobs, timers, one alert per rule and server | jobs, runs, evaluation, silence, clean-up, restart | `setInterval` does not wait: runs overlap | no notice too soon, no timer lost |
| **experience base** (`OPS/experience-skill`) | rows, keywords, links, hot list | add, delete, merge, optimise, search | every statement commits by itself; a failing one answers False to callers that ignore it | a kill loses neither text nor keywords for good |
| **community search** (`CM/matcher/community_retriever.py`) | the base, the evidence cache, cards of a query | three levels, online search, verify, extend, collapse, write back | cards travel through nine stages in several modes; queries interleave | a report shows only what was verified |
| **known issues** (`CM/matcher/engine.py`) | issues with fingerprints | record, merge, match | awaits between read and write; a crowded substring search | a known crash is recognised |
| **crash features** (`CM/extractor`, `analysis_chain.py`) | none | parse a log, parse stacks, order a chain | several reports in one log, windows of lines | features, timeline and clues are of one crash |
| **crash report** (`CR/scripts`, `CR/templates`) | sections, report, validated copy, page | combine, validate, render | scripts in any order, two readers of one line numbering | what passes is sound and shown as meant |
| **parsing a file** (`WLD/parser/parser.py`) | none | split by pattern or by size, window | the last block | no line is lost |
| **vectors** (`WLD/service/embedding.py`) | cache shared by workers | look up, fetch, save, merge | a key without the model, retries, positions | a vector is of its own text and model |
| **templates and clusters** (`WLD/worker/log_detection_base_on_clustering.py`) | parents, labels | unite, cluster, mark | chains of parents | the parents are a forest, the clusters a partition |
| **model calls** (`WLD/service/llm.py`) | a bounded queue per call | stream, take, gather | producer and caller alternate | the text is whole and in order |
| **picking anomalies** (`WLD/worker`) | candidates, marks | rank, cut, drop copies, mark | three kinds of worker, copies with other scores | what should be marked has a copy marked |
| **storing and paging results** (`WLD/sqlite`) | result rows | insert in batches with one retry, count, page | autocommit row by row | the answer tells what is stored; pages neither repeat nor skip |
| **buddy-log-analyzer** (`OPS/buddy-log-analyzer`) | one pass; cooldown and lock file | scan, alert | state of a stack across lines; lock by `exists` then `touch` | a stack is reported; one alert per cooldown while analyses do not overlap |

How they interact. MCP server, listener and workers of the log-task service meet only in
the SQLite file and through signals; the workers' computation (parsing, vectors,
templates, model calls, picking, storing) is a chain in which each part hands values to the
next. Commands of the benchmark agent meet in lock files, in `state.json`, in
`current_run` and in the container that serves the model. The stages of an NL2SQL question
hand values on; its sessions and rule store are shared by the coroutines of one process.
Queries and tool calls of crash_matcher share a base and a cache. The daemons share nothing.

Not modelled (listed in `PROJECT.json` with the reason): the openGauss, HBase and Kafka
engines, consistency runs, web pages and CLI of NL2SQL; HTTP retries and service installation of
kernel-dataset; the SSH pool, checkers, auditors and reports of ops-maintenance; the service
scripts, configuration adapters and vmcore analysis of shennong-crash; `xlite-perf-optimizer`;
`agent-factor`, continuous integration and documents. See Section 6.

## 2. Modules and code

Every module's header comment says what it models and what it abstracts; `PROJECT.json`
maps each definition to the lines it stands for.

### 2.1 Overview

| module | code | its steps |
|---|---|---|
| `TaskLife` | (abstract) | what the log-task service promises of a task: submit, start, end, requeue, delete, with at most `Limit` at work |
| `LogTaskService` | `WLD/server.py`, `service/{task,process,log}.py`, `worker/base.py`, `sqlite/manager/task.py` | one per SQL statement, process start, kill, restart; fairness and liveness properties |
| `LogTaskInv` | | the inductive invariants, the refinement mapping to `TaskLife` |
| `BenchRun` | `agent/main.py`, `agent/workflow.py` | one per save of `state.json` that a later command can tell apart |
| `DeviceLocks` | `tools/lock.py`, `_acquire_devices`, `_lock_is_active`, `_stop_service` | one per read, truncation and write of a lock file |
| `RunPointer` | `_wf`, `_run_dir`, `_tasks_path`, `_execute`, `main` | one per use of `current_run`, per lock, load and save |
| `ServiceProbe` | `tools/vllm.py`, `_handle_probe_decision`, `_start_service`, `_wait_health` | one per observation; the environment forks, binds, answers, dies |
| `RoundMeasure` | `cmd_bench`, `tools/benchmark.py`, `tools/metrics.py`, `tools/common.py` | one per step of runner, tool, client and scraper, and per signal |
| `LatencyHistogram` | `tools/metrics.py` | serve, scrape, miss, restart; the quantile |
| `QueryPlan` | `ir/schema.py`, `sanitize.py`, `executor_es.py`, `compile_sql.py` | parse, clean, one per call to an index |
| `SqlSplit` | `engines/elasticsearch_engine.py` | one per call |
| `AskPipeline` | `pipeline.py`, `generate/` | one per stage of an attempt |
| `ClarifySession` | `clarify/session.py`, `apps/web/main.py` | one per stretch between two awaits |
| `RuleStore` | `rules/store.py`, `rag_client.py` | one per stretch between two awaits or file writes |
| `Watermark` | `cycle.mjs`, `collectors/{shared,commits,…}.mjs` | one per page, stored item, save |
| `EmailShards` | `collectors/linux-email.mjs` | one per page, append, batch switch |
| `PatrolAlerts` | `patrol-scheduler.ts`, `alert-manager.ts`, `index.ts` | one per call, tick, start and end of a run |
| `ExperienceBase` | `experience_service.py`, `*_manager.py`, `sqlite.py` | one per statement |
| `CommunitySearch` | `community_retriever.py`, `git_commit_fetcher.py`, `llm_scorer.py` | one per stretch between two awaits |
| `KnowledgeMatch` | `engine.py`, `skill.py`, `knowledge/client.py` | one per stretch between two awaits |
| `CrashFeatures` | `extractor/*.py`, `analysis_chain.py` | operators over logs and stacks; one step per chosen input |
| `CrashReport` | `combine_report.py`, `validate_report.py`, `generate_report_html.py` | one per script, write of a section |
| `ReportBlock` | `validate_report.py`, `crash-report-viewer.html` | operators over a block; one step per chosen block |
| `LogParse` | `parser/parser.py` | one per line |
| `EmbeddingCache` | `service/embedding.py`, `manager/embedding_cache.py` | look up, fetch, save a row, merge |
| `TemplateMerge` | `log_detection_base_on_clustering.py`, `service/cluster.py` | one per log and round |
| `LlmStream` | `service/llm.py`, `handle_single_log_model` | put, take, error, end mark |
| `AnomalyPick` | `worker/*.py` | one per stage |
| `ResultStore` | `sqlite/sqlite.py`, `manager/log_parse_result.py` | one per inserted row, retry, count, page |
| `LogScan` | `log_analyzer.py` (`scan_file`) | one per line |
| `LogAlerts` | `log_analyzer.py` (`send_alert`) | one per file operation |

`MCLogTask` and `MCBench` give instances of `LogTaskService` and `BenchRun`. `MCVllmTools`,
`MCNl2sql`, `MCOps`, `MCCrash` and `MCAnalysis` put components side by side that
share no state in the code: the constant-like variable `focus` says which one a behaviour looks at, and the
others stand still. A behaviour of a composite is therefore a behaviour of one
component, its state space is the sum of theirs, and its properties are theirs. Components that
do share state are one module (queries and their base, the three kinds of log-task processes,
jobs and alerts). `ReportBlock` is `CrashReport`'s companion: the focus "block" looks at one block.

Proof modules: `LogTaskProofs`, `BenchRunProofs`, `VllmToolsProofs`, `Nl2sqlProofs`, `OpsProofs`,
`CrashProofs`, `AnalysisProofs`, and `RecursionLemmas`, which the proofs about recursive functions use.

### 2.2 LogTaskService

`status`, `pid` and `results` are the two tables: a row that was never created or that was
deleted is a status of its own. `server`, `epoch`, `resets` and `initTodo` are the MCP
server's lifetimes (`server.py` runs `init()`, starts the listener process, serves).
`at`, `snap` and `child` are the listener of each epoch: the statement it comes to next, the
rows it has read and not handled yet, and the process it has started and not marked
yet. `wtask`, `wby`, `wst` and `stored` are the worker processes, `call` the MCP calls
in flight, which interleave at every `await`. `marked`, `stopped` and `purged` are history: no action reads them.

| code | actions |
|---|---|
| `init()`, `update_running_tasks_to_pending_tasks` | `ServerStart` (SELECT), `InitRemove` (one kill each), `InitReset` (UPDATE, then the listener starts) |
| `stopServices`, crash, end of `main` | `ServerStop(keepListener, keepWorkers)` |
| `process_successful_or_failed_tasks` | `SweepRead`, `SweepTask` per row |
| `process_pending_tasks`, `BaseWorker.run`, `ProcessHandler.add_task` | `PollRead`, `Launch` or `Skip` per row, `RecordPid`, `MarkRunning`, `Sleep` |
| `run()` of a worker class | `WorkerBoot`, `WorkerInsert` per INSERT step, `WorkerReport`, `WorkerFail`; `WorkerDie` is a kill from outside |
| `create_log_parse_task` | `CreateTask` |
| `BaseWorker.stop`, `delete_task` | `StopRead`, `StopKill`, `StopCancel`, `Purge`, `Drop` |

Abstractions. `Launch` joins the reads of `run()` and `add_task` with `Process.start()`: they read
the same row, and a cancel or a delete between them leads to a state that is reached with
the cancel just after the start as well. The SELECT of the pid and the kill in
`remove_task` are one step: the pid column changes only when a task is started. `WorkerFail` may
happen at any statement after boot. `ServerStop` with `keepListener` is a server killed before its
`finally` block runs (`mcp-services.mjs:246` falls back to SIGKILL); with `keepWorkers = FALSE` it is
systemd stopping the whole control group. Left out: progress percentages, reads that decide nothing, the
reuse of a pid by the operating system. Failing writes and their retry are in `ResultStore`.

### 2.3 BenchRun

All of a run is in its `state.json`: `state` is the workflow state, and `cfg`, `opts`, `runs`,
`pending`, `accept`, `issue` and `started` are entries of `meta`. `cmd` is the process that executes a
command: where it stands (`pc`), which command, the experiment it found (`before`), the
flags of `resume` it has still to deal with, and the issue `_block` has not saved yet. `marker` is
the file that `cancel` leaves when `execution.lock` is taken. `container` is the service a probe
would find, and who launched it. `unused` and `broken` are history.

| code (`agent/main.py`) | actions |
|---|---|
| `main`, `cmd_run`, guards of the stages, `cmd_resume` up to its first save | `BeginRun`, `BeginStage`, `BeginResume(flags)`, `BeginDone`, `BeginStop`, `Cancel` |
| `_config_for_run` | `SaveOptions`, `ReloadOptions`, `Freeze` |
| `cmd_resume` | `Reload`, `Settle`, `Decide`, `Go`, `ClearIssue` |
| `_block` | `Block` (transition), `SaveIssue` |
| `_drive` | `Drive` |
| `cmd_env_check` | `EnvCheck` |
| `cmd_start`, `_handle_probe_decision`, `_start_service`, `_wait_health` | `Probe`, `Wait`, `Launch`, `LaunchRefused`, `Launched`, `Health` |
| `cmd_bench` | `Compare`, `Recheck`, `Open`, `BenchRound`, `Collect`, `CompletePartial`, `WriteReport`, `Analyze` |
| `cmd_done`, `_stop_service` | `Cleanup`, `Finish`, `Stop` |
| `_execute` | `Interrupt` (SIGTERM, Ctrl-C, marker seen by `call_tool` or `_check_cancel`), `ExecutionError` |
| not code | `Crash` (the process is killed), `Outside` (the service ends, or another user launches one) |

Abstractions. A configuration is a value with two attributes: the service it asks for and the number of
its rounds; whether `normalize()` accepts it is the constant `Valid`. Saves that no later
command can tell apart are one step. The verdicts of the tools are nondeterministic, except that a
probe finds a matching service only when there is one, and a benchmark succeeds only when there
is a service; `DeviceLocks`, `ServiceProbe` and `RoundMeasure` have the detail. One command
executes at a time, as `execution.lock` has it; what happens when the pointer leads a command to a second run is `RunPointer`.

`broken` says that a command was killed, raised, or was refused after it had saved a part of its
overrides. `ReportIsWhole` and `NothingMeasuredEarly` hold as long as that has not happened; `RoundsOfOneConfig` is
`ReportIsWhole` without the proviso and is violated (Section 3.4).

### 2.4 The other modules in short

* **Histories.** A property that has an exception the code makes names the event in a history
  variable (`causes` of `DeviceLocks`: two acquisitions overlapped, a command was interrupted within a file, a taken-over run was
  stopped; `wmLate` and `wmCut` of `Watermark`; `disturbed` of `RuleStore` and `ResultStore`; …). No guard reads a history. The same
  property without the exception is among the statements of Section 3.5 that TLC refutes.
* **CommunitySearch.** `stage` is the await a query stands at: `first`, `wider`, `select`, `rescore`,
  `verify`, `extra`, `upstream`, `collapse`, `persist`, `create`. `base` and `evidence` (the cache) are shared;
  `mode`, `truth` (what the diffs say that it reads), `cards`, `hits`, `found` and `todo` (cases to write back) are the
  query's own. A search answers any subset within its limit, a failed one nothing. A cut keeps the cards of
  the highest scores (`Best`), ties broken in any way. The collapse joins the cards into groups one by one, in every order (`Added`, `Joined`, `Grouped`).
* **Recursion** is written as recursive functions or folds in the modules that theorems reach, so that
  tlapm keeps its SMT backend.
* **Pure algorithms** (`CrashFeatures`, `ReportBlock`, `LogScan`, `LogParse`, `QueryPlan`) choose an
  input in their first step (`LogScan` and `LogParse` line by line) and are compared with a
  reference definition that does not share their control.

## 3. What is model-checked

### 3.1 Runs

| run | what it explores | properties |
|---|---|---|
| `log_task` | 2 tasks compete for 1 slot; 2 workers, 1 MCP call at a time, 2 server lifetimes; the listener ends with its server | `InductiveInv` (everything the proofs rely on), `StopKills`, `ServicePromise` (the refinement of `TaskLife`) |
| `log_task_outlive` | 1 task, 4 workers, 1 call, 2 lifetimes; a listener may outlive its killed server | `SuccessIsComplete`, `LaunchOnce`, `DeleteIsFinal` |
| `log_task_live` | 2 tasks, 2 workers that may be killed from outside, 1 lifetime; `LiveSpec` | `PendingRemoveIsSwept`, `OnlyLostSlotsStarve` |
| `bench_run` | configurations of 2 rounds and of 1; every command, cancel, interrupt, exception and crash in any order | `InductiveInv`, `ReportIsWhole`, `NothingMeasuredEarly`, `FinalIsFinal` |
| `bench_config` | the same | **violated** `RoundsOfOneConfig` |
| `vllm_tools` | 2 runs and 2 devices with 3 commands; 3 processes around a probe; 2 attempts at a round; a histogram of 2 bounds and 3 scrapes; 2 shells, 2 runs and 4 commands around the pointer | `Exclusive`, `ServiceIsLocked`, `ProbeIsTrusted`, `RoundIsSound`, `ClientsAlone`, `QuantileIsReal`, `CommandsKeepApart` |
| `run_pointer` | the same | **violated** `RunsAreIndependent` |
| `device_race` | the same | **violated** `AllOrNothing` |
| `nl2sql` | plans of up to 2 semi-joins, with empty alternatives and alternatives beside a list, and statements with a subquery over small indexes and limits; 3 attempts; 3 replies and 2 questions; 2 data sources, 2 calls, 2 knowledge bases, a crash | `PlanIsAnswered`, `SplitIsExact`, `AnswerIsWhole`, `RepliesCount`, `ReportedIsFound` |
| `ops` | 3 items, 3 dates, 2 rounds; 2 parts of 2 pages in up to 3 batches; 1 job with 2 rules, 2 timers, 2 overlapping runs, 1 caller; 2 experiences and 1 hot place | `WatermarkCovers`, `BatchesAreListed`, `PatrolIsKept`, `KillLosesNothing` |
| `crash` | 2 queries over a base of 1 document and 3 upstream commits; 2 tool calls and up to 3 issues; logs of up to 6 lines; 5 writes of 2 sections; blocks of 3 lines | `CardsAreSound`, `KnownIsRecognised`, `FeaturesAreSound`, `ReportIsSound` |
| `analysis` | files of 3 lines; 2 workers, 3 texts, 2 models; 1 to 6 templates; 2 streams of 2 chunks and a queue of 1; 2 files of up to 3 logs; 5 results in batches of 2 with 3 errors; a log of 4 lines; 2 alerting processes | `NothingLost`, `VectorsAreOwn`, `ClustersAreSound`, `PickIsKept`, `TextIsWhole`, `ResultsAreKept`, `StacksReported`, `QuietWindow` |

`CHECK_DEADLOCK FALSE` is set for the composites only: their components are calls and passes
that end. The log-task service and a benchmark run are checked for deadlock: the listener
never stops, and a run always accepts a command.

`SYMMETRY` is used where the constants are interchangeable and no liveness is checked.

### 3.2 What the properties say

* **log task.** `StopKills`: after a stop that found a task RUNNING and returned true, no worker of it that was
  marked RUNNING is alive. `ServicePromise`: seen through the mapping of `LogTaskInv`, every statement of every process is a
  step of the life of a task or a stutter. `SuccessIsComplete`, `LaunchOnce`, `DeleteIsFinal`: even with two
  listeners, success means one worker's whole output, a listener starts a task once between two `init()`,
  and a deleted task never returns. `PendingRemoveIsSwept`: no row stays in a `*_PENDING_REMOVE` status;
  `OnlyLostSlotsStarve`: a pending task waits for ever only behind a RUNNING row whose worker is gone.
* **benchmark.** `ReportIsWhole`: a report holds each round of its experiment and none of another; `NothingMeasuredEarly`:
  nothing is measured before the service is healthy; `FinalIsFinal`: DONE and CANCELLED are final.
  `Exclusive`, `ServiceIsLocked`: two unfinished runs own no device together, and a healthy service's devices stay
  locked until it is stopped, outside the `causes`. `ProbeIsTrusted`: no second service beside one that an earlier start left loading.
  `RoundIsSound`: a result that is saved is final, complete metrics count the round's requests and no others, and the task
  list shows it as it ended. `ClientsAlone`: a client outlives its round only when its clean-up was cut off or preceded its
  pid file. `QuantileIsReal`: a reported quantile lies in the bucket of a request that was made. `CommandsKeepApart`: a named run is
  kept to, others stray only to newer runs, and two commands that both have a run for their own never work on it together.
* **NL2SQL.** `PlanIsAnswered`, `SplitIsExact`: never a row that was not asked for, all of them unless a call was cut. `PlanIsAnswered` also says
  that merging and cleaning lose no row and that a cleaned plan is not refused. Four exceptions are named: a choice that is merged into another (`ChoiceIsMerged`); alternatives beside a list, which count for nothing until cleaning has dropped all the alternatives
  (`HidesConditions`); more than three fields asked for two values in one list, as there are three rounds of rewriting (`ThreeAtMost`); an unknown default order. TLC finds a plan for each
  when it is left out, but for `ThreeAtMost`, which the two known fields of the instance cannot exceed.
  `AnswerIsWhole`: answer, displayed query and rows are of one attempt. `RepliesCount`: a bound on questions and the replies a query is made
  from. `ReportedIsFound`: what is reported as synced is found.
* **operations.** `WatermarkCovers`: which items may be missing before the watermark, and why. `BatchesAreListed`: manifests and
  batch records agree with the files. `PatrolIsKept`: no notice too soon or into a silence, no timer lost.
  `KillLosesNothing`: what a command killed or failing half way leaves, for commands that follow one another: two at the same time do exceed the
  hot limit, lose text and leave an experience without keywords (TLC with two callers).
* **crash.** `CardsAreSound`: online cards of a report are verified, a confirmed patch reaches it, weak cards stay weak, one
  card per commit, only what was read and confirmed is written back. `KnownIsRecognised`: a recorded fingerprint is new only if the first level
  failed or was crowded, and a merge keeps every fingerprint. `FeaturesAreSound`: features, timeline and clues are of one crash,
  in order. `ReportIsSound`: the validated copy has no error, and a block without warnings is shown as meant.
* **log analysis.** `NothingLost`: no line that is not blank is lost, doubled or moved. `VectorsAreOwn`: a vector is of its text and model, or zero, and a
  failure of a list service stays with its worker. `ClustersAreSound`: parents form a forest, sizes add up, clusters and normal logs partition the roots.
  `PickIsKept`: no unmarked log outscores a marked one, and what should be marked has a marked copy. `TextIsWhole`: a log is judged by
  every chunk that was read. `ResultsAreKept`: the answer tells what is stored, pages neither repeat nor skip. `StacksReported`: a stack that was begun is an event.
  `QuietWindow`: one alert per cooldown while analyses do not overlap.

Every property of a passing run has a mutant: a faulty form of one mapped definition, beside it in its
module (a forgotten kill, a guard dropped, an off-by-one, a merge that keeps the first, a
grant that is not cleared), under which TLC finds the property violated.

### 3.3 Bounds and fairness

The bounds are the constants above. Why they are enough to be interesting: two tasks compete for one slot, a
restart meets a worker in every stage of its life, four workers of one task are what two listeners can start; two rounds
are the fewest with a completed and a pending one at once, and sweeps of different lengths let a change of
configuration leave too many rounds as well as the wrong ones; two runs with overlapping wishes are the fewest that
can race, hand over and take back a device; limits and batches are smaller than what they cut
(`SemiCap`, `InChunk`, `BatchSize`, `ProbeCap`, `PageSize`, `TopK`, `MaxOnline`, `QueueSize`), so that full, partial and empty ones occur;
two queries share a base from which each stage can take and to which each can write;
six lines hold two crash reports with missing lines. Commands, crashes and errors of `BenchRun` are not bounded: its
state space is finite without it. Where a property is also proved (Section 4), the bounds limit only TLC.

`LogTaskService!Fairness` is weak fairness of each process taken as a whole: the listener (it catches every exception and sleeps two seconds), each worker
(it ends, with a report or an exception, unless something kills it), the coroutines of the server, and the start of the service (`Restart=on-failure`,
`startServices`). Nothing is assumed of clients: no call has to be made. `LlmStream!LlFairness` (requests time out, so producers, callers and model answer in
the end) is used for `EveryLogJudged` only, which does not hold even so.

### 3.4 Findings

* `RoundsOfOneConfig` (`vllm-benchmark-agent/agent/main.py:995`): the new experiment is saved before the old rounds are dropped, so that a
  command that dies or is refused in between hides the change from the next one, which reports both together.
* `RunsAreIndependent` (`agent/main.py:70`): without `--run-id` every helper reads `current_run` again; a run created
  meanwhile moves a command into itself, where it saves its states.
* `AllOrNothing` (`tools/lock.py:108`): `try_acquire` reads all lock files before it writes any; two runs pass the check together.

### 3.5 Statements that do not hold

The modules also define statements that a comment or document makes and that the code does not keep; the comment
before each quotes its source. TLC finds every one violated when it takes the place of
the properties in the configuration named. They mark the edge of the properties above: most of those are one of these with its exception.

| configuration | statement | what happens |
|---|---|---|
| `LogTask` | `CancledStaysOff` | a stop while a process is being started: RUNNING is written over CANCLED |
| | `OneWorker` | a server stopped between start and UPDATE leaves a worker `init()` does not look for |
| `LogTaskLive` with `BaseTasks = {t2}` | `PollingEnds` | tasks of the advertised type `base` are never started |
| `Bench` | `BlockedCanResume` | an exception in some states records a resume state without an event |
| | `ReusedIsKept` | `service_started` outlives the service it stands for |
| `VllmTools` | `RestartsAreSeen` | a server that catches up before the next scrape has not visibly restarted |
| `Nl2sql` | `NeverNarrower` | merging alternatives of a plan can narrow it |
| | `FeedbackFits` | feedback quotes the query of an earlier attempt |
| | `SplitAnswers` | conditions after the IN, or OR, are lost by one of the splits |
| `Ops` | `NothingSkipped` | items published late, or behind a truncated round |
| | `ResolvedIsReal` | overlapping measurements are judged in any order |
| | `StoppedIsQuiet` | `stop()` misses an interval a later call has set |
| | `PartInOneBatch` | a part that fails is continued in the next batch |
| | `MergeKeepsKeywords`, `DeletedNotFound` | a kill between the statements of a merge or delete |
| `Crash` | `OneCardPerTitle`, `StoredOnce` | collapse by order of arrival; two queries write one patch back |
| | `OwnStack`, `RipOfReport`, `CpuKnown`, `NullDerefSeen` | windows of lines reach into another report or process |
| | `DefaultIdPasses`, `CopyIsCurrent`, `PageIsSound` | the generated id is refused; the copy of an earlier report stays; a page is made of a faulty report |
| | `SuccessIsStored`, `FingerprintIsEnough` | a failed write answers success; a crowded first level asks on |
| | `AlwaysShown` | a block that starts within its own length has ambiguous keys |
| `Analysis` | `StartIsKnown` | a frame that names an error begins a stack without its line |
| | `SelectedSurvivesLlm` | copies that score differently: the selected one is dropped |
| | `CacheHoldsVectors` | zero vectors of a failure are cached |
| | `OnceInWindow` | overlapping analyses alert twice |
| | `InWindowKept` | a window drops whole blocks |
| | `MarkingEnds` | the only log of a file becomes its own parent |
| | `EveryLogJudged` (`FairSpec`) | a failure before the `try` leaves no end mark and the caller waits for ever |

## 4. What is proved

All theorems hold for every value of the constants under the named assumption of the
module (`LogTaskAssumption`, `BenchRunAssumption`, `DeviceLocksAssumption`, `LatencyAssumption`, `ResultStoreAssumption`, `SearchAssumption`, `KnowledgeAssumption`, `ReportBlockAssumption`, `ExperienceAssumption`, `WatermarkAssumption`, `EmailAssumption`, `CacheAssumption`, `AlertsAssumption`, …), which TLC evaluates in
every run. They say no more than that sets are finite where the program keeps lists of
them, that a query plan and the rows of an index have the fields they are declared with and `=` has one value (`QueryPlanAssumption`), that counts are numbers and bounds are not zero where the code has a positive default, and that the values
standing for "none" are no others. A theorem about a component of a composite is stated of the component's
own specification or, for `crash`, of the composite's. `HalfDoneLosesNothing` has one hypothesis more, `OneCaller`: the program
has no lock between two commands, and what it promises it promises of one command at a time. `WindowStaysQuiet` has `FewErrors`: no more
different errors are alerted within one cooldown than the cooldown file keeps entries (20). It is needed: the save cuts the list, and TLC
finds an error alerted twice when the file keeps 1 entry and 2 errors alternate.

| module | theorem | property |
|---|---|---|
| `LogTaskProofs` | `ServiceImplementsLife` | `ServicePromise` |
| | `InductiveInvariant`, `TypeCorrect` | `InductiveInv` |
| | `StartedOnce`, `SuccessfulIsComplete`, `DeletedIsFinal`, `StopHasKilled` | `LaunchOnce`, `SuccessIsComplete`, `DeleteIsFinal`, `StopKills` |
| | `RunningStaysWithinLimit`, `MarkedIsAlone` | the limit; one marked worker per task |
| `BenchRunProofs` | `Invariance` | `InductiveInv` |
| | `RoundsStayInOrder`, `GrantsAreUsedOnce` | its parts `RoundsInOrder`, `AcceptedOnce` |
| | `ReportStaysWhole`, `NothingIsMeasuredEarly`, `FinalStaysFinal` | `ReportIsWhole`, `NothingMeasuredEarly`, `FinalIsFinal` |
| `VllmToolsProofs` | `DevicesAreExclusive`, `ServiceStaysLocked` | `Exclusive`, `ServiceIsLocked` |
| | `ClientsStayAlone`, `RoundsStaySound`, `QuantilesStayReal` | `ClientsAlone`, `RoundIsSound`, `QuantileIsReal` |
| | `ProbesStayTrusted` | `ProbeIsTrusted` |
| | `CommandsStayApart` | `CommandsKeepApart` |
| `Nl2sqlProofs` | `AnswersAreWhole`, `EveryReplyCounts` | `AnswerIsWhole`, `RepliesCount` |
| | `ReportedRulesAreFound`, `SplitsAreExact` | `ReportedIsFound`, `SplitIsExact` |
| | `PlansStayAnswered` | `PlanIsAnswered` |
| `OpsProofs` | `WatermarkKeepsCovering`, `BatchesStayListed` | `WatermarkCovers`, `BatchesAreListed` |
| | `PatrolStaysKept`, `HalfDoneLosesNothing` | `PatrolIsKept`, `KillLosesNothing` |
| `CrashProofs` | `CardsStaySound`, `KnownStaysRecognised` | `CardsAreSound`, `KnownIsRecognised` |
| | `FeaturesStaySound`, `ReportStaysSound` | `FeaturesAreSound`, `ReportIsSound` |
| `AnalysisProofs` | `NoChunkIsLost`, `ResultsStayKept`, `StacksAreReported` | `TextIsWhole`, `ResultsAreKept`, `StacksReported` |
| | `VectorsStayOwn`, `WindowStaysQuiet`, `NoLineIsLost` | `VectorsAreOwn`, `QuietWindow`, `NothingLost` |
| | `ClustersStaySound`, `PicksStayKept` | `ClustersAreSound`, `PickIsKept` |

Each proof has one lemma or step per action and names the invariant that makes the property inductive:

**Log-task service.** `InductiveInv` is a chain. `TypeInv` = `TypeOK` and `Control`; `Control` says what a process holds between
two statements (a listener about to write a pid has a child with a task; no process refers
to a task that was never created), without which `TypeOK` is not inductive. `LaunchInv`: a task started since the last `init()` that still reads PENDING is the
one its listener is about to mark. `ResultInv`: what a live worker has behind it is in the table, and a row or
a listener's snapshot says success only when some worker has stored everything. `SlotInv`: RUNNING rows *and* the task being started are within the limit, which is
why a count read two UPDATEs before the mark is enough with one listener. `KillInv`: the pid column names the marked worker that is
alive, before a row reads PENDING again that worker is dead, and a stop that has decided to kill still
finds it. `ServiceImplementsLife` maps rows and processes to phases of `TaskLife` and shows, on this
invariant, that every action is a step of the abstract specification or a stutter. `RunningStaysWithinLimit`, `MarkedIsAlone`,
`StopHasKilled` and the refinement need `~ListenerMayOutlive`: two listeners do break them.

**Benchmark run.** `TypeOK` includes that steps outside `FreeSteps` find a frozen configuration. `AcceptedOnce` needs that a grant in hand
has not been used, and `PartialFits` that between the save that takes it and the save that completes the round one grant still counts. `StepFitsState`: each
step is reached in the states it was written for; `FinalIsFinal` needs it. `ReportIsWhole` and `NothingMeasuredEarly` need to know, while nothing is `broken`, whose
rounds there are at each step of a command: `SettlingFits`, `RoundsAreMeasured`, `UnmeasuredFirst`, `Finished`.

**Devices.** `LocksInv` says of each command what its view of the files is still worth (`Fits`) and of each file who may have written it (`FilesFit`), as long as no
cause has occurred; `ServicesInv` adds which services stand on which devices and who knows of them. **Clients and rounds:** `ClientsInv` (a live client is of the current attempt,
a pid file is of a client that runs), `RoundInv` (an answer in hand is the truth, the monitor is closed when the list is
written). `SamplesInv`: as long as nothing worse than a slow monitor has happened, every sample lies between what the server had served before the round (`Begun`) and
what it has served by now; with a baseline the first is `Begun`, and the last of a scraper that is gone is of a server that is done, each unless it failed. That the valid samples are the
samples when none failed, and that numbers that never fall end as high as they begin, is by induction (`ValidIs`, `NeverFalls`).
**Quantiles:** `LhInv`: while no restart is hidden and the counts of the good scrapes rise, the last good scrape is the first one and what was served in between, bucket by bucket,
and so is the server's own table unless it restarted (`TablesFit`). A restart that the next good scrape shows breaks the rise, which is what `CountDelta` asks of every pair and the mutant of the ends only;
`GoodEnds` carries both from the list of the good scrapes to all of them. **Probe:** pids need not grow after a process has died, so the processes form a forest by age (`Forest`): each has one topmost process, of its own service (`TreesAre`). The
grouping keeps a group within one tree, and one group for a tree while pids grow (`Grouped`, by induction over the roots joined so far, `JoinGroups`). `ProbeInv`: as long as no process died and no two services share
the port, pids grow, the run's service is one tree with the launched process on top, it answers only on the wanted NPUs (`WorldFits`), and what an unfinished probe has read still holds or can
only have grown (`SeenFits`); so a mismatch is of someone else's service (`MismatchIsOthers`). `OwnIsSeen`: a service that was launched has a process that says so in its
command line, a probe about to decide has it in its list, and nothing that found no service is acted on.
**Pointer:** `PointerInv` (a command in a run holds its lock there, or has strayed to a newer one).

**NL2SQL.** `AskInv` relates the four kept queries to the stage; `ClarInv` to what each overlapping call has read (`AloneFindsItsSession`,
`LastWord`, `Rounds`); `RulInv` (`WrittenAreThere`: what a binding file names exists and only grows; one undisturbed call per
source); `SqlInv` to what a split statement has gathered: outer part first, all found rows satisfy it and each of their ids has been, or is still to be, asked for
(`BatchesFit`); subquery first, the ids used are its own (`OuterFits`); of either, all of them unless a call was cut.

**Query plans.** Each pass over a plan is shown to lose no row that was asked for: a run of semi-joins that is merged asks for the union of its lists (`MergeIs`, over the runs
that `AddToRuns` collects, `RunsAre`); what is rewritten asked for nothing, as no row has two values of one field (`NoneContradicts`, `RewriteIs`), and a round of it takes one field
off each list that contradicts itself, which is why three rounds do for three (`RewrittenIs`); a row has no field that its index does not have, so that the conditions that are dropped
held of none (`DropIs`). `PlanInv` carries that (`PlanFits`) to the execution, where it says what the semi-joins so far have left by local key, all of it unless a call was cut
(`KeysLeft`, one step of which is `NextKeys`), and of the outer calls that a row is in the answer only if the plan's conditions and the leading key let it through, and missing only if its key waits
(`CallsFit`). The leading key is one of the keys because some set is the smallest (`PrimaryIsKey`).

**Operations:** `PatrolInv` = `AlertInv` and `JobInv`.
`EbInv`, of the experience base, says what the statements a command has still to run may rely on: there is room for what it will make hot (`HeatsFit`), what it
will write over or clear is known to be at risk (`WriteFits`, `ClearFits`), and what it will remove has been written into another row (`RemoveFits`).
A statement is taken off the front, so each of the three is kept by the tail of the list, and a kill only cuts the list short.

**Incremental datasets.** `WatermarkInv`: while a list is paged through it may grow and be reordered, so what the pages read so far have missed is, in the
list as it is now, on a page to come, or it is newer than all that was fetched (`PageFits`). The first holds of an item that stands still because a change
of another one never moves it forward (`DateGrows`), the second of one that changed, as it then has the date of the clock. After the last page only the newer ones are left
(`StoreFits`), and the watermark goes no further than the newest date fetched; what lies before the round's own window is covered
already (`BehindFits`). TLC checked the invariant on 3 items, 3 rounds and pages of 1 and 2 before it was proved. That the list of a finite set in a strict order holds each member at
its rank is `InOrderIsAll`.

**Mailing list.** `EmailInv`: a round writes to a batch there is and visits no part newer than the one that grew when it started (`RoundFits`); of the
part being fetched, what is known is on disk or gone, and the index is whole unless the part still grows, which is what makes a part that passes the test at the
end of its loop a whole one (`PartFits`); a done part is older than the newest, so that mail that comes later does not undo it (`DoneFits`); only the active batch
has pages that wait for their manifest line (`ListingFits`); and a batch that was not made yet is empty (`UnmadeFits`). TLC checked it on
the instance of `ops` and on a larger one of a million states.

**Community search.** `SearchInv` is `SearchTypes` and, for every query, `QueryInv`: before the verification its cards are unjudged (`Unjudged`),
after it they satisfy what a report promises (`Settled`), between verification and collapse every confirmed card has been read
(`Backed`), after the collapse so has every case that waits to be written (`Pending`). TLC checked it on the instance of `crash` before it was proved. Queries
interleave, but evidence and base only grow, and a step of one leaves what the invariant says of the others (`OthersStand`, `OneMoves`), so that one query's
step is all there is to look at. That the collapse keeps one card per commit for any number of cards is shown by
induction over the cards joined so far (`JoinsOne`, `AddCardParts`, `GroupedHolds`).

**Known issues.** `KmInv`: issues refer to issues there are, a merge in progress holds exactly the fingerprints of its
sources, and a call on its second level whose first was whole has no known issue. The merge of any number of issues (`GatheredHolds`) is by induction as
well. **Report:** `CrInv` (who wrote the copy), `RbInv` and `BlockAgrees`: the two readers of a block map keys to the
same lines, for blocks of any length, when the validator says nothing.

**Features of a crash.** `LogInv`: the lines of a log belong to reports in order, each from its bug line on (`InReports`). A window of time keeps the log from some line on
and takes out no bug line behind it, as a report begins with a stamp, so the kept lines are in reports as well (`LinesInIs`); and the first line of a kind
behind the bug line is of its report whenever that report has one in the window (`FirstOfReport`). The timeline is built by
insertion: an event goes behind all that are not later, which are the first of the list (`FirstPositions`, `PlaceKeeps`). A clue is added for a function not seen yet
(`WithClueKeeps`), so there is one for each, and one crash point.

**Log analysis.** `LlInv`: the chunks taken, those in the queue and those to come are the stream in order; `StoreInv`: a failed batch leaves a prefix, a client has got what
precedes its offset; `ScanInv` relates the pass's buffer, the seen keys and the events. **Vectors:** `EcInv` says of a batch under way that each of its places was a hit
for its own text or is among the missing ones (`HitsFit`), and what has been fetched stands at the number of its place among these (`GotFits`), which nothing that other
workers write disturbs; of the cache, that a row is of its text and of the model it names (`CacheFits`); and, with services that answer lists, that no zero vector is in the
cache or on its way there (`ZerosStay`). `MissingIs`: the list of missing places, a recursive function, has exactly the places without a hit.
**Alerts:** `QuietInv`: as long as analyses follow one another, the entries of the cooldown file are in the order of time, one that still counts is the last of its error, and every alert of the
cooldown has its entry (`Complete`), except that of the process about to write it (`Awaits`). When the list is cut, an entry is dropped that no alert needs: else all of them would
count, each for an error of its own, one more than there are (`NewestIsComplete`). **Blocks:** `LpInv`: the blocks and the one under way are `Whole` up to
the next line. A line that joins, opens or is a block keeps that (`NextBlock`, `LineJoins`), and so does leaving out a block of blank lines (`KeptBlockKeeps`).
**Templates:** `MergeInv`. That a climb ends cannot rest on the ranks: `merge_log_templates` hangs the root of the *higher* rank under the other. It rests on the sizes, which only grow at roots and so rise along
every path (`Trees`, `SizesRise`); whatever goes up one parent at a time is the climb (`ClimbIsOnly`), so that after a merge every log of one root has the other (`UnderKeeps`). A round of clustering keeps
the logs of the clusters and keeps them apart, whatever the labels (`RegroupedKeeps`).
**Picking:** a ranked list has each log at the rank that counts the logs above it (`MembersBefore`, as for the pages of a collector), so a list that is cut *leads*: what it leaves out is below
all of it, and it is full (`Leads`). `PickInv` carries that from the files to the task. For keywords and embedding (`RanksFit`): copies score the same, a log is picked once, a scored log that is not picked is
outscored by as many picked ones as can be marked (`OutscoredByMany`), and the first of some copies is picked first, which is why the copy that stays is the one that was selected. For the model (`WordsHeard`): a word of a scored log
is a word of a picked one of its file. While there are no more words than places the shares add up to no more than the places, so every word's best log is taken or was taken for a word before it
(`WordsAreHeard`, by induction over the words in whatever order). TLC checked the invariant on the instance of `analysis` first.

**RecursionLemmas** proves from the well-foundedness of finite inclusion: a set of numbers has a least member (`LeastOf`),
induction where a predicate is a *set* (`Induction`, `InductionUpTo`), and that a recursively defined *function* satisfies its
equation (`Recursion`); besides, what a set written as a sequence is (`SetToSeqType`), that an image is finite (`ImageIsFinite`), and that the members of a finite set in a strict order have the ranks from 0 up, each one (`MembersBefore`). The library's own induction theorems take an operator as a parameter, which the
installed provers cannot instantiate; a set and a function are values, so these can be cited by a proof.

### Only model-checked

Every invariant and every action property of the passing runs is stated by a theorem of section 4. What stays with TLC:

* Liveness (`PendingRemoveIsSwept`, `OnlyLostSlotsStarve`): fairness and ENABLED have no proof rule here.
* The runs that expect a violation, and the statements of 3.5: they are counterexamples, which a bounded instance gives.

## 5. Plan

What the first plan listed is done. When the code changes:

1. A lock between the commands of the experience base would make the hypothesis `OneCaller` a lemma, and one around the cooldown file would do the same for analyses that overlap
   (`OnceInWindow`); then the statements of 3.5 about them become properties.
2. A `try` that covers the whole producer of `service/llm.py` would make `EveryLogJudged` a property of `analysis`.
3. The SSH pool of ops-maintenance deserves a module of its own when more than one caller shares it.

## 6. Not modelled

Database drivers that turn one request into one call, HTTP retries (their outcome is a choice in the
collectors), installation and unit files, checkers that run one shell command each, prompts, pages and report
layouts, packaging and continuous integration: they are sequential, pure input and output, or their
difficulty is in the data. The SSH pool of ops-maintenance has an await between the look-up and the
insertion of a connection and is the one part with an interleaving of its own that has no module. `buddy-log-analyzer`'s `watch` is
defined after `main()` has run and cannot be reached. Scores, distances, labels and the texts a language model
returns are any values throughout; what is claimed holds whatever they are.
