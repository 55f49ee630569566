--------------------------- MODULE LogTaskService ---------------------------
(***************************************************************************)
(* The task service of the witty-log-detection skill: an MCP server        *)
(* process, a listener process that polls the task table, and one worker   *)
(* process per started task.  They share nothing but a SQLite file, and    *)
(* every SQL statement is a step of its own: between two statements of one *)
(* process the others run.                                                 *)
(*                                                                         *)
(* One server lifetime is an epoch.  Its listener is named by the epoch,   *)
(* because stopServices may kill the server and leave the listener behind, *)
(* so that listeners of two epochs run side by side.                       *)
(***************************************************************************)
EXTENDS Naturals, FiniteSets

CONSTANTS Tasks,        \* task ids (uuid4: an id is created once)
          BaseTasks,    \* those created with task_type "base"
          Pids,         \* process ids of workers; a bound on how many start
          Clients,      \* MCP calls that may be in flight together
          CpuUseLimit,  \* ProcessHandler.cpu_use_limit
          Batches,      \* INSERT steps of one worker's results
          MaxEpoch,     \* bound on server lifetimes
          WorkerMayDie, \* a worker can be killed from outside (OOM killer)
          ListenerMayOutlive, \* a server can be killed and its listener not
          NoPid, NoTask

ASSUME LogTaskAssumption ==
    /\ IsFiniteSet(Tasks)
    /\ BaseTasks \subseteq Tasks
    /\ CpuUseLimit \in Nat
    /\ MaxEpoch \in Nat \ {0}
    /\ Batches \in Nat \ {0}
    /\ WorkerMayDie \in BOOLEAN /\ ListenerMayOutlive \in BOOLEAN
    /\ NoPid \notin Pids
    /\ NoTask \notin Tasks

VARIABLES
    status,     \* task_table.status; "uncreated" and "deleted": no such row
    pid,        \* task_table.pid
    results,    \* log_parse_result_table: the (worker, batch) pairs stored
    server,     \* "down", "init" (init() is running) or "up"
    epoch,      \* the current or last server lifetime
    resets,     \* how often init() has put RUNNING rows back to PENDING
    initTodo,   \* tasks init() still has to kill; NoTask: not read yet
    at,         \* program counter of each epoch's listener
    snap,       \* rows a listener has read and not handled: <<task, status>>
    child,      \* process a listener has started and not yet marked RUNNING
    wtask,      \* task a worker process was started for
    wby,        \* <<listener, resets>> at its start
    wst,        \* what the worker does next: "boot", "insert" or "report";
                \* or what became of it: "ended"
    stored,     \* INSERT steps the worker has behind it
    call,       \* MCP call in flight: what it does next, and to which task
    \* history, read by properties only
    marked,     \* workers whose listener has written RUNNING after the start
    stopped,    \* tasks that a stop found RUNNING, killed and CANCLED
    purged      \* tasks with a row whose results delete_task has deleted

rowVars  == <<status, pid, results>>
srvVars  == <<server, epoch, resets, initTodo>>
lsnVars  == <<at, snap, child>>
wrkVars  == <<wtask, wby, wst, stored>>
histVars == <<marked, stopped, purged>>
vars == <<rowVars, srvVars, lsnVars, wrkVars, call, histVars>>

-----------------------------------------------------------------------------
RowStatus  == {"pending", "running", "cancled", "successful_pending_remove",
               "failed_pending_remove", "successful", "failed"}
NoRow      == {"uncreated", "deleted"}
PendingRemove == {"successful_pending_remove", "failed_pending_remove"}
Epochs     == 1 .. MaxEpoch
Working    == {"boot", "insert", "report"}

HasRow(t)     == status[t] \notin NoRow
Rows(ss)      == {t \in Tasks : status[t] \in ss}
Snapshot(ss)  == {<<t, status[t]>> : t \in Rows(ss)}
Alive(p)      == wst[p] \in Working
WorkersOf(t)  == {p \in Pids : wtask[p] = t /\ Alive(p)}
Complete(t)   == \E p \in Pids : {p} \X (1 .. Batches) \subseteq results[t]

\* update_task_by_id: an UPDATE of a missing row changes nothing and succeeds.
SetStatus(t, s) ==
    status' = IF HasRow(t) THEN [status EXCEPT ![t] = s] ELSE status

\* remove_task: SIGKILL to the pid in the row.  A process that has already
\* ended, a missing row and a missing pid are ignored.
RemoveTask(t) ==
    wst' = [p \in Pids |-> IF HasRow(t) /\ p = pid[t] /\ Alive(p)
                           THEN "ended" ELSE wst[p]]

-----------------------------------------------------------------------------
Idle == [next |-> "idle", task |-> NoTask, op |-> "none"]

Init ==
    /\ status = [t \in Tasks |-> "uncreated"]
    /\ pid = [t \in Tasks |-> NoPid]
    /\ results = [t \in Tasks |-> {}]
    /\ server = "down" /\ epoch = 0 /\ resets = 0 /\ initTodo = {}
    /\ at = [e \in Epochs |-> "off"]
    /\ snap = [e \in Epochs |-> {}]
    /\ child = [e \in Epochs |-> NoPid]
    /\ wtask = [p \in Pids |-> NoTask]
    /\ wby = [p \in Pids |-> <<0, 0>>]
    /\ wst = [p \in Pids |-> "free"]
    /\ stored = [p \in Pids |-> 0]
    /\ call = [c \in Clients |-> Idle]
    /\ marked = {} /\ stopped = {} /\ purged = {}

-----------------------------------------------------------------------------
(* Faulty versions of definitions below, each with one plausible bug, under   *)
(* which a property of the runs must fail.  The specification uses none.      *)

\* The sweep looks for successful tasks only.
SweepReadSuccessOnly(e) ==
    /\ at[e] = "sweep"
    /\ snap' = [snap EXCEPT ![e] = Snapshot({"successful_pending_remove"})]
    /\ at' = [at EXCEPT ![e] = "sweeping"]
    /\ UNCHANGED <<rowVars, srvVars, child, wrkVars, call, histVars>>

\* The limit is compared with <= instead of <, or leaves the last slot empty.
CanAddOneMore(t) ==
    /\ status[t] = "pending" /\ t \notin BaseTasks
    /\ Cardinality(Rows({"running"})) <= CpuUseLimit

CanAddOneLess(t) ==
    /\ status[t] = "pending" /\ t \notin BaseTasks
    /\ Cardinality(Rows({"running"})) + 1 < CpuUseLimit

\* run() does not write RUNNING.
MarkRunningOmitted(e) ==
    /\ at[e] = "mark"
    /\ marked' = marked \cup {child[e]}
    /\ child' = [child EXCEPT ![e] = NoPid]
    /\ at' = [at EXCEPT ![e] = "polling"]
    /\ UNCHANGED <<rowVars, srvVars, snap, wrkVars, call, stopped, purged>>

\* add_task starts the process and does not write its pid.
RecordPidOmitted(e) ==
    /\ at[e] = "record"
    /\ at' = [at EXCEPT ![e] = "mark"]
    /\ UNCHANGED <<rowVars, srvVars, snap, child, wrkVars, call, histVars>>

\* The worker reports before it has stored anything.
WorkerBootSkipsInsert(p) ==
    /\ wst[p] = "boot"
    /\ wst' = [wst EXCEPT ![p] = IF HasRow(wtask[p]) THEN "report" ELSE "ended"]
    /\ UNCHANGED <<rowVars, srvVars, lsnVars, wtask, wby, stored, call, histVars>>

\* Foreign keys are off: results of a deleted task are stored.
WorkerInsertUnchecked(p) ==
    /\ wst[p] = "insert"
    /\ stored' = [stored EXCEPT ![p] = @ + 1]
    /\ results' = [results EXCEPT ![wtask[p]] = @ \cup {<<p, stored'[p]>>}]
    /\ wst' = [wst EXCEPT ![p] = IF stored'[p] = Batches THEN "report" ELSE @]
    /\ UNCHANGED <<status, pid, srvVars, lsnVars, wtask, wby, call, histVars>>

\* stop_task cancels a RUNNING task without killing its worker.
StopKillOmitted(c) ==
    /\ call[c].next = "kill"
    /\ call' = [call EXCEPT ![c].next = "cancelKilled"]
    /\ UNCHANGED <<rowVars, srvVars, lsnVars, wrkVars, histVars>>

-----------------------------------------------------------------------------
(* The server: init(), and the ways a lifetime ends. *)

\* The service is started, and init() reads the RUNNING rows.
ServerStart ==
    /\ server = "down" /\ epoch < MaxEpoch
    /\ server' = "init"
    /\ epoch' = epoch + 1
    /\ initTodo' = Rows({"running"})
    /\ UNCHANGED <<rowVars, resets, lsnVars, wrkVars, call, histVars>>

\* init() kills the process of one of them.
InitRemove ==
    /\ server = "init"
    /\ \E t \in initTodo :
          /\ RemoveTask(t)
          /\ initTodo' = initTodo \ {t}
    /\ UNCHANGED <<rowVars, server, epoch, resets, lsnVars, wtask, wby, stored,
                   call, histVars>>

\* init() puts every RUNNING row back to PENDING (not only those it read);
\* then the listener process is started and the MCP endpoint serves.
InitReset ==
    /\ server = "init" /\ initTodo = {}
    /\ status' = [t \in Tasks |-> IF status[t] = "running" THEN "pending"
                                                           ELSE status[t]]
    /\ resets' = resets + 1
    /\ server' = "up"
    /\ at' = [at EXCEPT ![epoch] = "sweep"]
    /\ UNCHANGED <<pid, results, epoch, initTodo, snap, child, wrkVars, call,
                   histVars>>

\* The lifetime ends; calls in flight are lost.  The finally block kills the
\* listener (keepListener = FALSE) unless the server process was itself
\* killed; workers live on unless the whole control group is killed.
ServerStop(keepListener, keepWorkers) ==
    /\ server # "down" /\ epoch < MaxEpoch
    /\ keepListener => ListenerMayOutlive /\ keepWorkers /\ at[epoch] # "off"
    /\ server' = "down"
    /\ initTodo' = {}
    /\ call' = [c \in Clients |-> Idle]
    /\ at' = [e \in Epochs |->
                 IF keepListener \/ (keepWorkers /\ e # epoch) THEN at[e]
                                                               ELSE "off"]
    /\ snap' = [e \in Epochs |-> IF at'[e] = "off" THEN {} ELSE snap[e]]
    /\ child' = [e \in Epochs |-> IF at'[e] = "off" THEN NoPid ELSE child[e]]
    /\ wst' = [p \in Pids |-> IF Alive(p) /\ ~keepWorkers THEN "ended"
                                                          ELSE wst[p]]
    /\ UNCHANGED <<rowVars, epoch, resets, wtask, wby, stored, histVars>>

-----------------------------------------------------------------------------
(* The listener of epoch e: listen_and_process_tasks. *)

\* process_successful_or_failed_tasks reads the rows to clean up.
SweepRead(e) ==
    /\ at[e] = "sweep"
    /\ snap' = [snap EXCEPT ![e] = Snapshot(PendingRemove)]
    /\ at' = [at EXCEPT ![e] = "sweeping"]
    /\ UNCHANGED <<rowVars, srvVars, child, wrkVars, call, histVars>>

\* It kills the worker of one of them and writes the final status that
\* belongs to the status it read, whatever the row says by now.
SweepTask(e) ==
    /\ at[e] = "sweeping"
    /\ \E r \in snap[e] :
          /\ RemoveTask(r[1])
          /\ SetStatus(r[1], IF r[2] = "successful_pending_remove"
                             THEN "successful" ELSE "failed")
          /\ snap' = [snap EXCEPT ![e] = @ \ {r}]
    /\ UNCHANGED <<pid, results, srvVars, at, child, wtask, wby, stored, call,
                   histVars>>

\* process_pending_tasks reads the PENDING rows.
PollRead(e) ==
    /\ at[e] = "sweeping" /\ snap[e] = {}
    /\ snap' = [snap EXCEPT ![e] = Snapshot({"pending"})]
    /\ at' = [at EXCEPT ![e] = "polling"]
    /\ UNCHANGED <<rowVars, srvVars, child, wrkVars, call, histVars>>

\* BaseWorker.run up to Process.start(): the row is still PENDING, its type
\* has a worker class (BaseWorker is no subclass of itself, so "base" has
\* none) and fewer than CpuUseLimit rows are RUNNING.
CanAdd(t) ==
    /\ status[t] = "pending"
    /\ t \notin BaseTasks
    /\ Cardinality(Rows({"running"})) < CpuUseLimit

Launch(e) ==
    /\ at[e] = "polling"
    /\ \E r \in snap[e], p \in Pids :
          /\ CanAdd(r[1])
          /\ wst[p] = "free"
          /\ wst' = [wst EXCEPT ![p] = "boot"]
          /\ wtask' = [wtask EXCEPT ![p] = r[1]]
          /\ wby' = [wby EXCEPT ![p] = <<e, resets>>]
          /\ child' = [child EXCEPT ![e] = p]
          /\ snap' = [snap EXCEPT ![e] = @ \ {r}]
    /\ at' = [at EXCEPT ![e] = "record"]
    /\ UNCHANGED <<rowVars, srvVars, stored, call, histVars>>

\* run() returns False or raises: the next task's turn.
Skip(e) ==
    /\ at[e] = "polling"
    /\ \E r \in snap[e] :
          /\ ~CanAdd(r[1])
          /\ snap' = [snap EXCEPT ![e] = @ \ {r}]
    /\ UNCHANGED <<rowVars, srvVars, at, child, wrkVars, call, histVars>>

\* add_task writes the pid of the process it has started.
RecordPid(e) ==
    /\ at[e] = "record"
    /\ LET t == wtask[child[e]] IN
          pid' = IF HasRow(t) THEN [pid EXCEPT ![t] = child[e]] ELSE pid
    /\ at' = [at EXCEPT ![e] = "mark"]
    /\ UNCHANGED <<status, results, srvVars, snap, child, wrkVars, call, histVars>>

\* run() writes RUNNING, whatever the status has become since Launch.
MarkRunning(e) ==
    /\ at[e] = "mark"
    /\ SetStatus(wtask[child[e]], "running")
    /\ marked' = marked \cup {child[e]}
    /\ child' = [child EXCEPT ![e] = NoPid]
    /\ at' = [at EXCEPT ![e] = "polling"]
    /\ UNCHANGED <<pid, results, srvVars, snap, wrkVars, call, stopped, purged>>

\* The round is over; the listener sleeps and starts again.
Sleep(e) ==
    /\ at[e] = "polling" /\ snap[e] = {}
    /\ at' = [at EXCEPT ![e] = "sweep"]
    /\ UNCHANGED <<rowVars, srvVars, snap, child, wrkVars, call, histVars>>

Listen(e) == \/ SweepRead(e) \/ SweepTask(e) \/ PollRead(e) \/ Launch(e)
             \/ Skip(e) \/ RecordPid(e) \/ MarkRunning(e) \/ Sleep(e)

-----------------------------------------------------------------------------
(* A worker process: the run() of a BaseWorker subclass. *)

\* It reads its task; without a row it raises, and its UPDATEs hit nothing.
WorkerBoot(p) ==
    /\ wst[p] = "boot"
    /\ wst' = [wst EXCEPT ![p] = IF HasRow(wtask[p]) THEN "insert"
                                                           ELSE "ended"]
    /\ UNCHANGED <<rowVars, srvVars, lsnVars, wtask, wby, stored, call, histVars>>

\* One executemany of add_log_parse_results.  Without the task's row the
\* foreign key refuses it; the remaining batches are dropped, and the worker
\* goes on as if they had been stored.
WorkerInsert(p) ==
    /\ wst[p] = "insert"
    /\ stored' = [stored EXCEPT ![p] = @ + 1]
    /\ IF HasRow(wtask[p])
       THEN /\ results' = [results EXCEPT ![wtask[p]] = @ \cup {<<p, stored'[p]>>}]
            /\ wst' = [wst EXCEPT ![p] = IF stored'[p] = Batches THEN "report"
                                                               ELSE @]
       ELSE /\ wst' = [wst EXCEPT ![p] = "report"]
            /\ UNCHANGED results
    /\ UNCHANGED <<status, pid, srvVars, lsnVars, wtask, wby, call, histVars>>

\* It reports success and exits.
WorkerReport(p) ==
    /\ wst[p] = "report"
    /\ SetStatus(wtask[p], "successful_pending_remove")
    /\ wst' = [wst EXCEPT ![p] = "ended"]
    /\ UNCHANGED <<pid, results, srvVars, lsnVars, wtask, wby, stored, call, histVars>>

\* An exception between boot and the report: FAILED_PENDING_REMOVE, and for a
\* ValueError in the LLM and embedding workers FAILED at once.
WorkerFail(p) ==
    /\ wst[p] \in {"insert", "report"}
    /\ \E s \in {"failed_pending_remove", "failed"} : SetStatus(wtask[p], s)
    /\ wst' = [wst EXCEPT ![p] = "ended"]
    /\ UNCHANGED <<pid, results, srvVars, lsnVars, wtask, wby, stored, call, histVars>>

\* The process is killed from outside the service: no handler runs.
WorkerDie(p) ==
    /\ WorkerMayDie /\ Alive(p)
    /\ wst' = [wst EXCEPT ![p] = "ended"]
    /\ UNCHANGED <<rowVars, srvVars, lsnVars, wtask, wby, stored, call, histVars>>

Work(p) == WorkerBoot(p) \/ WorkerInsert(p) \/ WorkerReport(p) \/ WorkerFail(p)

-----------------------------------------------------------------------------
(* MCP calls: create_log_parse_task, stop_task and delete_task. *)

CreateTask(t) ==
    /\ server = "up" /\ status[t] = "uncreated"
    /\ status' = [status EXCEPT ![t] = "pending"]
    /\ UNCHANGED <<pid, results, srvVars, lsnVars, wrkVars, call, histVars>>

\* What is left of a call when BaseWorker.stop has returned.
AfterStop(op, t) ==
    IF op = "delete" THEN [next |-> "purge", task |-> t, op |-> op] ELSE Idle

\* BaseWorker.stop reads the row and branches on the status it finds.  With no
\* row it raises AttributeError and the call ends (uncreated ids behave alike).
StopRead(c, op, t) ==
    /\ server = "up" /\ call[c] = Idle /\ HasRow(t)
    /\ call' = [call EXCEPT ![c] =
          CASE status[t] = "running" -> [next |-> "kill", task |-> t, op |-> op]
            [] status[t] = "pending" -> [next |-> "cancel", task |-> t, op |-> op]
            [] OTHER -> AfterStop(op, t)]
    /\ UNCHANGED <<rowVars, srvVars, lsnVars, wrkVars, histVars>>

\* The RUNNING branch kills the worker first.
StopKill(c) ==
    /\ call[c].next = "kill"
    /\ RemoveTask(call[c].task)
    /\ call' = [call EXCEPT ![c].next = "cancelKilled"]
    /\ UNCHANGED <<rowVars, srvVars, lsnVars, wtask, wby, stored, histVars>>

\* Both branches write CANCLED and return True.
StopCancel(c) ==
    /\ call[c].next \in {"cancel", "cancelKilled"}
    /\ SetStatus(call[c].task, "cancled")
    /\ stopped' = IF call[c].next = "cancelKilled"
                  THEN stopped \cup {call[c].task} ELSE stopped
    /\ call' = [call EXCEPT ![c] = AfterStop(call[c].op, call[c].task)]
    /\ UNCHANGED <<pid, results, srvVars, lsnVars, wrkVars, marked, purged>>

\* delete_task deletes the results ...
Purge(c) ==
    /\ call[c].next = "purge"
    /\ results' = [results EXCEPT ![call[c].task] = {}]
    /\ purged' = purged \cup {call[c].task}
    /\ call' = [call EXCEPT ![c].next = "drop"]
    /\ UNCHANGED <<status, pid, srvVars, lsnVars, wrkVars, marked, stopped>>

\* ... and then the row; ON DELETE CASCADE takes results stored in between.
Drop(c) ==
    /\ call[c].next = "drop"
    /\ SetStatus(call[c].task, "deleted")
    /\ results' = [results EXCEPT ![call[c].task] = {}]
    /\ purged' = purged \ {call[c].task}
    /\ call' = [call EXCEPT ![c] = Idle]
    /\ UNCHANGED <<pid, srvVars, lsnVars, wrkVars, marked, stopped>>

Serve(c) == StopKill(c) \/ StopCancel(c) \/ Purge(c) \/ Drop(c)

-----------------------------------------------------------------------------
Next ==
    \/ ServerStart \/ InitRemove \/ InitReset
    \/ \E kl, kw \in BOOLEAN : ServerStop(kl, kw)
    \/ \E e \in Epochs : Listen(e)
    \/ \E p \in Pids : Work(p) \/ WorkerDie(p)
    \/ \E t \in Tasks : CreateTask(t)
    \/ \E c \in Clients, op \in {"stop", "delete"}, t \in Tasks : StopRead(c, op, t)
    \/ \E c \in Clients : Serve(c)

Spec == Init /\ [][Next]_vars

-----------------------------------------------------------------------------
\* The rows, the processes and what each of them does next have their types.
TypeOK ==
    /\ status \in [Tasks -> RowStatus \cup NoRow]
    /\ pid \in [Tasks -> Pids \cup {NoPid}]
    /\ results \in [Tasks -> SUBSET (Pids \X (1 .. Batches))]
    /\ server \in {"down", "init", "up"}
    /\ epoch \in 0 .. MaxEpoch /\ resets \in Nat
    /\ initTodo \in SUBSET Tasks
    /\ at \in [Epochs -> {"off", "sweep", "sweeping", "polling", "record", "mark"}]
    /\ snap \in [Epochs -> SUBSET (Tasks \X RowStatus)]
    /\ child \in [Epochs -> Pids \cup {NoPid}]
    /\ wtask \in [Pids -> Tasks \cup {NoTask}]
    /\ wby \in [Pids -> Nat \X Nat]
    /\ wst \in [Pids -> Working \cup {"free", "ended"}]
    /\ stored \in [Pids -> 0 .. Batches]
    /\ call \in [Clients -> [next : {"idle", "kill", "cancel", "cancelKilled",
                                     "purge", "drop"},
                             task : Tasks \cup {NoTask},
                             op   : {"none", "stop", "delete"}]]
    /\ marked \in SUBSET Pids
    /\ stopped \in SUBSET Tasks
    /\ purged \in SUBSET Tasks

\* A deleted task stays deleted and leaves no results, even while a worker
\* that nobody killed still inserts and reports for it: the UPDATEs of a
\* missing row change nothing and the foreign key refuses the INSERTs.
DeleteIsFinal ==
    [][\A t \in Tasks : status[t] = "deleted" =>
          status'[t] = "deleted" /\ results'[t] = {}]_vars

\* A task that reads as successful has the whole output of one worker in the
\* table (get_task_result answers with it), unless delete_task has started on
\* the results.
SuccessIsComplete ==
    \A t \in Tasks \ purged :
        status[t] \in {"successful_pending_remove", "successful"} => Complete(t)

\* One listener starts a task at most once between two restarts: the RUNNING
\* it writes after the start always comes before it reads PENDING rows again,
\* and nothing but init() turns a row back to PENDING.
LaunchOnce ==
    \A p, q \in Pids :
        wtask[p] \in Tasks /\ wtask[p] = wtask[q] /\ wby[p] = wby[q] => p = q

\* With one listener at a time, the number of RUNNING rows never exceeds the
\* limit, although the count is read two UPDATEs before the row is marked.
RunningWithinLimit ==
    ~ListenerMayOutlive => Cardinality(Rows({"running"})) <= CpuUseLimit

\* With one listener at a time, two workers of one task that are both alive
\* and were both marked RUNNING do not exist: a restart kills the old one.
OneMarkedWorker ==
    ~ListenerMayOutlive => \A p, q \in marked :
        Alive(p) /\ Alive(q) /\ wtask[p] = wtask[q] => p = q

\* When stop_task has found a task RUNNING and returned true, no worker of the
\* task that was ever marked RUNNING is alive, then or later: it killed the
\* right process.  (Unless a delete_task has taken the row in between: there
\* is no pid to read any more.)
StopKills ==
    ~ListenerMayOutlive => \A p \in marked :
        Alive(p) /\ HasRow(wtask[p]) => wtask[p] \notin stopped

-----------------------------------------------------------------------------
\* What the service must eventually do.  Fairness is that of the processes: the
\* listener's loop never stops (every exception is caught), a worker that nobody
\* kills finishes, the server's coroutines are scheduled, and a stopped service
\* is started again.  Nobody has to create, stop or delete a task, or to stop
\* the server.
Fairness ==
    /\ WF_vars(ServerStart \/ InitRemove \/ InitReset)
    /\ \A e \in Epochs : WF_vars(Listen(e))
    /\ \A p \in Pids : WF_vars(Work(p))
    /\ \A c \in Clients : WF_vars(Serve(c))

LiveSpec == Spec /\ Fairness

\* The listener keeps turning finished tasks into SUCCESSFUL or FAILED: no
\* row stays in a *_PENDING_REMOVE status.
PendingRemoveIsSwept ==
    \A t \in Tasks : status[t] \in PendingRemove ~> status[t] \notin PendingRemove

\* A PENDING task of a type that has a worker class waits for ever only if the
\* slots are lost for ever: some row stays RUNNING without a worker.  A task
\* that cannot be started never keeps the listener from the others.
OnlyLostSlotsStarve ==
    \A t \in Tasks \ BaseTasks :
        <>[](status[t] = "pending")
            => <>[](\E u \in Tasks : status[u] = "running" /\ WorkersOf(u) = {})

-----------------------------------------------------------------------------
\* Claims of the documentation that the code does not keep.

\* stop_task: success means that the task was stopped, so a CANCLED task does
\* not start to run.
CancledStaysOff ==
    [][\A t \in Tasks : status[t] = "cancled" => status'[t] # "running"]_vars

\* init(): a restart leaves the tasks in a consistent state, so that no task
\* is worked on twice at a time.
OneWorker == \A t \in Tasks : Cardinality(WorkersOf(t)) <= 1

\* SKILL.md, "Poll get_task_message until status is SUCCESSFUL or FAILED": a
\* task that is created reaches such a status, unless it is cancelled or
\* deleted.
PollingEnds ==
    \A t \in Tasks :
        status[t] = "pending" ~> status[t] \in {"successful", "failed", "cancled",
                                                "deleted"}
=============================================================================
