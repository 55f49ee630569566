------------------------------ MODULE DeviceLocks ------------------------------
(***************************************************************************)
(* Several runs of the vLLM benchmark agent and the lock files of the NPUs  *)
(* they want.  Every command is a process of its own; a run executes one    *)
(* at a time, different runs execute together.  tools/lock.py first reads   *)
(* every wanted lock file and then writes every one of them: each read,     *)
(* each truncation and each write is a step here.  A run is told by its     *)
(* state.json: `state', and in its meta the wanted and the acquired devices *)
(* and whether a healthy service was seen.                                  *)
(* What a probe sees of the services is one step here; ServiceProbe has     *)
(* the detail.                                                              *)
(***************************************************************************)
EXTENDS Integers, FiniteSets

CONSTANTS Runs,
          Devices,      \* physical NPU ids
          Wishes,       \* the sets of devices that a configuration may ask for
          Container,    \* the container that a run's configuration names
          MaxCommands,  \* bound on the run, resume and stop commands
          NoRun, CutFile

ASSUME DeviceLocksAssumption ==
    /\ Devices \subseteq Nat
    /\ Wishes \subseteq (SUBSET Devices) \ {{}}
    /\ MaxCommands \in Nat
    /\ NoRun \notin Runs /\ CutFile \notin Runs /\ NoRun # CutFile

VARIABLES
    state,    \* state.json: "NEW" before the run exists
    want,     \* meta.config: vllm.device
    own,      \* meta.device_locks
    known,    \* meta.service is set: a service was found, or seen healthy
    started,  \* meta.service_started
    file,     \* the lock file of a device
    cmd,      \* the command of a run: pc, what it is about to do; todo, the devices
              \* that try_acquire still has to read, or to write; view, what its
              \* probe reported; holders, whether a run was found in its way
    service,  \* the devices of each vLLM service that a run launched
    begun,    \* how many commands were started
    causes    \* history: what has happened that defeats the locks

meta  == <<want, own, known, started>>
locksVars  == <<state, meta, file, cmd, service, begun, causes>>

-----------------------------------------------------------------------------
Unlocked == [run |-> NoRun, devices |-> {}]
\* A file between truncate and write; read_meta cannot parse it.
Cut      == [run |-> CutFile, devices |-> {}]
NoView   == [decision |-> "none", match |-> FALSE, busy |-> {}]

NoCommand == [pc |-> "idle", todo |-> {}, view |-> NoView, holders |-> FALSE]

Terminal == {"DONE", "CANCELLED"}
States   == {"NEW", "PROBE_SERVICE", "START_SERVICE", "HEALTH", "BENCHMARK", "WAIT_USER_DECISION",
             "WAITING_RESOURCE", "STOP_SERVICE"} \cup Terminal

\* read_meta: a missing or unreadable file is no lock.
Owner(d) == IF file[d] \in {Unlocked, Cut} THEN NoRun ELSE file[d].run

Least(S) == CHOOSE d \in S : \A e \in S : d <= e

LocksInit ==
    /\ state = [r \in Runs |-> "NEW"]
    /\ want \in [Runs -> Wishes] /\ own = [r \in Runs |-> {}]
    /\ known = [r \in Runs |-> FALSE] /\ started = [r \in Runs |-> FALSE]
    /\ file = [d \in Devices |-> Unlocked]
    /\ cmd = [r \in Runs |-> NoCommand]
    /\ service = [r \in Runs |-> {}]
    /\ begun = 0 /\ causes = {}

-----------------------------------------------------------------------------
(* Commands *)

Idle(r)      == cmd[r] = NoCommand
AtPc(r, p)     == cmd[r].pc = p
Goto(r, p)   == cmd' = [cmd EXCEPT ![r].pc = p]
End(r)       == cmd' = [cmd EXCEPT ![r] = NoCommand]
Become(r, s) == state' = [state EXCEPT ![r] = s]

\* A new command, with its first step.
Begin(r, p) == Idle(r) /\ begun < MaxCommands /\ begun' = begun + 1 /\ Goto(r, p)

\* _acquire_devices is open: between its first read and its last write.
Acquiring(r) == cmd[r].pc \in {"check", "cut", "fill"}

\* run, up to its first probe.
StartRun(r) ==
    /\ state[r] \in {"NEW", "PROBE_SERVICE"} /\ Begin(r, "probe")
    /\ Become(r, "PROBE_SERVICE")
    /\ UNCHANGED <<meta, file, service, causes>>

\* start, for a run that was interrupted while it waited for its service.
Recheck(r) ==
    /\ state[r] = "HEALTH" /\ Begin(r, "health")
    /\ UNCHANGED <<state, meta, file, service, causes>>

\* resume, with another configuration or with the same.
Resume(r) ==
    /\ state[r] \in {"WAITING_RESOURCE", "WAIT_USER_DECISION"} /\ Begin(r, "probe")
    /\ \E w \in Wishes :
          /\ want' = [want EXCEPT ![r] = w]
          /\ causes' = IF w # want[r] /\ own[r] # {} THEN causes \cup {"moved"}
                                                     ELSE causes
    /\ Become(r, "PROBE_SERVICE")
    /\ UNCHANGED <<own, known, started, file, service>>

Services == UNION {service[s] : s \in Runs}
Busy     == UNION Services

\* What the probe finds with `ps' in the run's own container.
Beside(r) == UNION {service[s] : s \in {t \in Runs : Container[t] = Container[r]}}

\* The probe's decision, as far as locks are concerned.  There are many reasons
\* to block the run, among them a service on some of the devices; but one of the
\* container that is loading may not have bound all its devices yet, and is
\* waited for.
LockDecisions(r) ==
    {[decision |-> "blocked", match |-> FALSE]}
    \cup IF want[r] \in Beside(r)
         THEN {[decision |-> "already_running", match |-> TRUE],
               [decision |-> "loading", match |-> TRUE], [decision |-> "loading", match |-> FALSE]}
         ELSE {[decision |-> "loading", match |-> FALSE] : w \in Beside(r)}
              \cup (IF Busy \cap want[r] # {} THEN {}
                    ELSE {[decision |-> "need_start", match |-> FALSE]})

Probe(r) ==
    /\ AtPc(r, "probe")
    /\ \E k \in LockDecisions(r) :
          IF k.decision = "blocked"
             THEN /\ Become(r, "WAIT_USER_DECISION") /\ End(r) /\ UNCHANGED causes
             ELSE /\ cmd' = [cmd EXCEPT ![r] =
                        [pc |-> "check", todo |-> want[r], holders |-> FALSE,
                         view |-> [decision |-> k.decision, match |-> k.match,
                                   busy |-> Busy]]]
                  /\ causes' = IF \E s \in Runs \ {r} :
                                    Acquiring(s) /\ want[s] \cap want[r] # {}
                               THEN causes \cup {"overlap"} ELSE causes
                  /\ UNCHANGED state
    /\ UNCHANGED <<meta, file, service, begun>>

-----------------------------------------------------------------------------
(* tools/lock.py *)

\* (For the mutation runs: a blocked run is taken for a finished one.)
LockIsActiveWhileRunning(m, v) ==
    state[m.run] \in {"PROBE_SERVICE", "START_SERVICE", "HEALTH", "BENCHMARK"}

\* _lock_is_active, of a lock that is not the run's own.
LockIsActive(m, v) ==
    \/ state[m.run] \notin Terminal \cup {"NEW"}
    \/ /\ state[m.run] \in Terminal
       /\ v.busy \cap m.devices # {}
       /\ ~(v.decision \in {"already_running", "loading"} /\ v.match)

\* The check loop of try_acquire, one file at a time.
Check(r) ==
    /\ AtPc(r, "check") /\ cmd[r].todo # {}
    /\ LET d == Least(cmd[r].todo)
           inTheWay == /\ Owner(d) \notin {NoRun, r}
                       /\ LockIsActive(file[d], cmd[r].view)
       IN cmd' = [cmd EXCEPT ![r].todo = @ \ {d}, ![r].holders = @ \/ inTheWay]
    /\ UNCHANGED <<state, meta, file, service, begun, causes>>

\* No file may be in the way; else _wait_for_resource.
Checked(r) ==
    /\ AtPc(r, "check") /\ cmd[r].todo = {}
    /\ IF cmd[r].holders
       THEN Become(r, "WAITING_RESOURCE") /\ End(r)
       ELSE cmd' = [cmd EXCEPT ![r].pc = "cut", ![r].todo = want[r]] /\ UNCHANGED state
    /\ causes' = IF ~cmd[r].holders /\ want[r] \cap (Busy \ cmd[r].view.busy) # {}
                 THEN causes \cup {"stale"} ELSE causes
    /\ UNCHANGED <<meta, file, service, begun>>

\* _write_locked holds the file's flock from truncate to write.
CutNext(r) ==
    /\ AtPc(r, "cut") /\ cmd[r].todo # {}
    /\ LET d == Least(cmd[r].todo) IN
          /\ \A s \in Runs \ {r} : AtPc(s, "fill") => Least(cmd[s].todo) # d
          /\ file' = [file EXCEPT ![d] = Cut]
    /\ Goto(r, "fill")
    /\ UNCHANGED <<state, meta, service, begun, causes>>

Fill(r) ==
    /\ AtPc(r, "fill")
    /\ file' = [file EXCEPT ![Least(cmd[r].todo)] = [run |-> r, devices |-> want[r]]]
    /\ cmd' = [cmd EXCEPT ![r].pc = "cut", ![r].todo = @ \ {Least(@)}]
    /\ UNCHANGED <<state, meta, service, begun, causes>>

\* set_meta(device_locks).
Acquired(r) ==
    /\ AtPc(r, "cut") /\ cmd[r].todo = {}
    /\ own' = [own EXCEPT ![r] = want[r]]
    /\ Goto(r, "decided")
    /\ UNCHANGED <<state, want, known, started, file, service, begun, causes>>

-----------------------------------------------------------------------------
(* What a run does with its devices. *)

\* A service that the probe found is saved before anything waits for it.
Decided(r) ==
    /\ AtPc(r, "decided")
    /\ IF cmd[r].view.decision = "need_start"
       THEN Goto(r, "launch") /\ Become(r, "START_SERVICE") /\ UNCHANGED known
       ELSE /\ Goto(r, "health") /\ Become(r, "HEALTH")
            /\ known' = [known EXCEPT ![r] = TRUE]
    /\ UNCHANGED <<want, own, started, file, service, begun, causes>>

\* _start_service: a launch that is reported as failed may have succeeded.
LaunchRun(r) ==
    /\ AtPc(r, "launch")
    /\ \/ /\ service' = [service EXCEPT ![r] = @ \cup {want[r]}]
          /\ started' = [started EXCEPT ![r] = TRUE]
          /\ Goto(r, "health") /\ Become(r, "HEALTH")
       \/ /\ service' \in {service, [service EXCEPT ![r] = @ \cup {want[r]}]}
          /\ UNCHANGED started
          /\ End(r) /\ Become(r, "WAIT_USER_DECISION")
    /\ UNCHANGED <<want, own, known, file, begun, causes>>

\* _wait_health: the service is up, or the run blocks.
Health(r) ==
    /\ AtPc(r, "health")
    /\ \/ /\ want[r] \in Beside(r)
          /\ known' = [known EXCEPT ![r] = TRUE]
          /\ Become(r, "BENCHMARK")
       \/ Become(r, "WAIT_USER_DECISION") /\ UNCHANGED known
    /\ End(r)
    /\ UNCHANGED <<want, own, started, file, service, begun, causes>>

\* The end of cmd_done; the stop command leaves the state alone.
Finish(s) == IF s = "STOP_SERVICE" THEN "DONE" ELSE s

\* bench and done; the cleanup stops the container of a service that the run
\* launched, unless the configuration says to keep it.
Done(r) ==
    /\ state[r] = "BENCHMARK" /\ Idle(r)
    /\ \/ Become(r, "DONE") /\ UNCHANGED cmd
       \/ started[r] /\ Goto(r, "stop") /\ Become(r, "STOP_SERVICE")
    /\ UNCHANGED <<meta, file, service, begun, causes>>

\* A round fails, and the run blocks.
BenchFails(r) ==
    /\ state[r] = "BENCHMARK" /\ Idle(r) /\ Become(r, "WAIT_USER_DECISION")
    /\ UNCHANGED <<meta, file, cmd, service, begun, causes>>

\* The stop command, in any state of the run.
Stop(r) ==
    /\ state[r] # "NEW" /\ Begin(r, "stop")
    /\ UNCHANGED <<state, meta, file, service, causes>>

\* _stop_service: `docker stop' ends every service in the container, ...
StopContainer(r) ==
    /\ AtPc(r, "stop")
    /\ \/ /\ service' = [s \in Runs |-> IF Container[s] = Container[r] THEN {}
                                        ELSE service[s]]
          /\ Goto(r, "release")
          /\ UNCHANGED state
       \/ /\ UNCHANGED service /\ End(r)
          /\ state' = [state EXCEPT ![r] = Finish(@)]
    /\ UNCHANGED <<meta, file, begun, causes>>

\* ... and release_all removes the lock files whoever owns them.
ReleaseAll(r) ==
    /\ AtPc(r, "release")
    /\ file' = [d \in Devices |-> IF d \in want[r] THEN Unlocked ELSE file[d]]
    /\ causes' = IF \E d \in want[r] : file[d] = Cut \/ Owner(d) \notin {NoRun, r}
                 THEN causes \cup {"stop"} ELSE causes
    /\ own' = [own EXCEPT ![r] = {}]
    /\ End(r)
    /\ state' = [state EXCEPT ![r] = Finish(@)]
    /\ UNCHANGED <<want, known, started, service, begun>>

-----------------------------------------------------------------------------
(* Interruptions *)

\* What an interrupted command leaves behind: a file that is cut, or locks of a
\* service that its meta does not name yet.
Torn(r) ==
    (IF AtPc(r, "fill") THEN {"torn"} ELSE {})
    \cup (IF cmd[r].pc \in {"fill", "cut", "decided"} THEN {"early"} ELSE {})

\* (For the mutation runs: cancel releases whatever is known.)
CancelReleasesAlways(r) == TRUE

\* cmd_cancel keeps the locks of a run that has seen its service, unless it
\* is told to release them.
CancelReleases(r) == ~known[r]

\* release: only the files that name the run.
Released(r) == [d \in Devices |-> IF d \in want[r] /\ Owner(d) = r THEN Unlocked ELSE file[d]]

\* cancel, or an interrupted command, which cancels its own run.
Cancel(r) ==
    /\ state[r] \notin Terminal \cup {"NEW"}
    /\ \E flag \in BOOLEAN :
          /\ file' = IF flag \/ CancelReleases(r) THEN Released(r) ELSE file
          /\ own' = IF flag THEN [own EXCEPT ![r] = {}] ELSE own
          /\ causes' = causes \cup Torn(r) \cup (IF flag THEN {"freed"} ELSE {})
    /\ Become(r, "CANCELLED") /\ End(r)
    /\ UNCHANGED <<want, known, started, service, begun>>

\* The command is killed.
Crash(r) ==
    /\ ~Idle(r) /\ End(r)
    /\ causes' = causes \cup Torn(r)
    /\ UNCHANGED <<state, meta, file, service, begun>>

\* A vLLM service dies.
ServiceDies(r) ==
    /\ \E w \in service[r] : service' = [service EXCEPT ![r] = @ \ {w}]
    /\ UNCHANGED <<state, meta, file, cmd, begun, causes>>

Step(r) ==
    \/ StartRun(r) \/ Recheck(r) \/ Resume(r) \/ Probe(r)
    \/ Check(r) \/ Checked(r) \/ CutNext(r) \/ Fill(r) \/ Acquired(r)
    \/ Decided(r) \/ LaunchRun(r) \/ Health(r) \/ Done(r) \/ BenchFails(r)
    \/ Stop(r) \/ StopContainer(r) \/ ReleaseAll(r)
    \/ Cancel(r) \/ Crash(r) \/ ServiceDies(r)

LocksNext == \E r \in Runs : Step(r)

-----------------------------------------------------------------------------

Unfinished(r) == state[r] \notin Terminal \cup {"NEW"}

\* Two unfinished runs that have acquired their devices have none in common
\* (lock.py: `all or nothing'), as long as no two acquisitions overlapped, no
\* command was interrupted in the middle of a file, and no run was stopped
\* whose files another one had taken over.
Exclusive ==
    causes \subseteq {"moved", "early", "stale", "freed"} =>
        \A r, s \in Runs :
            r # s /\ Unfinished(r) /\ Unfinished(s) => own[r] \cap own[s] = {}

\* try_acquire's docstring: every requested lock, atomically.
AllOrNothing ==
    \A r, s \in Runs :
        /\ r # s /\ Unfinished(r) /\ Unfinished(s)
        /\ "stop" \notin causes /\ "torn" \notin causes
        => own[r] \cap own[s] = {}

\* lock.py: the lock goes when the service is gone.  A service that a run has
\* seen healthy keeps its devices locked until a stop, or an explicit release.
ServiceIsLocked ==
    causes = {} =>
        \A r \in Runs : known[r] =>
            \A d \in UNION service[r] : file[d] # Unlocked

=============================================================================
