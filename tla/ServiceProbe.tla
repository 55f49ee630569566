------------------------------ MODULE ServiceProbe ------------------------------
(***************************************************************************)
(* How a run of the vLLM benchmark agent tells its service from others      *)
(* (tools/vllm.py, and the start and health stages of agent/main.py).       *)
(* A probe asks the container three times: for the NPU process table, for   *)
(* the process list, and whether the endpoint answers.  Meanwhile processes *)
(* fork, bind NPUs, open the port and die.  Of a service we keep whether it *)
(* is configured as the run wants it ("own") or is another one; of the      *)
(* other one, whether it uses the run's port and where its options differ.  *)
(***************************************************************************)
EXTENDS Integers, Sequences, FiniteSets, SequencesExt

CONSTANTS Pids,         \* process ids that may be used
          Npus, Wanted,
          Others,       \* what another service may be: [port, options]
          Retries,      \* health_retries
          Grace,        \* identity_grace
          MaxStarts     \* bound on how often the run is started or resumed

ASSUME ServiceProbeAssumption ==
    /\ Pids \subseteq Nat \ {0}
    /\ Wanted \subseteq Npus /\ Wanted # {}
    /\ Others \subseteq [port : BOOLEAN, options : {"same", "model", "config"}]
    /\ Retries \in Nat \ {0} /\ Grace \in Nat \ {0} /\ MaxStarts \in Nat

VARIABLES
    up,        \* the container is running
    procs,     \* its processes: parent (0: none), service, and whether the
               \* command line still says `vllm serve'
    holder,    \* the process that holds an NPU, or 0
    listener,  \* the service that answers on the port, or "none"
    other,     \* what the other service is
    pc, stage, \* of the run: what it does next, in "start" or in "health"
    seen,      \* what the current probe has read
    result,    \* the decision of the last probe
    tries, ambiguous,   \* _wait_health: attempts, and identity_unknown in a row
    starts,
    upset      \* history: a process died, or two services share the port

world == <<up, procs, holder, listener, other>>
agent == <<pc, stage, seen, result, tries, ambiguous, starts>>
probeVars  == <<world, agent, upset>>

-----------------------------------------------------------------------------
NothingSeen == [table |-> [d \in Npus |-> 0], ps |-> <<>>, answered |-> "none"]

ProbeInit ==
    /\ up \in BOOLEAN /\ procs = <<>> /\ holder = [d \in Npus |-> 0]
    /\ listener = "none" /\ other \in Others
    /\ pc = "idle" /\ stage = "start" /\ seen = NothingSeen /\ result = "none"
    /\ tries = 0 /\ ambiguous = 0 /\ starts = 0
    /\ upset = FALSE

-----------------------------------------------------------------------------
(* The processes of the container *)

Alive == DOMAIN procs
Of(svc) == {p \in Alive : procs[p].svc = svc}
UsesPort(svc) == svc = "own" \/ other.port

With(p, rec) == [q \in Alive \cup {p} |-> IF q = p THEN rec ELSE procs[q]]
Without(p) == [q \in Alive \ {p} |->
                  IF procs[q].parent = p THEN [procs[q] EXCEPT !.parent = 0] ELSE procs[q]]

TwoOnPort == upset \/ (Of("own") # {} /\ other.port)

\* The smallest pid that is free: one that was freed may go to a child of a
\* process with a larger one.
NewPids == {p \in Pids \ Alive : \A q \in Pids \ Alive : p <= q}

\* (Bounds: nothing happens after the last step of the run, and after a mishap,
\* which ends what two of the properties say, processes only start.)
Goes == pc # "ready" /\ (pc = "blocked" => starts < MaxStarts)

OtherStarts ==
    /\ Goes /\ up /\ Of("other") = {}
    /\ \E p \in NewPids :
          procs' = With(p, [parent |-> 0, svc |-> "other", serve |-> TRUE])
    /\ upset' = TwoOnPort
    /\ UNCHANGED <<up, holder, listener, other, agent>>

\* The command line of a child is its parent's or a worker's own.
Forks ==
    /\ Goes
    /\ \E p \in Alive, c \in NewPids, serve \in BOOLEAN :
          procs' = With(c, [parent |-> p, svc |-> procs[p].svc,
                            serve |-> serve /\ procs[p].serve])
    /\ UNCHANGED <<up, holder, listener, other, agent, upset>>

\* The run's service is given the wanted NPUs, the other one may take any.
Binds ==
    /\ Goes /\ ~upset
    /\ \E p \in Alive, d \in Npus :
          /\ holder[d] = 0 /\ (procs[p].svc = "own" => d \in Wanted)
          /\ holder' = [holder EXCEPT ![d] = p]
    /\ UNCHANGED <<up, procs, listener, other, agent, upset>>

\* A service answers when its NPUs are bound.
Answers ==
    /\ Goes /\ ~upset /\ listener = "none"
    /\ \E s \in {"own", "other"} :
          /\ Of(s) # {} /\ UsesPort(s)
          /\ s = "own" => \A d \in Wanted : holder[d] \in Of("own")
          /\ listener' = s
    /\ UNCHANGED <<up, procs, holder, other, agent, upset>>

\* A process dies; its children live on.  
Dies ==
    /\ Goes /\ ~upset
    /\ \E p \in Alive :
          /\ procs' = Without(p)
          /\ holder' = [d \in Npus |-> IF holder[d] = p THEN 0 ELSE holder[d]]
          /\ listener' = IF listener = procs[p].svc THEN "none" ELSE listener
    /\ upset' = TRUE
    /\ UNCHANGED <<up, other, agent>>

-----------------------------------------------------------------------------
(* tools/vllm.py: the process tree *)

\* _ancestor_pids, _descendant_pids
Ancestors(ps) ==
    LET anc[p \in DOMAIN ps] ==
            LET q == ps[p].parent IN IF q \in DOMAIN ps THEN {q} \cup anc[q] ELSE {}
    IN anc
Descendants(ps, p) == {q \in DOMAIN ps : q = p \/ p \in Ancestors(ps)[q]}

\* The roots: `vllm serve' on the run's port.
Roots(ps) == {p \in DOMAIN ps : ps[p].serve /\ UsesPort(ps[p].svc)}

\* A root belongs to a group that has an ancestor or a descendant of it.
Related(anc, p, group) == group \cap anc[p] # {} \/ \E q \in group : p \in anc[q]

\* _group_roots: a root joins the first group it is related to.
Join(anc, groups, p) ==
    LET related == {i \in DOMAIN groups : Related(anc, p, groups[i])}
    IN IF related = {} THEN Append(groups, {p})
       ELSE [groups EXCEPT ![CHOOSE i \in related : \A j \in related : i <= j] = @ \cup {p}]

\* The roots come in the order of ps, which is that of the pids.
Groups(ps) ==
    LET anc == Ancestors(ps)
        last == Max(Roots(ps) \cup {0})
        upto[n \in 0 .. last] ==
            IF n = 0 THEN <<>> ELSE IF n \in Roots(ps) THEN Join(anc, upto[n - 1], n) ELSE upto[n - 1]
    IN upto[last]

\* _top_root: the first that has the fewest ancestors.
TopRoot(ps, group) ==
    LET anc == Ancestors(ps)
        depth(p) == Cardinality(anc[p])
    IN CHOOSE p \in group : \A q \in group :
           depth(p) < depth(q) \/ (depth(p) = depth(q) /\ p <= q)

Occupied(ps, table, group) ==
    {d \in Npus : table[d] \in Descendants(ps, TopRoot(ps, group))}

\* _disambiguate_roots: the one tree that has exactly the wanted NPUs.
Chosen(ps, table) ==
    LET groups == Groups(ps)
    IN IF Len(groups) = 1 THEN {groups[1]}
       ELSE LET exact == {i \in DOMAIN groups : Occupied(ps, table, groups[i]) = Wanted}
            IN IF Cardinality(exact) = 1 THEN {groups[i] : i \in exact} ELSE {}

-----------------------------------------------------------------------------
(* probe: the decision, in the order of the code *)

\* Where the command line of the chosen tree differs.
OptionsOf(ps, group) ==
    IF ps[TopRoot(ps, group)].svc = "own" THEN "same" ELSE other.options
ServesWanted(who) == who = "own" \/ other.options # "model"

\* A tree with the wanted options: its NPUs, and the endpoint.
JudgeTree(occupied, answered) ==
    CASE occupied \notin {{}, Wanted} /\ answered # "none" -> "device_mismatch"
      [] answered = "none" -> "loading"
      [] ~ServesWanted(answered) -> "model_mismatch"
      [] occupied = {} -> "identity_unknown"
      [] OTHER -> "already_running"

JudgeGroup(ps, table, answered, group) ==
    CASE OptionsOf(ps, group) = "model"  -> "model_mismatch"
      [] OptionsOf(ps, group) = "config" -> "config_mismatch"
      [] OTHER -> JudgeTree(Occupied(ps, table, group), answered)

\* Without a root: somebody else's endpoint or NPUs, a port or a model that
\* cannot be used, or nothing.
JudgeNoRoot(table, answered) ==
    IF answered # "none" THEN {"identity_unknown"}
    ELSE IF \E d \in Wanted : table[d] # 0 THEN {"device_busy"}
    ELSE {"port_unavailable", "model_unavailable", "need_start"}

\* (For the mutation runs: a service that does not answer is not there.)
DecisionsByEndpoint(ps, table, answered) ==
    IF Roots(ps) = {} \/ answered = "none" THEN JudgeNoRoot(table, answered)
    ELSE IF Chosen(ps, table) = {} THEN {"identity_unknown"}
    ELSE {JudgeGroup(ps, table, answered, group) : group \in Chosen(ps, table)}

Decisions(ps, table, answered) ==
    IF Roots(ps) = {} THEN JudgeNoRoot(table, answered)
    ELSE IF Chosen(ps, table) = {} THEN {"identity_unknown"}
    ELSE {JudgeGroup(ps, table, answered, group) : group \in Chosen(ps, table)}

-----------------------------------------------------------------------------
(* One probe *)

At(p) == pc = p
Asks(p, s) == pc' = p /\ seen' = s

\* The probe is over: what the stage does with its decision is next.
Decides(d) == pc' = "decided" /\ result' = d /\ seen' = NothingSeen

\* Inspect, /dev/davinci*, npu-smi: a wanted NPU may be missing or ill.
ReadTable ==
    /\ At("probe")
    /\ \/ ~up /\ Decides("container_stopped")
       \/ up /\ Decides("device_unavailable")
       \/ up /\ Decides("device_unhealthy")
       \/ /\ up
          /\ Asks("ps", [seen EXCEPT !.table = holder, !.answered = listener])
          /\ UNCHANGED result
    /\ UNCHANGED <<world, stage, tries, ambiguous, starts, upset>>

ReadProcesses ==
    /\ At("ps") /\ Asks("endpoint", [seen EXCEPT !.ps = procs])
    /\ UNCHANGED <<world, stage, result, tries, ambiguous, starts, upset>>

\* check_health, and the decision; `late' is for the properties: the endpoint
\* began to answer after the table was read.
ReadEndpoint ==
    /\ At("endpoint")
    /\ \E d \in Decisions(seen.ps, seen.table, listener) :
          /\ pc' = "decided" /\ result' = d
          /\ seen' = [NothingSeen EXCEPT !.answered =
                         IF listener # seen.answered THEN "late" ELSE listener]
    /\ UNCHANGED <<world, stage, tries, ambiguous, starts, upset>>

\* A question to the container fails: no decision.
ProbeFails ==
    /\ pc \in {"probe", "ps"} /\ Decides("error")
    /\ UNCHANGED <<world, stage, tries, ambiguous, starts, upset>>

-----------------------------------------------------------------------------
(* The run *)

Block == pc' = "blocked" /\ UNCHANGED <<stage, tries, ambiguous>>
\* _wait_health starts over.
WaitHealth == pc' = "probe" /\ stage' = "health" /\ tries' = 0 /\ ambiguous' = 0
Forget ==
    /\ seen' = IF pc' = "blocked" THEN seen ELSE NothingSeen
    /\ result' = IF pc' = "blocked" THEN result ELSE "none"

\* start, or resume of a blocked run.
Start ==
    /\ pc \in {"idle", "blocked"} /\ starts < MaxStarts /\ starts' = starts + 1
    /\ pc' = "probe" /\ stage' = "start" /\ Forget
    /\ UNCHANGED <<world, tries, ambiguous, upset>>

\* ensure: a stopped container is started.
Ensured == up' = TRUE /\ pc' = "probe" /\ UNCHANGED <<stage, tries, ambiguous>>

\* _handle_probe_decision: a stopped container is started once; _acquire_devices
\* may refuse the devices (DeviceLocks), and the run then waits.
HandleDecision ==
    /\ At("decided") /\ stage = "start"
    /\ CASE result = "container_stopped" ->
              Ensured \/ (UNCHANGED up /\ Block)
         [] result \in {"already_running", "loading"} ->
              UNCHANGED up /\ (WaitHealth \/ Block)
         [] result = "need_start" ->
              /\ UNCHANGED up
              /\ \/ pc' = "launch" /\ UNCHANGED <<stage, tries, ambiguous>>
                 \/ Block
         [] OTHER -> UNCHANGED up /\ Block
    /\ Forget
    /\ UNCHANGED <<procs, holder, listener, other, starts, upset>>

\* launch: `docker exec -d'; what it starts may be gone at once.
Launch ==
    /\ At("launch")
    /\ \/ /\ up
          /\ \E p \in NewPids :
                procs' = With(p, [parent |-> 0, svc |-> "own", serve |-> TRUE])
          /\ upset' = (upset \/ (Of("other") # {} /\ other.port) \/ Of("own") # {})
          /\ WaitHealth
       \/ Block /\ UNCHANGED <<procs, upset>>
    /\ UNCHANGED <<up, holder, listener, other, seen, result, starts>>

Transient == {"loading", "need_start", "identity_unknown", "error"}

LastTry == tries + 1 = Retries

\* _wait_health, one attempt.
HealthAttempt ==
    /\ At("decided") /\ stage = "health"
    /\ LET row == IF result = "identity_unknown" THEN ambiguous + 1 ELSE 0 IN
          IF result = "already_running"
          THEN pc' = "ready" /\ UNCHANGED <<tries, ambiguous, seen, result>>
          ELSE IF row >= Grace \/ result \notin Transient \/ LastTry
          THEN pc' = "blocked" /\ UNCHANGED <<tries, ambiguous, seen, result>>
          ELSE pc' = "probe" /\ tries' = tries + 1 /\ ambiguous' = row /\ Forget
    /\ UNCHANGED <<world, stage, starts, upset>>

-----------------------------------------------------------------------------
ProbeNext == \/ OtherStarts \/ Forks \/ Binds \/ Answers \/ Dies
        \/ Start \/ ReadTable \/ ReadProcesses \/ ReadEndpoint \/ ProbeFails
        \/ HandleDecision \/ Launch \/ HealthAttempt

-----------------------------------------------------------------------------
Process == [parent : Pids \cup {0}, svc : {"own", "other"}, serve : BOOLEAN]

\* _group_roots unites the roots of a process tree: a group never spans two
\* trees, and as long as parents have smaller pids than their children a tree
\* is never split.
Top(ps, p) == CHOOSE t \in {p} \cup Ancestors(ps)[p] : ps[t].parent \notin DOMAIN ps
GroupsAreTrees ==
    LET ps == seen.ps  groups == Groups(seen.ps)
    IN /\ \A i \in DOMAIN groups : \A p, q \in groups[i] : Top(ps, p) = Top(ps, q)
       /\ (\A p \in DOMAIN ps : ps[p].parent < p) =>
             \A i, j \in DOMAIN groups : i # j =>
                \A p \in groups[i], q \in groups[j] : Top(ps, p) # Top(ps, q)

\* A run does not block over the NPUs of its own service, which binds them one
\* by one before it answers: device_mismatch means that a process died, that
\* another service is on the port, or that the endpoint began to answer after
\* the table was read.
MismatchIsReal ==
    pc = "blocked" /\ result = "device_mismatch" /\ Of("own") # {} =>
        upset \/ seen.answered = "late" \/ Of("other") # {}

\* A run that goes on to its benchmark has a service with its own options,
\* unless two services share the port or a process died meanwhile.
ReadyMeansOwn ==
    pc = "ready" /\ ~upset /\ listener # "none" =>
        listener = "own" \/ other.options = "same"

\* A start or a resume never launches a second service beside the one an
\* earlier start left loading, unless a process of that one died.
NeverTwice == pc = "launch" /\ Of("own") # {} => upset

\* What a run makes of its probes: all of the above.
ProbeIsTrusted == GroupsAreTrees /\ MismatchIsReal /\ ReadyMeansOwn /\ NeverTwice

=============================================================================
