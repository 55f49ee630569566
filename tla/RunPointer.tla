------------------------------- MODULE RunPointer -------------------------------
(***************************************************************************)
(* Several commands of the vLLM benchmark agent at once, and the files by   *)
(* which each finds its run (agent/main.py).  Without --run-id every helper *)
(* reads the pointer STATE_DIR/current_run anew, while another command may  *)
(* create a run and move it.  What a run does in its stages is BenchRun;    *)
(* here a stage loads the workflow of a run, works, and saves it.           *)
(***************************************************************************)
EXTENDS Integers

CONSTANTS Shells,       \* where the user types commands
          MaxCreated,   \* runs that are created
          MaxTyped      \* commands in a behaviour

ASSUME RunPointerAssumption == MaxCreated \in Nat /\ MaxTyped \in Nat

RunIds == 0 .. MaxCreated      \* 0: "default", when there is no pointer
NoHome == -1

VARIABLES
    pointer,     \* current_run
    created,     \* number of runs created
    status,      \* state in state.json of each run
    execution,   \* the shell that holds the execution.lock of a run
    command,     \* the command in each shell, see Quiet
    typed,
    away         \* history: saves in another run than the command's own

pointerVars == <<pointer, created, status, execution, command, typed, away>>

\* named: --run-id, or NoHome; home: the run it locked or created; work: the
\* run whose workflow it has loaded.
Quiet == [pc |-> "quiet", named |-> NoHome, home |-> NoHome, work |-> NoHome]

PointerInit ==
    /\ pointer = 0 /\ created = 0 /\ status = [r \in RunIds |-> "IDLE"]
    /\ execution = [r \in RunIds |-> {}]
    /\ command = [s \in Shells |-> Quiet] /\ typed = 0 /\ away = {}

-----------------------------------------------------------------------------
\* (For the mutation runs: --run-id is forgotten.)
CurrentByPointer(cmd) == pointer

\* _current_run_id, with the override that main sets.
Current(cmd) == IF cmd.named = NoHome THEN pointer ELSE cmd.named

InShell(s, pc) == command[s].pc = pc
Becomes(s, cmd) == command' = [command EXCEPT ![s] = cmd]

\* Workflow._save; a save in a foreign run is remembered.
SaveState(s, r, new) ==
    /\ status' = [status EXCEPT ![r] = new]
    /\ away' = IF r = command[s].home THEN away
               ELSE away \cup {[named |-> command[s].named, home |-> command[s].home, run |-> r]}

\* The command ends, and its lock with it.
Leaves(s) ==
    /\ Becomes(s, Quiet)
    /\ execution' = [r \in RunIds |-> execution[r] \ {s}]

Ended == {"DONE", "CANCELLED"}
-----------------------------------------------------------------------------
(* main *)

\* run needs no run to be there, and locks the one it creates later.
TypeRun(s) ==
    /\ InShell(s, "quiet") /\ typed < MaxTyped /\ typed' = typed + 1
    /\ created < MaxCreated
    /\ Becomes(s, [Quiet EXCEPT !.pc = "create"])
    /\ UNCHANGED <<pointer, created, status, execution, away>>

\* Any other command that changes a run locks it, or is refused (a cancel that
\* is refused interrupts the one that is not, by its marker).
TypeCommand(s, named) ==
    /\ InShell(s, "quiet") /\ typed < MaxTyped /\ typed' = typed + 1
    /\ named <= created
    /\ LET home == Current([Quiet EXCEPT !.named = named])
       IN /\ execution[home] = {}
          /\ execution' = [execution EXCEPT ![home] = {s}]
          /\ Becomes(s, [Quiet EXCEPT !.pc = "load", !.named = named, !.home = home])
    /\ UNCHANGED <<pointer, created, status, away>>
-----------------------------------------------------------------------------
(* cmd_run *)

\* _start_new_run: the new id, and the pointer to it.
CreateRun(s) ==
    /\ InShell(s, "create") /\ created < MaxCreated
    /\ created' = created + 1 /\ pointer' = created + 1
    /\ Becomes(s, [command[s] EXCEPT !.pc = "reset", !.home = created + 1])
    /\ UNCHANGED <<status, execution, typed, away>>

\* The rest of _create_run: the workflow that is current now is reset.
ResetRun(s) ==
    /\ InShell(s, "reset") /\ SaveState(s, pointer, "IDLE")
    /\ Becomes(s, [command[s] EXCEPT !.pc = "freeze"])
    /\ UNCHANGED <<pointer, created, execution, typed>>

\* _config_for_run saves the configuration, before any lock is held.
FreezeRun(s) ==
    /\ InShell(s, "freeze") /\ SaveState(s, pointer, status[pointer])
    /\ Becomes(s, [command[s] EXCEPT !.pc = "lock"])
    /\ UNCHANGED <<pointer, created, execution, typed>>

\* A lock that is held is an exception (Fails).
LockRun(s) ==
    /\ InShell(s, "lock") /\ execution[pointer] = {}
    /\ execution' = [execution EXCEPT ![pointer] = {s}]
    /\ Becomes(s, [command[s] EXCEPT !.pc = "load"])
    /\ UNCHANGED <<pointer, created, status, typed, away>>
-----------------------------------------------------------------------------
(* A stage, and how it ends *)

\* _wf: each stage loads the workflow anew; or this was the last one.
LoadRun(s) ==
    /\ InShell(s, "load")
    /\ \/ /\ status[Current(command[s])] \notin Ended
          /\ Becomes(s, [command[s] EXCEPT !.pc = "save", !.work = Current(command[s])])
          /\ UNCHANGED execution
       \/ Leaves(s)
    /\ UNCHANGED <<pointer, created, status, typed, away>>

SaveRun(s) ==
    /\ InShell(s, "save")
    /\ \E new \in {"BENCHMARK", "DONE"} : SaveState(s, command[s].work, new)
    /\ Becomes(s, [command[s] EXCEPT !.pc = "load", !.work = NoHome])
    /\ UNCHANGED <<pointer, created, execution, typed>>

\* The handlers of _execute change the run that is the current one then, which
\* is an earlier one while the command's own is not created yet.
HandleIn(s, new) ==
    /\ ~InShell(s, "quiet")
    /\ LET run == Current(command[s])
       IN SaveState(s, run, IF status[run] \in Ended THEN status[run] ELSE new)
    /\ Leaves(s)
    /\ UNCHANGED <<pointer, created, typed>>

\* SIGTERM, or the marker; and an exception.
InterruptRun(s) == status[Current(command[s])] \notin Ended /\ HandleIn(s, "CANCELLED")
Fails(s) == HandleIn(s, "WAIT_USER_DECISION")

PointerNext ==
    \E s \in Shells :
        \/ TypeRun(s) \/ CreateRun(s) \/ ResetRun(s) \/ FreezeRun(s) \/ LockRun(s)
        \/ LoadRun(s) \/ SaveRun(s) \/ InterruptRun(s) \/ Fails(s)
        \/ \E named \in RunIds \cup {NoHome} : TypeCommand(s, named)
-----------------------------------------------------------------------------
\* Of the commands whose own run is the same, only one is in a stage of it: the
\* lock of a run that is created is taken late, and found held by another's.
OneAtHome ==
    \A s, t \in Shells :
        /\ s # t /\ command[s].pc = "save" /\ command[t].pc = "save"
        /\ command[s].work = command[t].work
        => command[s].home # command[s].work \/ command[t].home # command[t].work

\* A command given --run-id keeps to it; another one leaves its run only for
\* one that was created later, unless it ends before it has a run.
StraysToNewer ==
    \A a \in away : a.named = NoHome /\ (a.home # NoHome => a.run > a.home)

CommandsKeepApart == OneAtHome /\ StraysToNewer

\* Runs are independent: a command that has a run changes no other.
RunsAreIndependent == \A a \in away : a.home = NoHome
=============================================================================
