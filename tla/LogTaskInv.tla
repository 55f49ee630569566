----------------------------- MODULE LogTaskInv -----------------------------
(***************************************************************************)
(* The inductive invariants behind the properties of LogTaskService.  Each  *)
(* part says what some process relies on between two of its statements.     *)
(***************************************************************************)
EXTENDS LogTaskService

Starting(e)  == at[e] \in {"record", "mark"}
InFlight(t)  == \E e \in Epochs : Starting(e) /\ wtask[child[e]] = t
\* The results of t are whole as far as delete_task has not touched them.
Kept(t)      == HasRow(t) /\ t \notin purged

\* What each process holds while it is between two statements.
Control ==
    /\ \A e \in Epochs : Starting(e) => child[e] \in Pids /\ wtask[child[e]] \in Tasks
    /\ \A p \in Pids : wst[p] # "free" <=> wtask[p] \in Tasks
    /\ \A p \in Pids : wst[p] = "insert" => stored[p] < Batches
    /\ \A p \in Pids : wst[p] \in {"free", "boot"} => stored[p] = 0
    /\ \A p \in Pids : wtask[p] \in Tasks => status[wtask[p]] # "uncreated"
    /\ \A e \in Epochs : \A r \in snap[e] : status[r[1]] # "uncreated"
    /\ \A c \in Clients :
          call[c].next # "idle" => call[c].task \in Tasks /\ status[call[c].task] # "uncreated"

TypeInv == TypeOK /\ Control

-----------------------------------------------------------------------------
\* A task that a listener has started since the last init() and that still
\* reads PENDING is the one it is about to mark RUNNING.
LaunchInv ==
    /\ \A p \in Pids : wtask[p] \in Tasks => wby[p][2] <= resets
    /\ \A e \in Epochs : Starting(e) => wby[child[e]][1] = e
    /\ \A p \in Pids, e \in Epochs :
          /\ wtask[p] \in Tasks /\ wby[p] = <<e, resets>>
          /\ at[e] # "off" /\ status[wtask[p]] = "pending"
          => Starting(e) /\ child[e] = p
    /\ LaunchOnce

-----------------------------------------------------------------------------
NoOrphanResults == \A t \in Tasks : ~HasRow(t) => results[t] = {}

\* What a worker has behind it is in the table, and a row or a snapshot says
\* success only after some worker has stored everything.
ResultInv ==
    /\ NoOrphanResults
    /\ \A p \in Pids :
          /\ Alive(p) /\ Kept(wtask[p])
          => /\ {p} \X (1 .. stored[p]) \subseteq results[wtask[p]]
             /\ wst[p] = "report" => stored[p] = Batches
    /\ \A e \in Epochs, t \in Tasks :
          <<t, "successful_pending_remove">> \in snap[e] /\ Kept(t) => Complete(t)
    /\ SuccessIsComplete

-----------------------------------------------------------------------------
\* With one listener at a time: it runs only while its server serves, and the
\* task it is starting counts against the limit before its row is RUNNING.
OneListener ==
    ~ListenerMayOutlive =>
        \A e \in Epochs : at[e] # "off" => server = "up" /\ e = epoch

SlotInv ==
    ~ListenerMayOutlive =>
        Cardinality(Rows({"running"}) \cup {t \in Tasks : InFlight(t)}) <= CpuUseLimit

-----------------------------------------------------------------------------
MarkedOf(t) == {p \in marked : Alive(p) /\ wtask[p] = t}

\* With one listener at a time, the row of a task knows the worker to kill:
\* its pid column holds the marked worker that is alive, from the moment the
\* start is recorded; init() kills it before the row reads PENDING again, and
\* so does a stop before it cancels.
PidIsMarked  == \A t \in Tasks :
                    /\ HasRow(t) => MarkedOf(t) \subseteq {pid[t]}
                    /\ \A p, q \in MarkedOf(t) : p = q
PidIsChild   == \A e \in Epochs :
                    at[e] = "mark" /\ HasRow(wtask[child[e]])
                    => pid[wtask[child[e]]] = child[e]
PendingIsUnmarked == \A t \in Tasks : status[t] = "pending" => MarkedOf(t) = {}
StartIsAlone == \A e \in Epochs :
                    Starting(e) => /\ MarkedOf(wtask[child[e]]) = {}
                                   /\ status[wtask[child[e]]] # "running"
InitWillKill == \A t \in Tasks :
                    server = "init" /\ status[t] = "running" /\ MarkedOf(t) # {}
                    => t \in initTodo
CallsAreServed == \A c \in Clients : server # "up" => call[c].next = "idle"
KillIsSettled  == \A c \in Clients :
                    call[c].next \in {"kill", "cancelKilled"}
                    => status[call[c].task] # "pending" /\ ~InFlight(call[c].task)
CancelIsSettled == \A c \in Clients :
                    call[c].next = "cancelKilled" /\ HasRow(call[c].task)
                    => MarkedOf(call[c].task) = {}
StopIsSettled  == \A t \in stopped :
                    /\ status[t] \notin {"pending", "running", "uncreated"}
                    /\ ~InFlight(t)
                    /\ HasRow(t) => MarkedOf(t) = {}

KillInv ==
    ~ListenerMayOutlive =>
        /\ \A p \in marked : wst[p] # "free"
        /\ PidIsMarked /\ PidIsChild /\ PendingIsUnmarked /\ StartIsAlone
        /\ InitWillKill
        /\ CallsAreServed /\ KillIsSettled /\ CancelIsSettled /\ StopIsSettled

InductiveInv == TypeInv /\ LaunchInv /\ ResultInv /\ OneListener /\ SlotInv /\ KillInv
-----------------------------------------------------------------------------
\* The life of a task as its clients see it: one that a listener has started
\* and is about to mark RUNNING is being worked on, whatever its row says.
LifeOf(t) ==
    IF ~HasRow(t) THEN IF status[t] = "uncreated" THEN "absent" ELSE "deleted"
    ELSE IF status[t] = "running" \/ InFlight(t) THEN "working"
    ELSE IF status[t] = "pending" THEN "waiting" ELSE "ended"
Abstract == INSTANCE TaskLife WITH Limit <- CpuUseLimit, life <- [t \in Tasks |-> LifeOf(t)]

\* With one listener at a time, the server, the listener, the workers and the
\* calls do together what TaskLife allows of the tasks: no more of them are at
\* work than there are slots, a task that has ended is never worked on again
\* (one that a listener has launched is at work until it is marked), a deleted
\* one never comes back, and only a start or an end of the service puts work
\* back into the queue.
ServicePromise == Abstract!Spec
=============================================================================
