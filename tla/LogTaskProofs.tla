--------------------------- MODULE LogTaskProofs ---------------------------
(***************************************************************************)
(* Theorems about LogTaskService, for every value of its constants: types, *)
(* starts, results and deletions in general; with one listener at a time   *)
(* also the limit on RUNNING rows, that the worker of a row can be killed, *)
(* and that the processes implement TaskLife.                              *)
(***************************************************************************)
EXTENDS LogTaskInv, FiniteSetTheorems, TLAPS

-----------------------------------------------------------------------------
(* Types, starts, results, deletions.                                       *)

\* Every step keeps the types, given what the processes hold between two
\* statements (Control).
LEMMA TypeStep == TypeInv /\ [Next]_vars => TypeOK'
<1> SUFFICES ASSUME TypeInv, [Next]_vars PROVE TypeOK'
  OBVIOUS
<1> USE LogTaskAssumption DEF TypeInv, TypeOK, RowStatus, NoRow, Working
<1>1. CASE ServerStart
  BY <1>1 DEF ServerStart, Rows, rowVars, lsnVars, wrkVars, histVars
<1>2. CASE InitRemove
  <2>1. wst' \in [Pids -> Working \cup {"free", "ended"}]
    BY <1>2 DEF InitRemove, RemoveTask
  <2> QED
    BY <1>2, <2>1 DEF InitRemove, rowVars, lsnVars, histVars
<1>3. CASE InitReset
  <2>1. status' \in [Tasks -> RowStatus \cup NoRow]
    BY <1>3 DEF InitReset
  <2>2. at' \in [Epochs -> {"off", "sweep", "sweeping", "polling", "record", "mark"}]
    BY <1>3 DEF InitReset
  <2>3. resets' \in Nat
    BY <1>3 DEF InitReset
  <2> QED
    BY <1>3, <2>1, <2>2, <2>3 DEF InitReset, wrkVars, histVars
<1>4. ASSUME NEW kl \in BOOLEAN, NEW kw \in BOOLEAN, ServerStop(kl, kw)
      PROVE  TypeOK'
  <2>1. at' \in [Epochs -> {"off", "sweep", "sweeping", "polling", "record", "mark"}]
    BY <1>4 DEF ServerStop
  <2>2. snap' \in [Epochs -> SUBSET (Tasks \X RowStatus)]
    BY <1>4 DEF ServerStop
  <2>3. child' \in [Epochs -> Pids \cup {NoPid}]
    BY <1>4 DEF ServerStop
  <2>4. wst' \in [Pids -> Working \cup {"free", "ended"}]
    BY <1>4 DEF ServerStop, Alive
  <2> QED
    BY <1>4, <2>1, <2>2, <2>3, <2>4 DEF ServerStop, rowVars, histVars, Idle
<1>5. ASSUME NEW e \in Epochs, Listen(e)
      PROVE  TypeOK'
  <2>1. CASE SweepRead(e)
    <3>1. Snapshot(PendingRemove) \subseteq Tasks \X RowStatus
      BY DEF Snapshot, Rows, PendingRemove
    <3> QED
      BY <2>1, <3>1 DEF SweepRead, rowVars, srvVars, wrkVars, histVars
  <2>2. CASE SweepTask(e)
    <3>1. status' \in [Tasks -> RowStatus \cup NoRow]
      BY <2>2 DEF SweepTask, SetStatus
    <3>2. wst' \in [Pids -> Working \cup {"free", "ended"}]
      BY <2>2 DEF SweepTask, RemoveTask
    <3>3. snap' \in [Epochs -> SUBSET (Tasks \X RowStatus)]
      BY <2>2 DEF SweepTask
    <3> QED
      BY <2>2, <3>1, <3>2, <3>3 DEF SweepTask, srvVars, histVars
  <2>3. CASE PollRead(e)
    <3>1. Snapshot({"pending"}) \subseteq Tasks \X RowStatus
      BY DEF Snapshot, Rows
    <3> QED
      BY <2>3, <3>1 DEF PollRead, rowVars, srvVars, wrkVars, histVars
  <2>4. CASE Launch(e)
    <3>1. PICK r \in snap[e], p \in Pids :
              /\ wst' = [wst EXCEPT ![p] = "boot"]
              /\ wtask' = [wtask EXCEPT ![p] = r[1]]
              /\ wby' = [wby EXCEPT ![p] = <<e, resets>>]
              /\ child' = [child EXCEPT ![e] = p]
              /\ snap' = [snap EXCEPT ![e] = @ \ {r}]
      BY <2>4 DEF Launch
    <3>2. r \in Tasks \X RowStatus /\ r[1] \in Tasks
      OBVIOUS
    <3>3. <<e, resets>> \in Nat \X Nat
      BY DEF Epochs
    <3>4. wby' \in [Pids -> Nat \X Nat]
      BY <3>1, <3>3
    <3>5. wst' \in [Pids -> Working \cup {"free", "ended"}]
      BY <3>1
    <3>6. /\ wtask' \in [Pids -> Tasks \cup {NoTask}]
          /\ child' \in [Epochs -> Pids \cup {NoPid}]
          /\ snap' \in [Epochs -> SUBSET (Tasks \X RowStatus)]
      BY <3>1, <3>2
    <3>7. at' \in [Epochs -> {"off", "sweep", "sweeping", "polling", "record", "mark"}]
      BY <2>4 DEF Launch
    <3> QED
      BY <2>4, <3>4, <3>5, <3>6, <3>7 DEF Launch, rowVars, srvVars, histVars
  <2>5. CASE Skip(e)
    BY <2>5 DEF Skip, rowVars, srvVars, wrkVars, histVars
  <2>6. CASE RecordPid(e)
    BY <2>6 DEF RecordPid, srvVars, wrkVars, histVars
  <2>7. CASE MarkRunning(e)
    <3>1. child[e] \in Pids
      BY <2>7 DEF MarkRunning, Control, Starting
    <3>2. status' \in [Tasks -> RowStatus \cup NoRow]
      BY <2>7 DEF MarkRunning, SetStatus
    <3> QED
      BY <2>7, <3>1, <3>2 DEF MarkRunning, srvVars, wrkVars
  <2>8. CASE Sleep(e)
    BY <2>8 DEF Sleep, rowVars, srvVars, wrkVars, histVars
  <2> QED
    BY <1>5, <2>1, <2>2, <2>3, <2>4, <2>5, <2>6, <2>7, <2>8 DEF Listen
<1>6. ASSUME NEW p \in Pids, Work(p) \/ WorkerDie(p)
      PROVE  TypeOK'
  <2>1. CASE WorkerBoot(p)
    BY <2>1 DEF WorkerBoot, rowVars, srvVars, lsnVars, histVars
  <2>2. CASE WorkerInsert(p)
    <3>1. stored[p] + 1 \in 1 .. Batches
      BY <2>2 DEF WorkerInsert, Control
    <3>2. stored' \in [Pids -> 0 .. Batches] /\ stored'[p] = stored[p] + 1
      BY <2>2, <3>1 DEF WorkerInsert
    <3>3. wtask[p] \in Tasks
      BY <2>2 DEF WorkerInsert, Control
    <3>4. results' \in [Tasks -> SUBSET (Pids \X (1 .. Batches))]
      BY <2>2, <3>1, <3>2, <3>3 DEF WorkerInsert
    <3>5. wst' \in [Pids -> Working \cup {"free", "ended"}]
      <4>1. \E s \in Working : wst' = [wst EXCEPT ![p] = s]
        BY <2>2 DEF WorkerInsert
      <4> QED
        BY <4>1
    <3> QED
      BY <2>2, <3>2, <3>4, <3>5 DEF WorkerInsert, srvVars, lsnVars, histVars
  <2>3. CASE WorkerReport(p)
    BY <2>3 DEF WorkerReport, SetStatus, srvVars, lsnVars, histVars
  <2>4. CASE WorkerFail(p)
    <3>1. status' \in [Tasks -> RowStatus \cup NoRow]
      BY <2>4 DEF WorkerFail, SetStatus
    <3> QED
      BY <2>4, <3>1 DEF WorkerFail, srvVars, lsnVars, histVars
  <2>5. CASE WorkerDie(p)
    BY <2>5 DEF WorkerDie, rowVars, srvVars, lsnVars, histVars
  <2> QED
    BY <1>6, <2>1, <2>2, <2>3, <2>4, <2>5 DEF Work
<1>7. ASSUME NEW t \in Tasks, CreateTask(t)
      PROVE  TypeOK'
  BY <1>7 DEF CreateTask, srvVars, lsnVars, wrkVars, histVars
<1>8. ASSUME NEW c \in Clients, NEW op \in {"stop", "delete"}, NEW t \in Tasks,
             StopRead(c, op, t)
      PROVE  TypeOK'
  BY <1>8 DEF StopRead, AfterStop, Idle, rowVars, srvVars, lsnVars, wrkVars, histVars
<1>9. ASSUME NEW c \in Clients, Serve(c)
      PROVE  TypeOK'
  <2>1. CASE StopKill(c)
    <3>1. wst' \in [Pids -> Working \cup {"free", "ended"}]
      BY <2>1 DEF StopKill, RemoveTask
    <3> QED
      BY <2>1, <3>1, SMTT(30) DEF StopKill, rowVars, srvVars, lsnVars, histVars
  <2>2. CASE StopCancel(c)
    <3>1. call[c].task \in Tasks
      BY <2>2 DEF StopCancel, Control
    <3>2. status' \in [Tasks -> RowStatus \cup NoRow]
      BY <2>2 DEF StopCancel, SetStatus
    <3> QED
      BY <2>2, <3>1, <3>2 DEF StopCancel, AfterStop, Idle, srvVars, lsnVars, wrkVars
  <2>3. CASE Purge(c)
    <3>1. call[c].task \in Tasks
      BY <2>3 DEF Purge, Control
    <3> QED
      BY <2>3, <3>1, SMTT(30) DEF Purge, srvVars, lsnVars, wrkVars
  <2>4. CASE Drop(c)
    BY <2>4 DEF Drop, SetStatus, Idle, srvVars, lsnVars, wrkVars
  <2> QED
    BY <1>9, <2>1, <2>2, <2>3, <2>4 DEF Serve
<1>10. CASE UNCHANGED vars
  BY <1>10 DEF vars, rowVars, srvVars, lsnVars, wrkVars, histVars
<1> QED
  BY <1>1, <1>2, <1>3, <1>4, <1>5, <1>6, <1>7, <1>8, <1>9, <1>10 DEF Next

\* Every step keeps what the processes hold between two statements.
LEMMA ControlStep == TypeInv /\ [Next]_vars => Control'
<1> SUFFICES ASSUME TypeInv, [Next]_vars PROVE Control'
  OBVIOUS
<1> USE LogTaskAssumption DEF TypeInv, TypeOK, RowStatus, NoRow, Working, Control,
                              Starting
<1>1. CASE ServerStart
  BY <1>1 DEF ServerStart, rowVars, lsnVars, wrkVars, histVars
<1>2. CASE InitRemove
  BY <1>2 DEF InitRemove, RemoveTask, Alive, rowVars, lsnVars, histVars
<1>3. CASE InitReset
  BY <1>3 DEF InitReset, wrkVars, histVars
<1>4. ASSUME NEW kl \in BOOLEAN, NEW kw \in BOOLEAN, ServerStop(kl, kw)
      PROVE  Control'
  BY <1>4 DEF ServerStop, Alive, rowVars, histVars, Idle
<1>5. ASSUME NEW e \in Epochs, Listen(e)
      PROVE  Control'
  <2>1. CASE SweepRead(e)
    <3>1. \A r \in Snapshot(PendingRemove) : status[r[1]] # "uncreated"
      BY DEF Snapshot, Rows, PendingRemove
    <3> QED
      BY <2>1, <3>1 DEF SweepRead, rowVars, srvVars, wrkVars, histVars
  <2>2. CASE SweepTask(e)
    BY <2>2 DEF SweepTask, RemoveTask, SetStatus, HasRow, Alive, srvVars, histVars
  <2>3. CASE PollRead(e)
    <3>1. \A r \in Snapshot({"pending"}) : status[r[1]] # "uncreated"
      BY DEF Snapshot, Rows
    <3> QED
      BY <2>3, <3>1 DEF PollRead, rowVars, srvVars, wrkVars, histVars
  <2>4. CASE Launch(e)
    <3>1. PICK r \in snap[e], p \in Pids :
              /\ status[r[1]] = "pending"
              /\ wst[p] = "free"
              /\ wst' = [wst EXCEPT ![p] = "boot"]
              /\ wtask' = [wtask EXCEPT ![p] = r[1]]
              /\ child' = [child EXCEPT ![e] = p]
      BY <2>4, ZenonT(60) DEF Launch, CanAdd
    <3>2. r[1] \in Tasks
      OBVIOUS
    <3>3. \A p1 \in Pids : wst'[p1] = "boot" => stored'[p1] = 0
      BY <2>4, <3>1 DEF Launch
    <3> QED
      BY <2>4, <3>1, <3>2, <3>3 DEF Launch, rowVars, srvVars, histVars
  <2>5. CASE Skip(e)
    BY <2>5 DEF Skip, rowVars, srvVars, wrkVars, histVars
  <2>6. CASE RecordPid(e)
    BY <2>6 DEF RecordPid, srvVars, wrkVars, histVars
  <2>7. CASE MarkRunning(e)
    BY <2>7 DEF MarkRunning, SetStatus, HasRow, srvVars, wrkVars
  <2>8. CASE Sleep(e)
    BY <2>8 DEF Sleep, rowVars, srvVars, wrkVars, histVars
  <2> QED
    BY <1>5, <2>1, <2>2, <2>3, <2>4, <2>5, <2>6, <2>7, <2>8 DEF Listen
<1>6. ASSUME NEW p \in Pids, Work(p) \/ WorkerDie(p)
      PROVE  Control'
  <2>1. CASE WorkerBoot(p)
    BY <2>1 DEF WorkerBoot, rowVars, srvVars, lsnVars, histVars
  <2>2. CASE WorkerInsert(p)
    <3>1. wst' = [wst EXCEPT ![p] = IF HasRow(wtask[p]) /\ stored'[p] # Batches
                                    THEN "insert" ELSE "report"]
      BY <2>2 DEF WorkerInsert
    <3>2. stored' = [stored EXCEPT ![p] = stored[p] + 1] /\ stored'[p] \in 1 .. Batches
      BY <2>2 DEF WorkerInsert
    <3>3. \A q \in Pids : q # p => wst'[q] = wst[q] /\ stored'[q] = stored[q]
      BY <3>1, <3>2
    <3>4. wst'[p] \in {"insert", "report"}
      BY <3>1
    <3>5. wst'[p] = "insert" => stored'[p] # Batches
      BY <3>1
    <3>6. wst'[p] = "insert" => stored'[p] < Batches
      BY <3>2, <3>5
    <3> QED
      BY <2>2, <3>3, <3>4, <3>6 DEF WorkerInsert, srvVars, lsnVars, histVars
  <2>3. CASE WorkerReport(p)
    BY <2>3 DEF WorkerReport, SetStatus, HasRow, srvVars, lsnVars, histVars
  <2>4. CASE WorkerFail(p)
    BY <2>4 DEF WorkerFail, SetStatus, HasRow, srvVars, lsnVars, histVars
  <2>5. CASE WorkerDie(p)
    BY <2>5 DEF WorkerDie, Alive, rowVars, srvVars, lsnVars, histVars
  <2> QED
    BY <1>6, <2>1, <2>2, <2>3, <2>4, <2>5 DEF Work
<1>7. ASSUME NEW t \in Tasks, CreateTask(t)
      PROVE  Control'
  BY <1>7 DEF CreateTask, srvVars, lsnVars, wrkVars, histVars
<1>8. ASSUME NEW c \in Clients, NEW op \in {"stop", "delete"}, NEW t \in Tasks,
             StopRead(c, op, t)
      PROVE  Control'
  BY <1>8 DEF StopRead, AfterStop, HasRow, Idle, rowVars, srvVars, lsnVars, wrkVars,
              histVars
<1>9. ASSUME NEW c \in Clients, Serve(c)
      PROVE  Control'
  <2>1. CASE StopKill(c)
    BY <2>1 DEF StopKill, RemoveTask, Alive, rowVars, srvVars, lsnVars, histVars
  <2>2. CASE StopCancel(c)
    BY <2>2 DEF StopCancel, SetStatus, HasRow, AfterStop, Idle, srvVars, lsnVars, wrkVars
  <2>3. CASE Purge(c)
    BY <2>3 DEF Purge, srvVars, lsnVars, wrkVars
  <2>4. CASE Drop(c)
    BY <2>4 DEF Drop, SetStatus, HasRow, Idle, srvVars, lsnVars, wrkVars
  <2> QED
    BY <1>9, <2>1, <2>2, <2>3, <2>4 DEF Serve
<1>10. CASE UNCHANGED vars
  BY <1>10 DEF vars, rowVars, srvVars, lsnVars, wrkVars, histVars
<1> QED
  BY <1>1, <1>2, <1>3, <1>4, <1>5, <1>6, <1>7, <1>8, <1>9, <1>10 DEF Next

\* The types and what the processes hold are an inductive invariant ...
LEMMA TypeInvariant == Spec => []TypeInv
<1>1. Init => TypeInv
  BY LogTaskAssumption DEF Init, TypeInv, TypeOK, Control, Starting, Idle, NoRow, Epochs
<1>2. TypeInv /\ [Next]_vars => TypeInv'
  BY TypeStep, ControlStep DEF TypeInv
<1> QED
  BY <1>1, <1>2, PTL DEF Spec

\* ... and so the variables always have their types: a worker stores at most
\* Batches batches, a process id is never used twice, and no step touches a
\* row, a process or a call that does not exist.
THEOREM TypeCorrect == Spec => []TypeOK
<1>1. TypeInv => TypeOK
  BY DEF TypeInv
<1> QED
  BY <1>1, TypeInvariant, PTL

-----------------------------------------------------------------------------
\* LaunchInv is kept by a step that starts nothing, puts no row to PENDING
\* and, if it moves a listener, turns it off or leaves its start alone.
LEMMA LaunchQuiet ==
    ASSUME LaunchInv,
           UNCHANGED <<wtask, wby, resets>>,
           \A t \in Tasks : status'[t] = "pending" => status[t] = "pending",
           \A e \in Epochs : at'[e] = "off" \/ UNCHANGED <<at[e], child[e]>>
    PROVE  LaunchInv'
BY DEF LaunchInv, LaunchOnce, Starting

LEMMA LaunchStep == TypeInv /\ LaunchInv /\ [Next]_vars => LaunchInv'
<1> SUFFICES ASSUME TypeInv, LaunchInv, [Next]_vars PROVE LaunchInv'
  OBVIOUS
<1> USE LogTaskAssumption DEF TypeInv, TypeOK
<1>1. CASE ServerStart
  BY <1>1, LaunchQuiet DEF ServerStart, rowVars, lsnVars, wrkVars
<1>2. CASE InitRemove
  BY <1>2, LaunchQuiet DEF InitRemove, rowVars, lsnVars
<1>3. CASE InitReset
  BY <1>3 DEF InitReset, wrkVars, LaunchInv, LaunchOnce, Starting
<1>4. ASSUME NEW kl \in BOOLEAN, NEW kw \in BOOLEAN, ServerStop(kl, kw)
      PROVE  LaunchInv'
  BY <1>4, LaunchQuiet DEF ServerStop, rowVars
<1>5. ASSUME NEW e \in Epochs, Listen(e)
      PROVE  LaunchInv'
  <2>1. CASE SweepRead(e)
    BY <2>1 DEF SweepRead, rowVars, srvVars, wrkVars, LaunchInv, LaunchOnce, Starting
  <2>2. CASE SweepTask(e)
    BY <2>2, LaunchQuiet DEF SweepTask, SetStatus, srvVars
  <2>3. CASE PollRead(e)
    BY <2>3 DEF PollRead, rowVars, srvVars, wrkVars, LaunchInv, LaunchOnce, Starting
  <2>4. CASE Launch(e)
    <3>1. PICK r \in snap[e], p \in Pids :
              /\ status[r[1]] = "pending"
              /\ wst[p] = "free"
              /\ wtask' = [wtask EXCEPT ![p] = r[1]]
              /\ wby' = [wby EXCEPT ![p] = <<e, resets>>]
              /\ child' = [child EXCEPT ![e] = p]
      BY <2>4 DEF Launch, CanAdd
    <3>2. r[1] \in Tasks /\ wtask[p] \notin Tasks
      BY <3>1 DEF Control
    <3>3. /\ at' = [at EXCEPT ![e] = "record"] /\ at[e] = "polling"
          /\ UNCHANGED <<status, resets>>
      BY <2>4 DEF Launch, rowVars, srvVars
    <3>4. \A q \in Pids : q # p => wtask'[q] = wtask[q] /\ wby'[q] = wby[q]
      BY <3>1
    <3>5. wtask'[p] = r[1] /\ wby'[p] = <<e, resets>>
      BY <3>1
    \* Nothing else that e has started since the last init() is PENDING.
    <3>6. \A q \in Pids : wtask[q] \in Tasks /\ wby[q] = <<e, resets>>
                           => status[wtask[q]] # "pending"
      BY <3>3 DEF LaunchInv, Starting
    <3>7. LaunchOnce'
      BY <3>1, <3>2, <3>4, <3>5, <3>6 DEF LaunchInv, LaunchOnce
    <3>8. \A q \in Pids : wtask'[q] \in Tasks => wby'[q][2] <= resets'
      BY <3>2, <3>3, <3>4, <3>5 DEF LaunchInv
    <3>9. \A d \in Epochs : Starting(d)' => wby'[child'[d]][1] = d
      BY <3>1, <3>2, <3>3, <3>4, <3>5 DEF LaunchInv, Starting, Control
    <3>10. ASSUME NEW q \in Pids, NEW d \in Epochs,
                  wtask'[q] \in Tasks, wby'[q] = <<d, resets'>>,
                  at'[d] # "off", status'[wtask'[q]] = "pending"
           PROVE  Starting(d)' /\ child'[d] = q
      <4>1. CASE q = p
        BY <3>1, <3>3, <3>5, <3>10, <4>1 DEF Starting
      <4>2. CASE q # p
        BY <3>1, <3>3, <3>4, <3>6, <3>10, <4>2 DEF Starting, LaunchInv
      <4> QED
        BY <4>1, <4>2
    <3> QED
      BY <3>7, <3>8, <3>9, <3>10 DEF LaunchInv
  <2>5. CASE Skip(e)
    BY <2>5, LaunchQuiet DEF Skip, rowVars, srvVars, wrkVars
  <2>6. CASE RecordPid(e)
    BY <2>6 DEF RecordPid, srvVars, wrkVars, LaunchInv, LaunchOnce, Starting
  <2>7. CASE MarkRunning(e)
    BY <2>7 DEF MarkRunning, SetStatus, HasRow, NoRow, srvVars, wrkVars, Control,
                LaunchInv, LaunchOnce, Starting
  <2>8. CASE Sleep(e)
    BY <2>8 DEF Sleep, rowVars, srvVars, wrkVars, LaunchInv, LaunchOnce, Starting
  <2> QED
    BY <1>5, <2>1, <2>2, <2>3, <2>4, <2>5, <2>6, <2>7, <2>8 DEF Listen
<1>6. ASSUME NEW p \in Pids, Work(p) \/ WorkerDie(p)
      PROVE  LaunchInv'
  BY <1>6, LaunchQuiet DEF Work, WorkerBoot, WorkerInsert, WorkerReport, WorkerFail,
       WorkerDie, SetStatus, rowVars, srvVars, lsnVars
<1>7. ASSUME NEW t \in Tasks, CreateTask(t)
      PROVE  LaunchInv'
  BY <1>7 DEF CreateTask, srvVars, lsnVars, wrkVars, Control, LaunchInv, LaunchOnce,
              Starting
<1>8. ASSUME NEW c \in Clients, NEW op \in {"stop", "delete"}, NEW t \in Tasks,
             StopRead(c, op, t)
      PROVE  LaunchInv'
  BY <1>8, LaunchQuiet DEF StopRead, rowVars, srvVars, lsnVars, wrkVars
<1>9. ASSUME NEW c \in Clients, Serve(c)
      PROVE  LaunchInv'
  <2>1. CASE StopKill(c)
    BY <2>1, LaunchQuiet DEF StopKill, rowVars, srvVars, lsnVars
  <2>2. CASE StopCancel(c)
    BY <2>2, LaunchQuiet DEF StopCancel, SetStatus, srvVars, lsnVars, wrkVars
  <2>3. CASE Purge(c)
    BY <2>3, LaunchQuiet DEF Purge, srvVars, lsnVars, wrkVars
  <2>4. CASE Drop(c)
    BY <2>4, LaunchQuiet DEF Drop, SetStatus, srvVars, lsnVars, wrkVars
  <2> QED
    BY <1>9, <2>1, <2>2, <2>3, <2>4 DEF Serve
<1>10. CASE UNCHANGED vars
  BY <1>10, LaunchQuiet DEF vars, rowVars, srvVars, lsnVars, wrkVars
<1> QED
  BY <1>1, <1>2, <1>3, <1>4, <1>5, <1>6, <1>7, <1>8, <1>9, <1>10 DEF Next

LEMMA LaunchInvariant == Spec => []LaunchInv
<1>1. Init => LaunchInv
  BY LogTaskAssumption DEF Init, LaunchInv, LaunchOnce, Starting
<1> QED
  BY <1>1, LaunchStep, TypeInvariant, PTL DEF Spec

\* Between two runs of init() one listener starts a task at most once, however
\* many listeners there are: what it has started and not yet marked RUNNING is
\* its child, and only init() puts a row back to PENDING.
THEOREM StartedOnce == Spec => []LaunchOnce
<1>1. LaunchInv => LaunchOnce
  BY DEF LaunchInv
<1> QED
  BY <1>1, LaunchInvariant, PTL

-----------------------------------------------------------------------------
\* A step that leaves the result table alone, starts no worker, lets none get
\* further, reads no new success and writes none unearned keeps ResultInv.
LEMMA ResultQuiet ==
    ASSUME TypeInv, ResultInv,
           UNCHANGED <<results, wtask, stored, purged>>,
           \A t \in Tasks : HasRow(t)' = HasRow(t),
           \A p \in Pids : wst'[p] \in {wst[p], "ended"},
           \A e \in Epochs, t \in Tasks :
               <<t, "successful_pending_remove">> \in snap'[e]
               => <<t, "successful_pending_remove">> \in snap[e],
           \A t \in Tasks \ purged :
               status'[t] \in {"successful_pending_remove", "successful"}
               => Complete(t) \/ status[t] \in {"successful_pending_remove", "successful"}
    PROVE  ResultInv'
<1>1. \A t \in Tasks : Kept(t)' = Kept(t) /\ Complete(t)' = Complete(t)
  BY DEF Kept, Complete
<1>2. NoOrphanResults'
  BY DEF ResultInv, NoOrphanResults
<1>3. \A p \in Pids : Alive(p)' => Alive(p) /\ wtask[p] \in Tasks /\ wst'[p] = wst[p]
  BY DEF Alive, Working, TypeInv, Control
<1>4. \A p \in Pids :
          (Alive(p) /\ Kept(wtask[p]))'
          => /\ ({p} \X (1 .. stored[p]) \subseteq results[wtask[p]])'
             /\ wst'[p] = "report" => stored'[p] = Batches
  BY <1>1, <1>3 DEF ResultInv
<1>5. \A e \in Epochs, t \in Tasks :
          <<t, "successful_pending_remove">> \in snap'[e] /\ Kept(t)' => Complete(t)'
  BY <1>1 DEF ResultInv
<1>6. SuccessIsComplete'
  BY <1>1 DEF ResultInv, SuccessIsComplete
<1> QED
  BY <1>2, <1>4, <1>5, <1>6 DEF ResultInv

LEMMA ResultStep == TypeInv /\ ResultInv /\ [Next]_vars => ResultInv'
<1> SUFFICES ASSUME TypeInv, ResultInv, [Next]_vars PROVE ResultInv'
  OBVIOUS
<1> USE LogTaskAssumption
<1>1. CASE ServerStart
  BY <1>1, ResultQuiet DEF ServerStart, HasRow, rowVars, lsnVars, wrkVars, histVars
<1>2. CASE InitRemove
  BY <1>2, ResultQuiet DEF InitRemove, RemoveTask, HasRow, TypeInv, TypeOK,
                           rowVars, lsnVars, histVars
<1>3. CASE InitReset
  <2>1. \A t \in Tasks : HasRow(t)' = HasRow(t)
    BY <1>3 DEF InitReset, HasRow, NoRow
  <2> QED
    BY <1>3, <2>1, ResultQuiet DEF InitReset, wrkVars, histVars
<1>4. ASSUME NEW kl \in BOOLEAN, NEW kw \in BOOLEAN, ServerStop(kl, kw)
      PROVE  ResultInv'
  <2>1. \A e \in Epochs : snap'[e] \subseteq snap[e]
    BY <1>4 DEF ServerStop
  <2>2. \A p \in Pids : wst'[p] \in {wst[p], "ended"}
    BY <1>4 DEF ServerStop
  <2> QED
    BY <1>4, <2>1, <2>2, ResultQuiet DEF ServerStop, HasRow, rowVars, histVars
<1>5. ASSUME NEW e \in Epochs, Listen(e)
      PROVE  ResultInv'
  <2>1. CASE SweepRead(e)
    <3>1. UNCHANGED <<status, results, wtask, wst, stored, purged>>
      BY <2>1 DEF SweepRead, rowVars, wrkVars, histVars
    <3>2. \A d \in Epochs, t \in Tasks :
             <<t, "successful_pending_remove">> \in snap'[d] =>
                \/ <<t, "successful_pending_remove">> \in snap[d]
                \/ status[t] = "successful_pending_remove"
      BY <2>1 DEF SweepRead, Snapshot, Rows, TypeInv, TypeOK
    <3>3. \A t \in Tasks : Kept(t)' = Kept(t) /\ Complete(t)' = Complete(t)
      BY <3>1 DEF Kept, HasRow, Complete
    <3>4. NoOrphanResults' /\ SuccessIsComplete'
      BY <3>1, <3>3 DEF ResultInv, NoOrphanResults, SuccessIsComplete, HasRow
    <3>5. \A d \in Epochs, t \in Tasks :
             <<t, "successful_pending_remove">> \in snap'[d] /\ Kept(t)' => Complete(t)'
      BY <3>2, <3>3 DEF ResultInv, SuccessIsComplete, Kept
    <3>6. \A p \in Pids : Alive(p)' => Alive(p) /\ wtask[p] \in Tasks
      BY <3>1 DEF Alive, Working, TypeInv, Control
    <3> QED
      BY <3>1, <3>3, <3>4, <3>5, <3>6 DEF ResultInv
  <2>2. CASE SweepTask(e)
    <3>1. PICK r \in snap[e] :
              /\ SetStatus(r[1], IF r[2] = "successful_pending_remove"
                                THEN "successful" ELSE "failed")
              /\ RemoveTask(r[1])
              /\ snap' = [snap EXCEPT ![e] = @ \ {r}]
      BY <2>2 DEF SweepTask
    <3>2. r \in Tasks \X RowStatus /\ r = <<r[1], r[2]>>
      BY DEF TypeInv, TypeOK
    <3>3. \A t \in Tasks : HasRow(t)' = HasRow(t)
      BY <3>1, <3>2 DEF SetStatus, HasRow, NoRow, TypeInv, TypeOK
    <3>4. \A t \in Tasks \ purged :
             status'[t] \in {"successful_pending_remove", "successful"}
             => Complete(t) \/ status[t] \in {"successful_pending_remove", "successful"}
      BY <3>1, <3>2 DEF SetStatus, TypeInv, TypeOK, ResultInv, Kept
    <3>5. \A p \in Pids : wst'[p] \in {wst[p], "ended"}
      BY <3>1 DEF RemoveTask
    <3>6. \A d \in Epochs : snap'[d] \subseteq snap[d]
      BY <3>1 DEF TypeInv, TypeOK
    <3> QED
      BY <2>2, <3>3, <3>4, <3>5, <3>6, ResultQuiet DEF SweepTask, histVars
  <2>3. CASE PollRead(e)
    <3>1. \A t \in Tasks : <<t, "successful_pending_remove">> \notin Snapshot({"pending"})
      BY DEF Snapshot, Rows
    <3>2. \A d \in Epochs : d # e => snap'[d] = snap[d]
      BY <2>3 DEF PollRead, TypeInv, TypeOK
    <3>3. snap'[e] = Snapshot({"pending"})
      BY <2>3 DEF PollRead, TypeInv, TypeOK
    <3> QED
      BY <2>3, <3>1, <3>2, <3>3, ResultQuiet
         DEF PollRead, HasRow, rowVars, wrkVars, histVars
  <2>4. CASE Launch(e)
    <3>1. PICK r \in snap[e], p \in Pids :
              /\ wst[p] = "free"
              /\ wst' = [wst EXCEPT ![p] = "boot"]
              /\ wtask' = [wtask EXCEPT ![p] = r[1]]
              /\ snap' = [snap EXCEPT ![e] = @ \ {r}]
      BY <2>4 DEF Launch
    <3>2. UNCHANGED <<status, results, stored, purged>>
      BY <2>4 DEF Launch, rowVars, histVars
    <3>3. \A t \in Tasks : Kept(t)' = Kept(t) /\ Complete(t)' = Complete(t)
      BY <3>2 DEF Kept, HasRow, Complete
    <3>4. NoOrphanResults' /\ SuccessIsComplete'
      BY <3>2, <3>3 DEF ResultInv, NoOrphanResults, SuccessIsComplete, HasRow
    <3>5. \A d \in Epochs : snap'[d] \subseteq snap[d]
      BY <3>1 DEF TypeInv, TypeOK
    <3>6. \A d \in Epochs, t \in Tasks :
             <<t, "successful_pending_remove">> \in snap'[d] /\ Kept(t)' => Complete(t)'
      BY <3>3, <3>5 DEF ResultInv
    <3>7. stored'[p] = 0 /\ wst'[p] = "boot"
      BY <3>1, <3>2 DEF TypeInv, TypeOK, Control
    <3>8. {p} \X (1 .. stored'[p]) = {}
      BY <3>7
    <3>9. \A q \in Pids : q # p => wst'[q] = wst[q] /\ wtask'[q] = wtask[q]
      BY <3>1 DEF TypeInv, TypeOK
    <3>10. \A q \in Pids : q # p /\ Alive(q)' => Alive(q) /\ wtask[q] \in Tasks
      BY <3>9 DEF Alive, Working, TypeInv, Control
    <3>11. \A q \in Pids :
              (Alive(q) /\ Kept(wtask[q]))'
              => /\ ({q} \X (1 .. stored[q]) \subseteq results[wtask[q]])'
                 /\ wst'[q] = "report" => stored'[q] = Batches
      BY <3>2, <3>3, <3>7, <3>8, <3>9, <3>10 DEF ResultInv
    <3> QED
      BY <3>4, <3>6, <3>11 DEF ResultInv
  <2>5. CASE Skip(e)
    <3>1. \A d \in Epochs : snap'[d] \subseteq snap[d]
      BY <2>5 DEF Skip, TypeInv, TypeOK
    <3> QED
      BY <2>5, <3>1, ResultQuiet DEF Skip, HasRow, rowVars, wrkVars, histVars
  <2>6. CASE RecordPid(e)
    BY <2>6, ResultQuiet DEF RecordPid, HasRow, wrkVars, histVars
  <2>7. CASE MarkRunning(e)
    <3>1. /\ \A t \in Tasks : HasRow(t)' = HasRow(t)
          /\ \A t \in Tasks : status'[t] \in {status[t], "running"}
      BY <2>7 DEF MarkRunning, SetStatus, HasRow, NoRow, TypeInv, TypeOK
    <3> QED
      BY <2>7, <3>1, ResultQuiet DEF MarkRunning, wrkVars
  <2>8. CASE Sleep(e)
    BY <2>8, ResultQuiet DEF Sleep, HasRow, rowVars, wrkVars, histVars
  <2> QED
    BY <1>5, <2>1, <2>2, <2>3, <2>4, <2>5, <2>6, <2>7, <2>8 DEF Listen
<1>6. ASSUME NEW p \in Pids, Work(p) \/ WorkerDie(p)
      PROVE  ResultInv'
  <2>1. CASE WorkerBoot(p)
    <3>1. UNCHANGED <<status, results, wtask, stored, purged, snap>>
      BY <2>1 DEF WorkerBoot, rowVars, lsnVars, histVars
    <3>2. \A t \in Tasks : Kept(t)' = Kept(t) /\ Complete(t)' = Complete(t)
      BY <3>1 DEF Kept, HasRow, Complete
    <3>3. /\ wst[p] = "boot" /\ wst'[p] \in {"insert", "ended"}
          /\ \A q \in Pids : q # p => wst'[q] = wst[q]
      BY <2>1 DEF WorkerBoot, TypeInv, TypeOK
    <3>4. \A q \in Pids : Alive(q)' => Alive(q) /\ wtask[q] \in Tasks
      BY <3>1, <3>3 DEF Alive, Working, TypeInv, Control
    <3> QED
      BY <3>1, <3>2, <3>3, <3>4 DEF ResultInv, NoOrphanResults, SuccessIsComplete, HasRow
  <2>2. CASE WorkerInsert(p)
    <3>1. UNCHANGED <<status, wtask, purged, snap>>
      BY <2>2 DEF WorkerInsert, lsnVars, histVars
    <3>2. wtask[p] \in Tasks
      BY <2>2 DEF WorkerInsert, TypeInv, TypeOK, Control
    <3>3. /\ \A q \in Pids : q # p => stored'[q] = stored[q] /\ wst'[q] = wst[q]
          /\ stored[p] \in Nat /\ stored'[p] = stored[p] + 1 /\ Alive(p)
      BY <2>2 DEF WorkerInsert, TypeInv, TypeOK, Alive, Working
    <3>4. \A t \in Tasks : results[t] \subseteq results'[t]
      BY <2>2 DEF WorkerInsert, TypeInv, TypeOK
    <3>5. \A t \in Tasks : Kept(t)' = Kept(t) /\ (Complete(t) => Complete(t)')
      BY <3>1, <3>4 DEF Kept, HasRow, Complete
    <3>6. NoOrphanResults'
      BY <2>2, <3>1, <3>2 DEF WorkerInsert, ResultInv, NoOrphanResults, HasRow, TypeInv, TypeOK
    <3>7. SuccessIsComplete'
      BY <3>1, <3>5 DEF ResultInv, SuccessIsComplete
    <3>8. \A d \in Epochs, t \in Tasks :
             <<t, "successful_pending_remove">> \in snap'[d] /\ Kept(t)' => Complete(t)'
      BY <3>1, <3>5 DEF ResultInv
    <3>9. ASSUME NEW q \in Pids, Alive(q)', Kept(wtask[q])'
          PROVE  /\ ({q} \X (1 .. stored[q]) \subseteq results[wtask[q]])'
                 /\ wst'[q] = "report" => stored'[q] = Batches
      <4>1. CASE q # p
        <5>1. Alive(q) /\ wtask[q] \in Tasks
          BY <3>3, <3>9, <4>1 DEF Alive, Working, TypeInv, Control
        <5> QED
          BY <3>1, <3>3, <3>4, <3>5, <3>9, <4>1, <5>1 DEF ResultInv
      <4>2. CASE q = p
        <5>1. Kept(wtask[p]) /\ HasRow(wtask[p])
          BY <3>1, <3>2, <3>5, <3>9, <4>2 DEF Kept
        <5>2. results'[wtask[p]] = results[wtask[p]] \cup {<<p, stored'[p]>>}
          BY <2>2, <3>2, <5>1 DEF WorkerInsert, TypeInv, TypeOK
        <5>3. {p} \X (1 .. stored[p]) \subseteq results[wtask[p]]
          BY <3>3, <5>1 DEF ResultInv
        <5>4. 1 .. stored'[p] = (1 .. stored[p]) \cup {stored'[p]}
          BY <3>3
        <5>5. {p} \X (1 .. stored'[p]) \subseteq results'[wtask[p]]
          BY <5>2, <5>3, <5>4
        <5>6. wst'[p] = "report" => stored'[p] = Batches
          BY <2>2, <5>1 DEF WorkerInsert, TypeInv, TypeOK
        <5> QED
          BY <3>1, <4>2, <5>5, <5>6
      <4> QED
        BY <4>1, <4>2
    <3> QED
      BY <3>6, <3>7, <3>8, <3>9 DEF ResultInv
  <2>3. CASE WorkerReport(p)
    <3>1. /\ wtask[p] \in Tasks /\ Alive(p) /\ wst[p] = "report"
          /\ SetStatus(wtask[p], "successful_pending_remove")
      BY <2>3 DEF WorkerReport, TypeInv, TypeOK, Control, Alive, Working
    <3>2. \A t \in Tasks : HasRow(t)' = HasRow(t)
      BY <3>1 DEF SetStatus, HasRow, NoRow, TypeInv, TypeOK
    \* It reports for a task whose results are whole.
    <3>3. Kept(wtask[p]) => Complete(wtask[p])
      BY <3>1 DEF ResultInv, Complete
    <3>4. \A t \in Tasks \ purged :
             status'[t] \in {"successful_pending_remove", "successful"}
             => Complete(t) \/ status[t] \in {"successful_pending_remove", "successful"}
      BY <3>1, <3>3 DEF SetStatus, Kept, TypeInv, TypeOK
    <3> QED
      BY <2>3, <3>2, <3>4, ResultQuiet
         DEF WorkerReport, lsnVars, histVars, TypeInv, TypeOK
  <2>4. CASE WorkerFail(p)
    <3>1. /\ \A t \in Tasks : HasRow(t)' = HasRow(t)
          /\ \A t \in Tasks : status'[t] \in {status[t], "failed", "failed_pending_remove"}
      BY <2>4 DEF WorkerFail, SetStatus, HasRow, NoRow, TypeInv, TypeOK
    <3> QED
      BY <2>4, <3>1, ResultQuiet DEF WorkerFail, lsnVars, histVars, TypeInv, TypeOK
  <2>5. CASE WorkerDie(p)
    BY <2>5, ResultQuiet DEF WorkerDie, HasRow, rowVars, lsnVars, histVars, TypeInv, TypeOK
  <2> QED
    BY <1>6, <2>1, <2>2, <2>3, <2>4, <2>5 DEF Work
<1>7. ASSUME NEW t \in Tasks, CreateTask(t)
      PROVE  ResultInv'
  <2>1. UNCHANGED <<results, wtask, wst, stored, purged, snap>>
    BY <1>7 DEF CreateTask, lsnVars, wrkVars, histVars
  <2>2. /\ status[t] = "uncreated" /\ status'[t] = "pending"
        /\ \A u \in Tasks : u # t => status'[u] = status[u]
    BY <1>7 DEF CreateTask, TypeInv, TypeOK
  <2>3. \A u \in Tasks : Complete(u)' = Complete(u) /\ (u # t => Kept(u)' = Kept(u))
    BY <2>1, <2>2 DEF Kept, HasRow, Complete
  <2>4. NoOrphanResults' /\ SuccessIsComplete'
    BY <2>1, <2>2, <2>3 DEF ResultInv, NoOrphanResults, SuccessIsComplete, HasRow, NoRow
  \* Nobody works for a task that is only now created, or has read its row.
  <2>5. \A p \in Pids : Alive(p)' => Alive(p) /\ wtask[p] \in Tasks /\ wtask[p] # t
    BY <2>1, <2>2 DEF Alive, Working, TypeInv, Control
  <2>6. \A e \in Epochs : <<t, "successful_pending_remove">> \notin snap[e]
    BY <2>2 DEF TypeInv, Control
  <2> QED
    BY <2>1, <2>3, <2>4, <2>5, <2>6 DEF ResultInv
<1>8. ASSUME NEW c \in Clients, NEW op \in {"stop", "delete"}, NEW t \in Tasks,
             StopRead(c, op, t)
      PROVE  ResultInv'
  BY <1>8, ResultQuiet DEF StopRead, HasRow, rowVars, lsnVars, wrkVars, histVars
<1>9. ASSUME NEW c \in Clients, Serve(c)
      PROVE  ResultInv'
  <2>1. CASE StopKill(c)
    BY <2>1, ResultQuiet DEF StopKill, RemoveTask, HasRow, rowVars, lsnVars, histVars
  <2>2. CASE StopCancel(c)
    <3>1. call[c].task \in Tasks
      BY <2>2 DEF StopCancel, TypeInv, Control
    <3>2. /\ \A t \in Tasks : HasRow(t)' = HasRow(t)
          /\ \A t \in Tasks : status'[t] \in {status[t], "cancled"}
      BY <2>2, <3>1 DEF StopCancel, SetStatus, HasRow, NoRow, TypeInv, TypeOK
    <3> QED
      BY <2>2, <3>2, ResultQuiet DEF StopCancel, lsnVars, wrkVars
  \* The deletion of the results, and of the row, take a task out of Kept.
  <2>3. CASE Purge(c) \/ Drop(c)
    <3>1. PICK t \in Tasks :
             /\ results' = [results EXCEPT ![t] = {}]
             /\ ~Kept(t)'
             /\ \A u \in Tasks : u # t => Kept(u)' = Kept(u) /\ status'[u] = status[u]
             /\ \A u \in Tasks : u # t => (u \in purged' <=> u \in purged)
             /\ t \in purged' \/ status'[t] = "deleted"
      <4>1. call[c].task \in Tasks /\ status[call[c].task] # "uncreated"
        BY <2>3 DEF Purge, Drop, TypeInv, Control
      <4>2. CASE Purge(c)
        BY <4>1, <4>2 DEF Purge, Kept, HasRow
      <4>3. CASE Drop(c)
        BY <4>1, <4>3 DEF Drop, SetStatus, Kept, HasRow, NoRow, TypeInv, TypeOK, RowStatus
      <4> QED
        BY <2>3, <4>2, <4>3
    <3>2. UNCHANGED <<wtask, wst, stored, snap>>
      BY <2>3 DEF Purge, Drop, lsnVars, wrkVars
    <3>3. results'[t] = {} /\ \A u \in Tasks : u # t => results'[u] = results[u]
      BY <3>1 DEF TypeInv, TypeOK
    <3>4. \A u \in Tasks : u # t => Complete(u)' = Complete(u)
      BY <3>3 DEF Complete
    <3>5. NoOrphanResults'
      BY <3>1, <3>3 DEF ResultInv, NoOrphanResults, HasRow
    <3>6. SuccessIsComplete'
      BY <3>1, <3>4 DEF ResultInv, SuccessIsComplete
    <3>7. \A p \in Pids : Alive(p)' => Alive(p) /\ wtask[p] \in Tasks
      BY <3>2 DEF Alive, Working, TypeInv, Control
    <3> QED
      BY <3>1, <3>2, <3>3, <3>4, <3>5, <3>6, <3>7 DEF ResultInv
  <2> QED
    BY <1>9, <2>1, <2>2, <2>3 DEF Serve
<1>10. CASE UNCHANGED vars
  BY <1>10, ResultQuiet DEF vars, HasRow, rowVars, lsnVars, wrkVars, histVars
<1> QED
  BY <1>1, <1>2, <1>3, <1>4, <1>5, <1>6, <1>7, <1>8, <1>9, <1>10 DEF Next

LEMMA ResultInvariant == Spec => []ResultInv
<1>1. Init => ResultInv
  BY DEF Init, ResultInv, NoOrphanResults, SuccessIsComplete, Alive, Working
<1> QED
  BY <1>1, ResultStep, TypeInvariant, PTL DEF Spec

\* Whatever is stopped, killed, restarted or deleted, and in whatever order the
\* statements of the processes run: a task reads as successful only when all
\* batches of one worker are in the table, or its results are being deleted.
THEOREM SuccessfulIsComplete == Spec => []SuccessIsComplete
<1>1. ResultInv => SuccessIsComplete
  BY DEF ResultInv
<1> QED
  BY <1>1, ResultInvariant, PTL

\* No statement that comes too late for a deleted task brings back its row or
\* stores a result for it.
THEOREM DeletedIsFinal == Spec => DeleteIsFinal
<1> DEFINE Final == \A t \in Tasks : status[t] = "deleted" =>
                        status'[t] = "deleted" /\ results'[t] = {}
<1>1. TypeInv /\ ResultInv' /\ [Next]_vars => [Final]_vars
  <2> SUFFICES ASSUME TypeInv, ResultInv', [Next]_vars, NEW t \in Tasks,
                      status[t] = "deleted"
               PROVE  status'[t] = "deleted" /\ results'[t] = {}
    OBVIOUS
  <2> USE DEF TypeInv, TypeOK, SetStatus, HasRow, NoRow
  <2>1. status'[t] = "deleted"
    <3>1. CASE ServerStart \/ InitRemove \/ InitReset
      BY <3>1 DEF ServerStart, InitRemove, InitReset, rowVars
    <3>2. ASSUME NEW kl \in BOOLEAN, NEW kw \in BOOLEAN, ServerStop(kl, kw)
          PROVE  status'[t] = "deleted"
      BY <3>2 DEF ServerStop, rowVars
    <3>3. ASSUME NEW e \in Epochs, Listen(e)
          PROVE  status'[t] = "deleted"
      BY <3>3 DEF Listen, SweepRead, SweepTask, PollRead, Launch, Skip, RecordPid,
                  MarkRunning, Sleep, rowVars
    <3>4. ASSUME NEW p \in Pids, Work(p) \/ WorkerDie(p)
          PROVE  status'[t] = "deleted"
      BY <3>4 DEF Work, WorkerBoot, WorkerInsert, WorkerReport, WorkerFail, WorkerDie,
                  rowVars
    <3>5. ASSUME NEW u \in Tasks, CreateTask(u)
          PROVE  status'[t] = "deleted"
      BY <3>5 DEF CreateTask
    <3>6. ASSUME NEW c \in Clients, NEW op \in {"stop", "delete"}, NEW u \in Tasks,
                 StopRead(c, op, u)
          PROVE  status'[t] = "deleted"
      BY <3>6 DEF StopRead, rowVars
    <3>7. ASSUME NEW c \in Clients, Serve(c)
          PROVE  status'[t] = "deleted"
      BY <3>7 DEF Serve, StopKill, StopCancel, Purge, Drop, rowVars
    <3>8. CASE UNCHANGED vars
      BY <3>8 DEF vars, rowVars
    <3> QED
      BY <3>1, <3>2, <3>3, <3>4, <3>5, <3>6, <3>7, <3>8 DEF Next
  <2>2. results'[t] = {}
    BY <2>1 DEF ResultInv, NoOrphanResults
  <2> QED
    BY <2>1, <2>2
<1> QED
  BY <1>1, TypeInvariant, ResultInvariant, PTL DEF Spec, DeleteIsFinal

-----------------------------------------------------------------------------
(* When a listener never outlives its server: the limit on RUNNING rows, and *)
(* that the worker of a row can be killed.                                   *)

LEMMA OneListenerStep == TypeInv /\ OneListener /\ [Next]_vars => OneListener'
<1> SUFFICES ASSUME TypeInv, OneListener, [Next]_vars, ~ListenerMayOutlive,
                    NEW d \in Epochs, at'[d] # "off"
             PROVE  server' = "up" /\ d = epoch'
  BY DEF OneListener
<1> USE DEF TypeInv, TypeOK, OneListener
<1>1. CASE ServerStart \/ InitRemove \/ InitReset
  BY <1>1 DEF ServerStart, InitRemove, InitReset, lsnVars
<1>2. ASSUME NEW kl \in BOOLEAN, NEW kw \in BOOLEAN, ServerStop(kl, kw)
      PROVE  server' = "up" /\ d = epoch'
  BY <1>2 DEF ServerStop
<1>3. ASSUME NEW e \in Epochs, Listen(e)
      PROVE  server' = "up" /\ d = epoch'
  BY <1>3 DEF Listen, SweepRead, SweepTask, PollRead, Launch, Skip, RecordPid,
              MarkRunning, Sleep, srvVars
<1>4. ASSUME NEW p \in Pids, Work(p) \/ WorkerDie(p)
      PROVE  server' = "up" /\ d = epoch'
  BY <1>4 DEF Work, WorkerBoot, WorkerInsert, WorkerReport, WorkerFail, WorkerDie,
              srvVars, lsnVars
<1>5. ASSUME NEW t \in Tasks, CreateTask(t)
      PROVE  server' = "up" /\ d = epoch'
  BY <1>5 DEF CreateTask, srvVars, lsnVars
<1>6. ASSUME NEW c \in Clients, NEW op \in {"stop", "delete"}, NEW t \in Tasks,
             StopRead(c, op, t)
      PROVE  server' = "up" /\ d = epoch'
  BY <1>6 DEF StopRead, srvVars, lsnVars
<1>7. ASSUME NEW c \in Clients, Serve(c)
      PROVE  server' = "up" /\ d = epoch'
  BY <1>7 DEF Serve, StopKill, StopCancel, Purge, Drop, srvVars, lsnVars
<1>8. CASE UNCHANGED vars
  BY <1>8 DEF vars, srvVars, lsnVars
<1> QED
  BY <1>1, <1>2, <1>3, <1>4, <1>5, <1>6, <1>7, <1>8 DEF Next

-----------------------------------------------------------------------------
\* The slots in use: RUNNING rows, and tasks about to be marked.
Slots == Rows({"running"}) \cup {t \in Tasks : InFlight(t)}

\* A step that starts nothing and marks only what is being started takes no slot.
LEMMA SlotQuiet ==
    ASSUME SlotInv,
           \A t \in Tasks : status'[t] = "running" => status[t] = "running" \/ InFlight(t),
           \A t \in Tasks : InFlight(t)' => InFlight(t)
    PROVE  SlotInv'
<1>1. Slots' \subseteq Slots
  BY DEF Slots, Rows
<1>2. IsFiniteSet(Slots)
  BY LogTaskAssumption, FS_Subset DEF Slots, Rows
<1>3. Cardinality(Slots') \in Nat /\ Cardinality(Slots) \in Nat
      /\ Cardinality(Slots') <= Cardinality(Slots)
  BY <1>1, <1>2, FS_Subset, FS_CardinalityType
<1> QED
  BY <1>3, LogTaskAssumption DEF SlotInv, Slots

LEMMA SlotStep == TypeInv /\ OneListener /\ SlotInv /\ [Next]_vars => SlotInv'
<1> SUFFICES ASSUME TypeInv, OneListener, SlotInv, [Next]_vars, ~ListenerMayOutlive
             PROVE  SlotInv'
  BY DEF SlotInv
<1> USE DEF TypeInv, TypeOK
<1>1. CASE ServerStart \/ InitRemove
  BY <1>1, SlotQuiet DEF ServerStart, InitRemove, rowVars, lsnVars, wrkVars, InFlight,
                            Starting
<1>2. CASE InitReset
  <2>1. \A t \in Tasks : status'[t] # "running"
    BY <1>2 DEF InitReset
  <2>2. \A e \in Epochs : ~Starting(e)'
    BY <1>2 DEF InitReset, OneListener, Starting
  <2> QED
    BY <2>1, <2>2, SlotQuiet DEF InFlight
<1>3. ASSUME NEW kl \in BOOLEAN, NEW kw \in BOOLEAN, ServerStop(kl, kw)
      PROVE  SlotInv'
  <2>1. \A e \in Epochs : Starting(e)' => Starting(e) /\ child'[e] = child[e]
    BY <1>3 DEF ServerStop, Starting
  <2> QED
    BY <1>3, <2>1, SlotQuiet DEF ServerStop, rowVars, InFlight
<1>4. ASSUME NEW e \in Epochs, Listen(e)
      PROVE  SlotInv'
  <2>1. CASE SweepRead(e) \/ PollRead(e) \/ Skip(e) \/ Sleep(e)
    <3>1. \A d \in Epochs : Starting(d)' => Starting(d)
      BY <2>1 DEF SweepRead, PollRead, Skip, Sleep, Starting
    <3>2. UNCHANGED <<status, child, wtask>>
      BY <2>1 DEF SweepRead, PollRead, Skip, Sleep, rowVars, wrkVars
    <3> QED
      BY <3>1, <3>2, SlotQuiet DEF InFlight
  <2>2. CASE SweepTask(e)
    <3>1. \A t \in Tasks : status'[t] \in {status[t], "successful", "failed"}
      BY <2>2 DEF SweepTask, SetStatus
    <3> QED
      BY <2>2, <3>1, SlotQuiet DEF SweepTask, InFlight, Starting
  <2>3. CASE Launch(e)
    <3>1. PICK r \in snap[e], p \in Pids :
              /\ CanAdd(r[1])
              /\ wst[p] = "free"
              /\ wtask' = [wtask EXCEPT ![p] = r[1]]
              /\ child' = [child EXCEPT ![e] = p]
      BY <2>3 DEF Launch
    <3>2. r[1] \in Tasks
      OBVIOUS
    \* e is the only listener, and it was between two starts.
    <3>3. \A d \in Epochs : d # e => at'[d] = "off"
      BY <2>3 DEF Launch, OneListener
    <3>4. \A t \in Tasks : InFlight(t)' => t = r[1]
      BY <3>1, <3>3 DEF InFlight, Starting
    <3>5. Slots' \subseteq Rows({"running"}) \cup {r[1]}
      BY <2>3, <3>4 DEF Launch, Slots, Rows, rowVars
    <3>6. IsFiniteSet(Rows({"running"}))
      BY LogTaskAssumption, FS_Subset DEF Rows
    <3>7. /\ IsFiniteSet(Rows({"running"}) \cup {r[1]})
          /\ Cardinality(Rows({"running"}) \cup {r[1]}) <= Cardinality(Rows({"running"})) + 1
      <4>1. Cardinality(Rows({"running"})) \in Nat
        BY <3>6, FS_CardinalityType
      <4>2. /\ IsFiniteSet(Rows({"running"}) \cup {r[1]})
            /\ \/ Cardinality(Rows({"running"}) \cup {r[1]}) = Cardinality(Rows({"running"}))
               \/ Cardinality(Rows({"running"}) \cup {r[1]}) = Cardinality(Rows({"running"})) + 1
        BY <3>6, FS_AddElement
      <4> QED
        BY <4>1, <4>2
    <3>8. /\ Cardinality(Slots') <= Cardinality(Rows({"running"}) \cup {r[1]})
          /\ Cardinality(Slots') \in Nat /\ Cardinality(Rows({"running"})) \in Nat
          /\ Cardinality(Rows({"running"}) \cup {r[1]}) \in Nat
      BY <3>5, <3>6, <3>7, FS_Subset, FS_CardinalityType
    <3>9. Cardinality(Rows({"running"})) < CpuUseLimit
      BY <3>1 DEF CanAdd
    <3> QED
      BY <3>7, <3>8, <3>9, LogTaskAssumption DEF SlotInv, Slots
  <2>4. CASE RecordPid(e)
    <3>1. \A d \in Epochs : Starting(d)' => Starting(d)
      BY <2>4 DEF RecordPid, Starting
    <3> QED
      BY <2>4, <3>1, SlotQuiet DEF RecordPid, wrkVars, InFlight
  <2>5. CASE MarkRunning(e)
    <3>1. /\ InFlight(wtask[child[e]])
          /\ \A t \in Tasks : status'[t] # status[t] => t = wtask[child[e]]
      BY <2>5 DEF MarkRunning, SetStatus, Control, InFlight, Starting
    <3>2. \A d \in Epochs : Starting(d)' => Starting(d) /\ child'[d] = child[d]
      BY <2>5 DEF MarkRunning, Starting
    <3> QED
      BY <2>5, <3>1, <3>2, SlotQuiet DEF MarkRunning, wrkVars, InFlight
  <2> QED
    BY <1>4, <2>1, <2>2, <2>3, <2>4, <2>5 DEF Listen
<1>5. ASSUME NEW p \in Pids, Work(p) \/ WorkerDie(p)
      PROVE  SlotInv'
  <2>1. \A t \in Tasks : status'[t] = "running" => status[t] = "running"
    BY <1>5 DEF Work, WorkerBoot, WorkerInsert, WorkerReport, WorkerFail, WorkerDie,
                SetStatus, rowVars
  <2>2. UNCHANGED <<wtask, lsnVars>>
    BY <1>5 DEF Work, WorkerBoot, WorkerInsert, WorkerReport, WorkerFail, WorkerDie
  <2> QED
    BY <2>1, <2>2, SlotQuiet DEF InFlight, Starting, lsnVars
<1>6. ASSUME NEW t \in Tasks, CreateTask(t)
      PROVE  SlotInv'
  BY <1>6, SlotQuiet DEF CreateTask, lsnVars, wrkVars, InFlight, Starting
<1>7. ASSUME NEW c \in Clients, NEW op \in {"stop", "delete"}, NEW t \in Tasks,
             StopRead(c, op, t)
      PROVE  SlotInv'
  BY <1>7, SlotQuiet DEF StopRead, rowVars, lsnVars, wrkVars, InFlight, Starting
<1>8. ASSUME NEW c \in Clients, Serve(c)
      PROVE  SlotInv'
  <2>1. \A t \in Tasks : status'[t] = "running" => status[t] = "running"
    BY <1>8 DEF Serve, StopKill, StopCancel, Purge, Drop, SetStatus, rowVars
  <2>2. UNCHANGED <<wtask, lsnVars>>
    BY <1>8 DEF Serve, StopKill, StopCancel, Purge, Drop, wrkVars
  <2> QED
    BY <2>1, <2>2, SlotQuiet DEF InFlight, Starting, lsnVars
<1>9. CASE UNCHANGED vars
  BY <1>9, SlotQuiet DEF vars, rowVars, lsnVars, wrkVars, InFlight, Starting
<1> QED
  BY <1>1, <1>2, <1>3, <1>4, <1>5, <1>6, <1>7, <1>8, <1>9 DEF Next

LEMMA SlotInvariant == Spec => [](OneListener /\ SlotInv)
<1>1. Init => OneListener /\ SlotInv
  <2> SUFFICES ASSUME Init, ~ListenerMayOutlive PROVE OneListener /\ SlotInv
    BY DEF OneListener, SlotInv
  <2>1. Slots = {}
    BY DEF Init, Slots, Rows, InFlight, Starting
  <2>2. SlotInv
    BY <2>1, FS_EmptySet, LogTaskAssumption DEF SlotInv, Slots
  <2>3. OneListener
    BY DEF Init, OneListener
  <2> QED
    BY <2>2, <2>3
<1> QED
  BY <1>1, OneListenerStep, SlotStep, TypeInvariant, PTL DEF Spec

\* While no second listener is about, the limit holds at every moment, although
\* it is checked two UPDATEs before the row counts: the listener starts one
\* task at a time, and nobody else writes RUNNING.
THEOREM RunningStaysWithinLimit == Spec => []RunningWithinLimit
<1>1. SlotInv => RunningWithinLimit
  <2> SUFFICES ASSUME SlotInv, ~ListenerMayOutlive
               PROVE  Cardinality(Rows({"running"})) <= CpuUseLimit
    BY DEF RunningWithinLimit
  <2>1. Rows({"running"}) \subseteq Slots /\ IsFiniteSet(Slots)
    BY LogTaskAssumption, FS_Subset DEF Slots, Rows
  <2>2. /\ Cardinality(Rows({"running"})) <= Cardinality(Slots)
        /\ Cardinality(Rows({"running"})) \in Nat /\ Cardinality(Slots) \in Nat
    BY <2>1, FS_Subset, FS_CardinalityType
  <2> QED
    BY <2>2, LogTaskAssumption DEF SlotInv, Slots
<1> QED
  BY <1>1, SlotInvariant, PTL

-----------------------------------------------------------------------------
\* KillInv is kept by a step that marks, starts, creates and stops nothing:
\* workers may only get on or end, rows may only leave PENDING and RUNNING,
\* and the listener, init() and the calls may only finish what they do.
LEMMA KillQuiet ==
    ASSUME TypeInv, KillInv, ~ListenerMayOutlive,
           UNCHANGED <<pid, wtask, marked, stopped>>,
           \A p \in Pids : /\ wst[p] # "free" => wst'[p] # "free"
                           /\ Alive(p)' => Alive(p),
           \A t \in Tasks : /\ HasRow(t)' => HasRow(t)
                            /\ status'[t] \in {"pending", "running", "uncreated"}
                               => status'[t] = status[t],
           \A e \in Epochs : Starting(e)' => UNCHANGED <<at[e], child[e]>>,
           \A c \in Clients : call'[c].next \in {"kill", "cancelKilled"}
                              => call'[c] = call[c],
           \A c \in Clients : server' # "up" => call'[c].next = "idle",
           server' = "init" => server = "init" /\ initTodo' = initTodo
    PROVE  KillInv'
<1> USE DEF KillInv
<1>1. \A t \in Tasks : MarkedOf(t)' \subseteq MarkedOf(t)
  BY DEF MarkedOf, TypeInv, TypeOK
<1>2. \A t \in Tasks : InFlight(t)' => InFlight(t)
  BY DEF InFlight, Starting
<1>3. \A p \in marked' : wst'[p] # "free"
  BY DEF TypeInv, TypeOK
<1>4. PidIsMarked' /\ PendingIsUnmarked'
  BY <1>1 DEF PidIsMarked, PendingIsUnmarked
<1>5. \A e \in Epochs : Starting(e)' => /\ Starting(e) /\ child'[e] = child[e]
                                        /\ wtask[child[e]] \in Tasks
  BY DEF Starting, TypeInv, Control
<1>6. PidIsChild' /\ StartIsAlone'
  BY <1>1, <1>5 DEF PidIsChild, StartIsAlone, Starting
<1>7. InitWillKill'
  BY <1>1 DEF InitWillKill
<1>8. \A c \in Clients : call'[c].next \in {"kill", "cancelKilled"} =>
                            call'[c] = call[c] /\ call[c].task \in Tasks
  BY DEF TypeInv, TypeOK, Control
<1>9. KillIsSettled' /\ CancelIsSettled'
  BY <1>1, <1>2, <1>8 DEF KillIsSettled, CancelIsSettled
<1>10. StopIsSettled'
  BY <1>1, <1>2 DEF StopIsSettled, TypeInv, TypeOK
<1>11. CallsAreServed'
  BY DEF CallsAreServed
<1> QED
  BY <1>3, <1>4, <1>6, <1>7, <1>9, <1>10, <1>11

LEMMA KillStep == TypeInv /\ OneListener /\ KillInv /\ [Next]_vars => KillInv'
<1> SUFFICES ASSUME TypeInv, OneListener, KillInv, [Next]_vars, ~ListenerMayOutlive
             PROVE  KillInv'
  BY DEF KillInv
<1>1. CASE ServerStart
  <2>1. UNCHANGED <<status, pid, wtask, wst, at, child, call, marked, stopped>>
    BY <1>1 DEF ServerStart, rowVars, lsnVars, wrkVars, histVars
  <2>2. InitWillKill'
    BY <1>1, <2>1 DEF ServerStart, InitWillKill, Rows
  <2> QED
    BY <1>1, <2>1, <2>2 DEF ServerStart, KillInv, PidIsMarked, PidIsChild,
         PendingIsUnmarked, StartIsAlone, CallsAreServed, KillIsSettled, CancelIsSettled,
         StopIsSettled, MarkedOf, Alive, InFlight, Starting, HasRow
<1>2. CASE InitRemove
  <2>1. UNCHANGED <<status, pid, server, wtask, at, child, call, marked, stopped>>
    BY <1>2 DEF InitRemove, rowVars, lsnVars, histVars
  <2>2. PICK u \in initTodo : RemoveTask(u) /\ initTodo' = initTodo \ {u}
    BY <1>2 DEF InitRemove
  <2>3. \A p \in Pids : wst'[p] \in {wst[p], "ended"} /\ (Alive(p)' => Alive(p))
    BY <2>2 DEF RemoveTask, Alive, Working
  <2>4. \A t \in Tasks : MarkedOf(t)' \subseteq MarkedOf(t)
    BY <2>1, <2>3 DEF MarkedOf, TypeInv, TypeOK
  \* The kill hits the marked worker that is alive, if there is one.
  <2>5. status[u] = "running" => MarkedOf(u)' = {}
    <3> SUFFICES ASSUME status[u] = "running", NEW p \in MarkedOf(u)'
                 PROVE  FALSE
      OBVIOUS
    <3>1. p \in MarkedOf(u) /\ u \in Tasks /\ p \in Pids
      BY <2>4 DEF TypeInv, TypeOK, MarkedOf
    <3>2. HasRow(u) /\ p = pid[u]
      BY <3>1 DEF KillInv, PidIsMarked, HasRow, NoRow
    <3>3. wst'[p] = "ended"
      BY <2>2, <3>1, <3>2 DEF RemoveTask, MarkedOf
    <3> QED
      BY <3>3 DEF MarkedOf, Alive, Working
  <2>6. InitWillKill'
    BY <2>1, <2>2, <2>4, <2>5 DEF KillInv, InitWillKill
  <2>7. \A e \in Epochs : ~Starting(e)
    BY <1>2 DEF InitRemove, OneListener, Starting
  <2>8. \A p \in marked' : wst'[p] # "free"
    BY <2>1, <2>3 DEF KillInv, TypeInv, TypeOK
  <2>9. PidIsMarked' /\ PendingIsUnmarked' /\ StopIsSettled' /\ PidIsChild' /\ StartIsAlone'
    BY <2>1, <2>4, <2>7 DEF KillInv, PidIsMarked, PendingIsUnmarked, StopIsSettled,
         PidIsChild, StartIsAlone, InFlight, Starting, HasRow, TypeInv, TypeOK
  <2>10. KillIsSettled' /\ CancelIsSettled' /\ CallsAreServed'
    BY <1>2, <2>1 DEF InitRemove, KillInv, KillIsSettled, CancelIsSettled, CallsAreServed
  <2> QED
    BY <2>6, <2>8, <2>9, <2>10 DEF KillInv
<1>3. CASE InitReset
  <2>1. UNCHANGED <<pid, wtask, wst, child, call, marked, stopped>>
    BY <1>3 DEF InitReset, wrkVars, histVars
  <2>2. \A e \in Epochs : ~Starting(e) /\ ~Starting(e)'
    BY <1>3 DEF InitReset, OneListener, Starting, TypeInv, TypeOK
  <2>3. \A t \in Tasks : /\ status'[t] = IF status[t] = "running" THEN "pending" ELSE status[t]
                         /\ HasRow(t)' = HasRow(t)
                         /\ MarkedOf(t)' = MarkedOf(t)
    BY <1>3, <2>1 DEF InitReset, HasRow, NoRow, MarkedOf, Alive
  <2>4. \A t \in Tasks : status[t] = "running" => MarkedOf(t) = {}
    BY <1>3 DEF InitReset, KillInv, InitWillKill
  <2>5. PendingIsUnmarked'
    BY <2>3, <2>4 DEF KillInv, PendingIsUnmarked
  <2>6. \A c \in Clients : call'[c].next = "idle"
    BY <1>3, <2>1 DEF InitReset, KillInv, CallsAreServed
  <2>7. PidIsMarked' /\ PidIsChild' /\ StartIsAlone' /\ InitWillKill'
    BY <1>3, <2>1, <2>2, <2>3 DEF InitReset, KillInv, PidIsMarked, PidIsChild, StartIsAlone,
         InitWillKill, Starting
  <2>8. StopIsSettled'
    BY <2>1, <2>2, <2>3 DEF KillInv, StopIsSettled, InFlight, TypeInv, TypeOK
  <2>9. KillIsSettled' /\ CancelIsSettled' /\ CallsAreServed'
    BY <2>6 DEF KillIsSettled, CancelIsSettled, CallsAreServed
  <2> QED
    BY <2>1, <2>5, <2>7, <2>8, <2>9 DEF KillInv
<1>4. ASSUME NEW kl \in BOOLEAN, NEW kw \in BOOLEAN, ServerStop(kl, kw)
      PROVE  KillInv'
  <2>1. \A e \in Epochs : Starting(e)' => UNCHANGED <<at[e], child[e]>>
    BY <1>4 DEF ServerStop, Starting
  <2>2. \A p \in Pids : /\ wst[p] # "free" => wst'[p] # "free"
                        /\ Alive(p)' => Alive(p)
    BY <1>4 DEF ServerStop, Alive, Working
  <2>3. \A c \in Clients : call'[c].next = "idle"
    BY <1>4 DEF ServerStop, Idle
  <2> QED
    BY <1>4, <2>1, <2>2, <2>3, KillQuiet DEF ServerStop, HasRow, rowVars, histVars
<1>5. ASSUME NEW e \in Epochs, Listen(e)
      PROVE  KillInv'
  <2>0. \A d \in Epochs : at[d] # "off" => d = e /\ server = "up"
    BY <1>5 DEF OneListener, Listen, SweepRead, SweepTask, PollRead, Launch, Skip,
         RecordPid, MarkRunning, Sleep
  <2>1. CASE SweepRead(e) \/ PollRead(e) \/ Skip(e) \/ Sleep(e)
    <3>1. \A d \in Epochs : Starting(d)' => UNCHANGED <<at[d], child[d]>>
      BY <2>1 DEF SweepRead, PollRead, Skip, Sleep, Starting, TypeInv, TypeOK
    <3>2. UNCHANGED <<rowVars, srvVars, wrkVars, call, marked, stopped>>
      BY <2>1 DEF SweepRead, PollRead, Skip, Sleep, histVars
    <3>3. \A c \in Clients : server' # "up" => call'[c].next = "idle"
      BY <3>2 DEF srvVars, KillInv, CallsAreServed
    <3> QED
      BY <3>1, <3>2, <3>3, KillQuiet DEF rowVars, srvVars, wrkVars, Alive, HasRow
  <2>2. CASE SweepTask(e)
    <3>1. UNCHANGED <<pid, srvVars, at, child, wtask, call, marked, stopped>>
      BY <2>2 DEF SweepTask, histVars
    <3>2. \A t \in Tasks : /\ HasRow(t)' => HasRow(t)
                           /\ status'[t] \in {status[t], "successful", "failed"}
      BY <2>2 DEF SweepTask, SetStatus, HasRow
    <3>3. \A p \in Pids : wst'[p] \in {wst[p], "ended"} /\ (Alive(p)' => Alive(p))
      BY <2>2 DEF SweepTask, RemoveTask, Alive, Working
    <3>4. \A c \in Clients : server' # "up" => call'[c].next = "idle"
      BY <3>1 DEF srvVars, KillInv, CallsAreServed
    <3> QED
      BY <3>1, <3>2, <3>3, <3>4, KillQuiet DEF srvVars
  <2>3. CASE Launch(e)
    <3>1. PICK r \in snap[e], p \in Pids :
              /\ status[r[1]] = "pending"
              /\ wst[p] = "free" /\ wst' = [wst EXCEPT ![p] = "boot"]
              /\ wtask' = [wtask EXCEPT ![p] = r[1]]
              /\ child' = [child EXCEPT ![e] = p]
      BY <2>3 DEF Launch, CanAdd
    <3>2. r[1] \in Tasks
      BY DEF TypeInv, TypeOK
    <3>3. UNCHANGED <<status, pid, srvVars, call, marked, stopped>>
      BY <2>3 DEF Launch, rowVars, histVars
    <3>4. p \notin marked
      BY <3>1 DEF KillInv
    <3>5. \A t \in Tasks : MarkedOf(t)' = MarkedOf(t)
      BY <3>1, <3>3, <3>4 DEF MarkedOf, Alive, TypeInv, TypeOK
    <3>6. /\ \A d \in Epochs : Starting(d)' => d = e
          /\ at'[e] = "record" /\ child'[e] = p /\ wtask'[p] = r[1]
      BY <2>0, <2>3, <3>1 DEF Launch, Starting, TypeInv, TypeOK
    <3>7. \A t \in Tasks : InFlight(t)' => t = r[1]
      BY <3>6 DEF InFlight
    \* A PENDING row has no marked worker and is not being stopped.
    <3>8. StartIsAlone' /\ PidIsChild'
      BY <3>1, <3>2, <3>3, <3>5, <3>6 DEF StartIsAlone, PidIsChild, KillInv, PendingIsUnmarked,
           Starting
    <3>9. KillIsSettled' /\ StopIsSettled'
      <4>1. KillIsSettled'
        BY <3>1, <3>3, <3>7 DEF KillInv, KillIsSettled, TypeInv, Control
      <4>2. StopIsSettled'
        BY <3>1, <3>3, <3>5, <3>7 DEF KillInv, StopIsSettled, HasRow, TypeInv, TypeOK
      <4> QED
        BY <4>1, <4>2
    <3>10. CancelIsSettled' /\ CallsAreServed' /\ InitWillKill'
      BY <3>3, <3>5 DEF KillInv, CancelIsSettled, CallsAreServed, InitWillKill, srvVars,
           HasRow, TypeInv, Control
    <3>11. PidIsMarked' /\ PendingIsUnmarked'
      BY <3>3, <3>5 DEF KillInv, PidIsMarked, PendingIsUnmarked, HasRow
    <3>12. \A q \in marked' : wst'[q] # "free"
      BY <3>1, <3>3 DEF KillInv, TypeInv, TypeOK
    <3> QED
      BY <3>8, <3>9, <3>10, <3>11, <3>12 DEF KillInv
  <2>4. CASE RecordPid(e)
    <3>0. PICK t \in Tasks : t = wtask[child[e]]
      BY <2>4 DEF RecordPid, Starting, TypeInv, Control
    <3>1. /\ at[e] = "record" /\ Starting(e) /\ t \in Tasks
          /\ at' = [at EXCEPT ![e] = "mark"]
          /\ UNCHANGED <<status, srvVars, child, wrkVars, call, marked, stopped>>
          /\ pid' = IF HasRow(t) THEN [pid EXCEPT ![t] = child[e]] ELSE pid
      BY <2>4, <3>0 DEF RecordPid, Starting, TypeInv, Control, histVars
    <3>2. \A u \in Tasks : MarkedOf(u)' = MarkedOf(u) /\ HasRow(u)' = HasRow(u)
      BY <3>1 DEF MarkedOf, Alive, HasRow, wrkVars
    <3>3. MarkedOf(t) = {}
      BY <3>0, <3>1 DEF KillInv, StartIsAlone
    <3>4. \A u \in Tasks : pid'[u] = IF u = t /\ HasRow(t) THEN child[e] ELSE pid[u]
      BY <3>1 DEF TypeInv, TypeOK
    <3>5. PidIsMarked' /\ PendingIsUnmarked'
      BY <3>1, <3>2, <3>3, <3>4 DEF KillInv, PidIsMarked, PendingIsUnmarked
    <3>6. \A d \in Epochs : Starting(d)' => d = e /\ Starting(d)
      BY <2>0, <3>1 DEF Starting, TypeInv, TypeOK
    <3>7. PidIsChild' /\ StartIsAlone'
      BY <3>0, <3>1, <3>2, <3>3, <3>4, <3>6 DEF KillInv, PidIsChild, StartIsAlone, wrkVars,
           Starting
    <3>8. \A u \in Tasks : InFlight(u)' => InFlight(u)
      BY <3>1, <3>6 DEF InFlight, wrkVars
    <3>9. KillIsSettled' /\ StopIsSettled' /\ CancelIsSettled'
      BY <3>1, <3>2, <3>8 DEF KillInv, KillIsSettled, StopIsSettled, CancelIsSettled,
           TypeInv, TypeOK, Control
    <3>10. CallsAreServed' /\ InitWillKill'
      BY <3>1, <3>2 DEF KillInv, CallsAreServed, InitWillKill, srvVars
    <3>11. \A q \in marked' : wst'[q] # "free"
      BY <3>1 DEF KillInv, wrkVars
    <3> QED
      BY <3>5, <3>7, <3>9, <3>10, <3>11 DEF KillInv
  <2>5. CASE MarkRunning(e)
    <3>0. PICK p \in Pids, t \in Tasks : p = child[e] /\ t = wtask[p]
      BY <2>5 DEF MarkRunning, Starting, TypeInv, Control
    <3>1. /\ at[e] = "mark" /\ Starting(e) /\ InFlight(t)
          /\ p \in Pids /\ t \in Tasks /\ wst[p] # "free"
          /\ marked' = marked \cup {p}
          /\ UNCHANGED <<pid, srvVars, wrkVars, call, stopped>>
      BY <2>5, <3>0 DEF MarkRunning, Starting, InFlight, TypeInv, Control
    <3>2. /\ \A u \in Tasks : status'[u] = IF u = t /\ HasRow(t) THEN "running" ELSE status[u]
          /\ \A u \in Tasks : HasRow(u)' = HasRow(u)
      BY <2>5, <3>0 DEF MarkRunning, SetStatus, HasRow, NoRow, TypeInv, TypeOK
    <3>3. /\ \A u \in Tasks : u # t => MarkedOf(u)' = MarkedOf(u)
          /\ MarkedOf(t)' \subseteq MarkedOf(t) \cup {p}
      <4>1. wtask' = wtask /\ wst' = wst
        BY <3>1 DEF wrkVars
      <4>2. \A u : MarkedOf(u)' = {q \in marked \cup {p} : Alive(q) /\ wtask[q] = u}
        BY <3>1, <4>1 DEF MarkedOf, Alive
      <4>3. \A u \in Tasks, q \in Pids \cup marked \cup {p} :
               u # t => (q \in MarkedOf(u)' <=> q \in MarkedOf(u))
        BY <3>0, <4>2 DEF MarkedOf
      <4>4. \A u : MarkedOf(u) \subseteq marked /\ MarkedOf(u)' \subseteq marked \cup {p}
        BY <4>2 DEF MarkedOf
      <4>5. \A u \in Tasks : u # t => MarkedOf(u)' = MarkedOf(u)
        BY <4>3, <4>4
      <4>6. MarkedOf(t)' \subseteq MarkedOf(t) \cup {p}
        BY <4>2 DEF MarkedOf
      <4> QED
        BY <4>5, <4>6
    <3>4. MarkedOf(t) = {} /\ (HasRow(t) => pid[t] = p)
      BY <3>0, <3>1 DEF KillInv, StartIsAlone, PidIsChild
    <3>5. \A d \in Epochs : ~Starting(d)'
      BY <2>0, <2>5 DEF MarkRunning, Starting, TypeInv, TypeOK
    <3>6. PidIsMarked'
      <4>1. ASSUME NEW u \in Tasks, u # t
            PROVE  (HasRow(u) => MarkedOf(u) \subseteq {pid[u]})'
                   /\ \A q, r \in MarkedOf(u)' : q = r
        BY <3>1, <3>2, <3>3, <4>1 DEF KillInv, PidIsMarked
      <4>2. (HasRow(t) => MarkedOf(t) \subseteq {pid[t]})' /\ \A q, r \in MarkedOf(t)' : q = r
        BY <3>1, <3>2, <3>3, <3>4
      <4> QED
        BY <4>1, <4>2 DEF PidIsMarked
    <3>7. PendingIsUnmarked'
      BY <3>2, <3>3 DEF KillInv, PendingIsUnmarked, HasRow, NoRow
    <3>8. PidIsChild' /\ StartIsAlone'
      BY <3>5 DEF PidIsChild, StartIsAlone, Starting
    <3>9. InitWillKill' /\ CallsAreServed'
      BY <2>0, <3>1 DEF InitWillKill, CallsAreServed, srvVars, Starting
    \* A stop that is about to kill or cancel is not for the task being started.
    <3>10. KillIsSettled'
      BY <3>1, <3>2, <3>5 DEF KillInv, KillIsSettled, InFlight, TypeInv, Control
    <3>11. ASSUME NEW c \in Clients, call'[c].next = "cancelKilled", HasRow(call[c].task)'
           PROVE  MarkedOf(call[c].task)' = {}
      <4>1. call'[c] = call[c] /\ call[c].task \in Tasks
        BY <3>1, <3>11 DEF TypeInv, Control
      <4>2. call[c].task # t
        BY <3>1, <3>11, <4>1 DEF KillInv, KillIsSettled
      <4> QED
        BY <3>2, <3>3, <3>11, <4>1, <4>2 DEF KillInv, CancelIsSettled
    <3>12. CancelIsSettled'
      BY <3>1, <3>11 DEF CancelIsSettled
    <3>13. StopIsSettled'
      BY <3>1, <3>2, <3>3, <3>5 DEF KillInv, StopIsSettled, InFlight, TypeInv, TypeOK
    <3>14. \A q \in marked' : wst'[q] # "free"
      BY <3>1 DEF KillInv, wrkVars
    <3> QED
      BY <3>6, <3>7, <3>8, <3>9, <3>10, <3>12, <3>13, <3>14 DEF KillInv
  <2> QED
    BY <1>5, <2>1, <2>2, <2>3, <2>4, <2>5 DEF Listen
<1>6. ASSUME NEW p \in Pids, Work(p) \/ WorkerDie(p)
      PROVE  KillInv'
  <2>1. UNCHANGED <<pid, srvVars, lsnVars, wtask, call, marked, stopped>>
    BY <1>6 DEF Work, WorkerBoot, WorkerInsert, WorkerReport, WorkerFail, WorkerDie, rowVars,
                histVars
  <2>2. \A q \in Pids : /\ wst[q] # "free" => wst'[q] # "free"
                        /\ Alive(q)' => Alive(q)
    BY <1>6 DEF Work, WorkerBoot, WorkerInsert, WorkerReport, WorkerFail, WorkerDie, Alive,
                Working, TypeInv, TypeOK
  <2>3. \A t \in Tasks : /\ HasRow(t)' => HasRow(t)
                         /\ status'[t] \in {status[t], "successful_pending_remove",
                                            "failed_pending_remove", "failed"}
    <3>1. CASE WorkerBoot(p) \/ WorkerInsert(p) \/ WorkerDie(p)
      BY <3>1 DEF WorkerBoot, WorkerInsert, WorkerDie, HasRow, rowVars
    <3>2. CASE WorkerReport(p)
      BY <3>2 DEF WorkerReport, SetStatus, HasRow, TypeInv, TypeOK
    <3>3. CASE WorkerFail(p)
      BY <3>3 DEF WorkerFail, SetStatus, HasRow, TypeInv, TypeOK
    <3> QED
      BY <1>6, <3>1, <3>2, <3>3 DEF Work
  <2>4. \A c \in Clients : server' # "up" => call'[c].next = "idle"
    BY <2>1 DEF srvVars, KillInv, CallsAreServed
  <2> QED
    BY <2>1, <2>2, <2>3, <2>4, KillQuiet DEF srvVars, lsnVars
<1>7. ASSUME NEW t \in Tasks, CreateTask(t)
      PROVE  KillInv'
  <2>1. UNCHANGED <<pid, srvVars, lsnVars, wrkVars, call, marked, stopped>>
    BY <1>7 DEF CreateTask, histVars
  <2>2. /\ status[t] = "uncreated" /\ status'[t] = "pending"
        /\ \A u \in Tasks : u # t => status'[u] = status[u]
    BY <1>7 DEF CreateTask, TypeInv, TypeOK
  <2>3. /\ \A u \in Tasks : MarkedOf(u)' = MarkedOf(u)
        /\ \A u \in Tasks : InFlight(u)' = InFlight(u)
        /\ \A e \in Epochs : Starting(e)' = Starting(e)
    BY <2>1 DEF MarkedOf, Alive, InFlight, Starting, lsnVars, wrkVars
  \* Nobody works for a task that is only now created, or is stopping it.
  <2>4. MarkedOf(t) = {} /\ ~InFlight(t) /\ t \notin stopped
    BY <2>2 DEF MarkedOf, InFlight, Starting, TypeInv, TypeOK, Control, KillInv, StopIsSettled
  <2>5. PidIsMarked' /\ PendingIsUnmarked' /\ InitWillKill'
    BY <2>1, <2>2, <2>3, <2>4 DEF KillInv, PidIsMarked, PendingIsUnmarked, InitWillKill,
         HasRow, srvVars
  <2>6. PidIsChild' /\ StartIsAlone'
    BY <2>1, <2>2, <2>3 DEF KillInv, PidIsChild, StartIsAlone, HasRow, lsnVars, wrkVars,
         Starting, TypeInv, Control
  <2>7. \A c \in Clients : call[c].next # "idle" => call[c].task \in Tasks /\ call[c].task # t
    BY <2>2 DEF TypeInv, Control
  <2>8. KillIsSettled' /\ CancelIsSettled' /\ CallsAreServed'
    BY <2>1, <2>2, <2>3, <2>7 DEF KillInv, KillIsSettled, CancelIsSettled, CallsAreServed,
         HasRow, srvVars
  <2>9. StopIsSettled'
    BY <2>1, <2>2, <2>3, <2>4 DEF KillInv, StopIsSettled, HasRow, TypeInv, TypeOK
  <2>10. \A q \in marked' : wst'[q] # "free"
    BY <2>1 DEF KillInv, wrkVars
  <2> QED
    BY <2>5, <2>6, <2>8, <2>9, <2>10 DEF KillInv
<1>8. ASSUME NEW c \in Clients, NEW op \in {"stop", "delete"}, NEW t \in Tasks,
             StopRead(c, op, t)
      PROVE  KillInv'
  <2>1. UNCHANGED <<rowVars, srvVars, lsnVars, wrkVars, marked, stopped>>
    BY <1>8 DEF StopRead, histVars
  <2>2. /\ server = "up" /\ \A d \in Clients : d # c => call'[d] = call[d]
        /\ call'[c].next = "kill" => call'[c].task = t /\ status[t] = "running"
        /\ call'[c].next # "cancelKilled"
    BY <1>8 DEF StopRead, AfterStop, Idle, TypeInv, TypeOK
  <2>3. /\ \A u \in Tasks : MarkedOf(u)' = MarkedOf(u) /\ HasRow(u)' = HasRow(u)
        /\ \A u \in Tasks : InFlight(u)' = InFlight(u)
        /\ \A e \in Epochs : Starting(e)' = Starting(e)
    BY <2>1 DEF MarkedOf, Alive, HasRow, InFlight, Starting, rowVars, lsnVars, wrkVars
  <2>4. \A u \in Tasks : status[u] = "running" => ~InFlight(u)
    BY DEF KillInv, StartIsAlone, InFlight
  <2>5. KillIsSettled' /\ CancelIsSettled'
    BY <2>1, <2>2, <2>3, <2>4 DEF KillInv, KillIsSettled, CancelIsSettled, rowVars,
         TypeInv, Control
  <2>6. CallsAreServed' /\ InitWillKill'
    BY <2>1, <2>2 DEF CallsAreServed, InitWillKill, srvVars
  <2>7. PidIsMarked' /\ PendingIsUnmarked' /\ StopIsSettled'
    BY <2>1, <2>3 DEF KillInv, PidIsMarked, PendingIsUnmarked, StopIsSettled, rowVars,
         TypeInv, TypeOK
  <2>8. PidIsChild' /\ StartIsAlone'
    BY <2>1, <2>3 DEF KillInv, PidIsChild, StartIsAlone, Starting, rowVars, lsnVars, wrkVars,
         TypeInv, Control
  <2>9. \A q \in marked' : wst'[q] # "free"
    BY <2>1 DEF KillInv, wrkVars
  <2> QED
    BY <2>5, <2>6, <2>7, <2>8, <2>9 DEF KillInv
<1>9. ASSUME NEW c \in Clients, Serve(c)
      PROVE  KillInv'
  <2>0. PICK t \in Tasks : t = call[c].task /\ status[t] # "uncreated"
    BY <1>9 DEF Serve, StopKill, StopCancel, Purge, Drop, TypeInv, Control
  <2>4. server = "up"
    BY <1>9 DEF Serve, StopKill, StopCancel, Purge, Drop, KillInv, CallsAreServed
  <2>1. CASE StopKill(c)
    <3>1. /\ UNCHANGED <<rowVars, srvVars, lsnVars, wtask, marked, stopped>>
          /\ call[c].next = "kill" /\ call' = [call EXCEPT ![c].next = "cancelKilled"]
          /\ RemoveTask(t)
      BY <2>0, <2>1 DEF StopKill, histVars
    <3>2. /\ \A d \in Clients : d # c => call'[d] = call[d]
          /\ call'[c].task = t
      BY <2>0, <3>1 DEF TypeInv, TypeOK
    <3>3. \A p \in Pids : wst'[p] \in {wst[p], "ended"} /\ (Alive(p)' => Alive(p))
      BY <3>1 DEF RemoveTask, Alive, Working
    <3>4. /\ \A u \in Tasks : MarkedOf(u)' \subseteq MarkedOf(u)
          /\ \A u \in Tasks : HasRow(u)' = HasRow(u) /\ InFlight(u)' = InFlight(u)
          /\ \A e \in Epochs : Starting(e)' = Starting(e)
      BY <3>1, <3>3 DEF MarkedOf, HasRow, InFlight, Starting, rowVars, lsnVars, TypeInv, TypeOK
    \* The kill hits the marked worker that is alive, if there is one.
    <3>5. HasRow(t) => MarkedOf(t)' = {}
      <4> SUFFICES ASSUME HasRow(t), NEW p \in MarkedOf(t)'
                   PROVE  FALSE
        OBVIOUS
      <4>1. p \in MarkedOf(t) /\ p \in Pids
        BY <3>4 DEF MarkedOf, TypeInv, TypeOK
      <4>2. p = pid[t]
        BY <4>1 DEF KillInv, PidIsMarked
      <4>3. wst'[p] = "ended"
        BY <3>1, <4>1, <4>2 DEF RemoveTask, MarkedOf
      <4> QED
        BY <4>3 DEF MarkedOf, Alive, Working
    <3>6. CancelIsSettled'
      BY <3>2, <3>4, <3>5 DEF KillInv, CancelIsSettled, TypeInv, Control
    <3>7. KillIsSettled'
      BY <2>0, <3>1, <3>2, <3>4 DEF KillInv, KillIsSettled, rowVars, TypeInv, Control
    <3>8. PidIsMarked' /\ PendingIsUnmarked' /\ StopIsSettled'
      BY <3>1, <3>4 DEF KillInv, PidIsMarked, PendingIsUnmarked, StopIsSettled, rowVars,
           TypeInv, TypeOK
    <3>9. PidIsChild' /\ StartIsAlone'
      BY <3>1, <3>4 DEF KillInv, PidIsChild, StartIsAlone, Starting, rowVars, lsnVars,
           TypeInv, Control
    <3>10. CallsAreServed' /\ InitWillKill'
      BY <2>4, <3>1 DEF CallsAreServed, InitWillKill, srvVars
    <3>11. \A q \in marked' : wst'[q] # "free"
      BY <3>1, <3>3 DEF KillInv, TypeInv, TypeOK
    <3> QED
      BY <3>6, <3>7, <3>8, <3>9, <3>10, <3>11 DEF KillInv
  <2>2. CASE StopCancel(c)
    <3>1. /\ UNCHANGED <<pid, srvVars, lsnVars, wrkVars, marked>>
          /\ call[c].next \in {"cancel", "cancelKilled"}
          /\ stopped' = IF call[c].next = "cancelKilled" THEN stopped \cup {t} ELSE stopped
      BY <2>0, <2>2 DEF StopCancel
    <3>2. \A d \in Clients : call'[d].next \in {"kill", "cancelKilled"} => call'[d] = call[d]
      BY <2>2 DEF StopCancel, AfterStop, Idle, TypeInv, TypeOK
    <3>3. /\ \A u \in Tasks : status'[u] = IF u = t /\ HasRow(t) THEN "cancled" ELSE status[u]
          /\ \A u \in Tasks : HasRow(u)' = HasRow(u)
      BY <2>0, <2>2 DEF StopCancel, SetStatus, HasRow, NoRow, TypeInv, TypeOK
    <3>4. /\ \A u \in Tasks : MarkedOf(u)' = MarkedOf(u) /\ InFlight(u)' = InFlight(u)
          /\ \A e \in Epochs : Starting(e)' = Starting(e)
      BY <3>1 DEF MarkedOf, Alive, InFlight, Starting, lsnVars, wrkVars
    <3>5. call[c].next = "cancelKilled" => ~InFlight(t) /\ (HasRow(t) => MarkedOf(t) = {})
      BY <2>0 DEF KillInv, KillIsSettled, CancelIsSettled
    <3>6. status'[t] \notin {"pending", "running", "uncreated"}
      BY <2>0, <3>3 DEF HasRow, NoRow
    <3>7. StopIsSettled'
      <4>1. \A u \in stopped' : u \in stopped \/ (u = t /\ call[c].next = "cancelKilled")
        BY <3>1
      <4>2. \A u \in stopped : u \in Tasks
        BY DEF TypeInv, TypeOK
      <4>3. ASSUME NEW u \in stopped
            PROVE  /\ status'[u] \notin {"pending", "running", "uncreated"}
                   /\ ~InFlight(u)' /\ (HasRow(u)' => MarkedOf(u)' = {})
        BY <3>3, <3>4, <4>2 DEF KillInv, StopIsSettled
      <4> QED
        BY <3>3, <3>4, <3>5, <3>6, <4>1, <4>3 DEF StopIsSettled
    <3>8. KillIsSettled' /\ CancelIsSettled'
      BY <3>2, <3>3, <3>4 DEF KillInv, KillIsSettled, CancelIsSettled, TypeInv, Control
    <3>9. PidIsMarked' /\ PendingIsUnmarked'
      BY <3>1, <3>3, <3>4 DEF KillInv, PidIsMarked, PendingIsUnmarked
    <3>10. PidIsChild' /\ StartIsAlone'
      BY <3>1, <3>3, <3>4 DEF KillInv, PidIsChild, StartIsAlone, Starting, lsnVars, wrkVars,
           TypeInv, Control
    <3>11. CallsAreServed' /\ InitWillKill'
      BY <2>4, <3>1 DEF CallsAreServed, InitWillKill, srvVars
    <3>12. \A q \in marked' : wst'[q] # "free"
      BY <3>1 DEF KillInv, wrkVars
    <3> QED
      BY <3>7, <3>8, <3>9, <3>10, <3>11, <3>12 DEF KillInv
  <2>3. CASE Purge(c) \/ Drop(c)
    <3>1. /\ UNCHANGED <<pid, srvVars, lsnVars, wrkVars, marked, stopped>>
          /\ \A d \in Clients : call'[d].next \in {"kill", "cancelKilled"} => call'[d] = call[d]
      BY <2>3 DEF Purge, Drop, Idle, TypeInv, TypeOK
    <3>2. \A u \in Tasks : /\ HasRow(u)' => HasRow(u)
                           /\ status'[u] \in {status[u], "deleted"}
      BY <2>3 DEF Purge, Drop, SetStatus, HasRow, TypeInv, TypeOK
    <3> QED
      BY <2>4, <3>1, <3>2, KillQuiet DEF srvVars, lsnVars, wrkVars, Alive
  <2> QED
    BY <1>9, <2>1, <2>2, <2>3 DEF Serve
<1>10. CASE UNCHANGED vars
  <2>1. UNCHANGED <<rowVars, srvVars, lsnVars, wrkVars, call, marked, stopped>>
    BY <1>10 DEF vars, histVars
  <2>2. \A c \in Clients : server' # "up" => call'[c].next = "idle"
    BY <2>1 DEF srvVars, KillInv, CallsAreServed
  <2> QED
    BY <2>1, <2>2, KillQuiet DEF rowVars, srvVars, lsnVars, wrkVars, Alive, HasRow
<1> QED
  BY <1>1, <1>2, <1>3, <1>4, <1>5, <1>6, <1>7, <1>8, <1>9, <1>10 DEF Next

LEMMA KillInvariant == Spec => [](TypeInv /\ KillInv)
<1>1. Init => KillInv
  BY LogTaskAssumption DEF Init, Idle, KillInv, PidIsMarked, PidIsChild, PendingIsUnmarked,
     StartIsAlone, InitWillKill, CallsAreServed, KillIsSettled, CancelIsSettled,
     StopIsSettled, MarkedOf, Starting, InFlight
<1> QED
  BY <1>1, KillStep, TypeInvariant, SlotInvariant, PTL DEF Spec

\* A restart cannot leave two workers of a task alive that have both been marked
\* RUNNING: PENDING comes only after the old one has been killed.  (A worker
\* that was started and never marked is another matter: see OneWorker.)
THEOREM MarkedIsAlone == Spec => []OneMarkedWorker
<1>1. TypeInv /\ KillInv => OneMarkedWorker
  <2> SUFFICES ASSUME TypeInv, KillInv, ~ListenerMayOutlive,
                      NEW p \in marked, NEW q \in marked,
                      Alive(p), Alive(q), wtask[p] = wtask[q]
               PROVE  p = q
    BY DEF OneMarkedWorker
  <2>1. wtask[p] \in Tasks
    BY DEF TypeInv, TypeOK, Control, Alive, Working
  <2>2. p \in MarkedOf(wtask[p]) /\ q \in MarkedOf(wtask[p])
    BY DEF MarkedOf
  <2> QED
    BY <2>1, <2>2 DEF KillInv, PidIsMarked
<1> QED
  BY <1>1, KillInvariant, PTL

\* When stop_task has killed and cancelled a task that it found RUNNING, the
\* worker that was marked RUNNING is dead and no later one is ever marked.
THEOREM StopHasKilled == Spec => []StopKills
<1>1. TypeInv /\ KillInv => StopKills
  BY DEF TypeInv, TypeOK, KillInv, StopIsSettled, StopKills, MarkedOf
<1> QED
  BY <1>1, KillInvariant, PTL

-----------------------------------------------------------------------------
(* Refinement: with one listener at a time, the processes implement         *)
(* TaskLife: every statement of theirs is a step of the life of one task, a  *)
(* restart gives work back, and all others are stutters.                     *)

Lives == [t \in Tasks |-> LifeOf(t)]

\* The life of a task is what its row and the listeners say of it.
LEMMA LifeQuiet ==
  ASSUME \A t \in Tasks : status'[t] = status[t] /\ (InFlight(t)' <=> InFlight(t))
  PROVE  Lives' = Lives
<1>1. ASSUME NEW t \in Tasks PROVE LifeOf(t)' = LifeOf(t)
  BY DEF LifeOf, HasRow
<1> QED
  BY <1>1 DEF Lives

\* A step that concerns one task changes the life of no other.
LEMMA LifeOfOne ==
  ASSUME NEW t \in Tasks,
         \A u \in Tasks \ {t} : status'[u] = status[u] /\ (InFlight(u)' <=> InFlight(u))
  PROVE  Lives' = [Lives EXCEPT ![t] = LifeOf(t)']
<1>1. ASSUME NEW u \in Tasks \ {t} PROVE LifeOf(u)' = LifeOf(u)
  BY DEF LifeOf, HasRow
<1> QED
  BY <1>1 DEF Lives

\* Writing a final status ends a task, unless it is being started or has no row.
LEMMA LifeEnds ==
  ASSUME TypeOK, NEW t \in Tasks,
         NEW s \in RowStatus \ {"pending", "running"}, SetStatus(t, s),
         UNCHANGED <<at, child, wtask>>
  PROVE  [Abstract!Next]_Lives
<1>1. \A u \in Tasks : InFlight(u)' <=> InFlight(u)
  BY DEF InFlight, Starting
<1>2. \A u \in Tasks \ {t} : status'[u] = status[u]
  BY DEF SetStatus, TypeOK
<1>3. CASE ~HasRow(t) \/ InFlight(t)
  <2>1. LifeOf(t)' = LifeOf(t)
    <3>1. CASE ~HasRow(t)
      BY <1>1, <3>1 DEF LifeOf, HasRow, SetStatus
    <3>2. CASE HasRow(t) /\ InFlight(t)
      <4>1. status'[t] = s /\ InFlight(t)'
        BY <3>2, <1>1 DEF SetStatus, TypeOK
      <4> QED
        BY <3>2, <4>1 DEF LifeOf, HasRow, NoRow, RowStatus
    <3> QED
      BY <1>3, <3>1, <3>2
  <2>2. Lives' = [Lives EXCEPT ![t] = LifeOf(t)]
    BY <1>1, <1>2, <2>1, LifeOfOne
  <2> QED
    BY <2>2 DEF Lives
<1>4. CASE HasRow(t) /\ ~InFlight(t)
  <2>1. LifeOf(t)' = "ended"
    <3>1. status'[t] = s /\ ~InFlight(t)'
      BY <1>4, <1>1 DEF SetStatus, TypeOK
    <3> QED
      BY <3>1 DEF LifeOf, HasRow, NoRow, RowStatus
  <2>2. Lives' = [Lives EXCEPT ![t] = "ended"]
    BY <1>1, <1>2, <2>1, LifeOfOne
  <2>3. Lives[t] \in {"waiting", "working", "ended"}
    BY <1>4 DEF Lives, LifeOf, HasRow, NoRow
  <2>4. CASE Lives[t] = "ended"
    BY <2>2, <2>4 DEF Lives
  <2>5. CASE Lives[t] \in {"waiting", "working"}
    <3>1. Abstract!Finish(t)
      BY <2>2, <2>5 DEF Abstract!Finish, Abstract!Becomes, Lives
    <3> QED
      BY <3>1 DEF Abstract!Next
  <2> QED
    BY <2>3, <2>4, <2>5
<1> QED
  BY <1>3, <1>4

-----------------------------------------------------------------------------
\* TaskLife counts as LogTaskService does: its FiniteSets is the same module.
LEMMA SameCardinality == \A S : Abstract!Cardinality(S) = Cardinality(S)
BY DEF Abstract!Cardinality, Cardinality

\* A listener that has launched a task marks it, whatever its row says by then.
LEMMA LifeOfListener ==
  ASSUME TypeInv, OneListener, ~ListenerMayOutlive, NEW e \in Epochs, Listen(e)
  PROVE  [Abstract!Next]_Lives
<1> USE DEF TypeInv, TypeOK
<1>1. at[e] # "off"
  BY DEF Listen, SweepRead, SweepTask, PollRead, Launch, Skip, RecordPid, MarkRunning, Sleep
<1>2. \A d \in Epochs : d # e => at[d] = "off"
  BY <1>1 DEF OneListener
<1>3. \A u \in Tasks : InFlight(u) <=> Starting(e) /\ wtask[child[e]] = u
  BY <1>2 DEF InFlight, Starting
<1>4. CASE SweepRead(e) \/ PollRead(e) \/ Skip(e) \/ Sleep(e)
  <2>1. UNCHANGED <<status, child, wtask>>
    BY <1>4 DEF SweepRead, PollRead, Skip, Sleep, rowVars, wrkVars
  <2>2. \A d \in Epochs : Starting(d)' <=> Starting(d)
    BY <1>4 DEF SweepRead, PollRead, Skip, Sleep, Starting
  <2>3. \A u \in Tasks : InFlight(u)' <=> InFlight(u)
    BY <2>1, <2>2 DEF InFlight
  <2> QED
    BY <2>1, <2>3, LifeQuiet
<1>5. CASE RecordPid(e)
  <2>1. UNCHANGED <<status, child, wtask>>
    BY <1>5 DEF RecordPid, wrkVars
  <2>2. \A d \in Epochs : Starting(d)' <=> Starting(d)
    BY <1>5 DEF RecordPid, Starting
  <2>3. \A u \in Tasks : InFlight(u)' <=> InFlight(u)
    BY <2>1, <2>2 DEF InFlight
  <2> QED
    BY <2>1, <2>3, LifeQuiet
<1>6. CASE SweepTask(e)
  <2>1. PICK r \in snap[e] :
           SetStatus(r[1], IF r[2] = "successful_pending_remove" THEN "successful" ELSE "failed")
    BY <1>6 DEF SweepTask
  <2>2. PICK s \in RowStatus \ {"pending", "running"} : SetStatus(r[1], s)
    BY <2>1 DEF RowStatus
  <2>3. r[1] \in Tasks
    OBVIOUS
  <2>4. UNCHANGED <<at, child, wtask>>
    BY <1>6 DEF SweepTask
  <2> QED
    BY <2>2, <2>3, <2>4, LifeEnds
<1>7. CASE Launch(e)
  <2>1. PICK r \in snap[e], p \in Pids :
            /\ CanAdd(r[1])
            /\ wtask' = [wtask EXCEPT ![p] = r[1]]
            /\ child' = [child EXCEPT ![e] = p]
    BY <1>7 DEF Launch
  <2> DEFINE t == r[1]
  <2>2. t \in Tasks
    OBVIOUS
  <2>3. status' = status /\ at' = [at EXCEPT ![e] = "record"] /\ at[e] = "polling"
    BY <1>7 DEF Launch, rowVars
  <2>4. \A u \in Tasks : ~InFlight(u)
    BY <1>3, <2>3 DEF Starting
  <2>5. \A u \in Tasks : InFlight(u)' <=> u = t
    BY <1>2, <2>1, <2>3 DEF InFlight, Starting
  <2>6. status[t] = "pending" /\ HasRow(t)
    BY <2>1 DEF CanAdd, HasRow, NoRow
  <2>7. LifeOf(t) = "waiting" /\ LifeOf(t)' = "working"
    BY <2>2, <2>3, <2>4, <2>5, <2>6 DEF LifeOf, HasRow
  <2>8. Lives' = [Lives EXCEPT ![t] = "working"]
    BY <2>2, <2>3, <2>4, <2>5, <2>7, LifeOfOne
  <2>9. {u \in Tasks : Lives[u] = "working"} = Rows({"running"})
    BY <2>4 DEF Lives, LifeOf, Rows, HasRow, NoRow
  <2>10. Cardinality(Rows({"running"})) < CpuUseLimit
    BY <2>1 DEF CanAdd
  <2> HIDE DEF t
  <2>11. Abstract!Start(t)
    BY <2>2, <2>7, <2>8, <2>9, <2>10, SameCardinality DEF Abstract!Start, Abstract!In, Abstract!Becomes, Lives
  <2> QED
    BY <2>2, <2>11 DEF Abstract!Next
<1>8. CASE MarkRunning(e)
  <2>1. PICK t \in Tasks : Starting(e) /\ t = wtask[child[e]]
    BY <1>8 DEF MarkRunning, Starting, Control
  <2>2. status' = IF HasRow(t) THEN [status EXCEPT ![t] = "running"] ELSE status
    BY <1>8, <2>1 DEF MarkRunning, SetStatus
  <2>3. at' = [at EXCEPT ![e] = "polling"] /\ wtask' = wtask
    BY <1>8 DEF MarkRunning, wrkVars
  <2>4. \A u \in Tasks : (InFlight(u) <=> u = t) /\ ~InFlight(u)'
    BY <1>2, <1>3, <2>1, <2>3 DEF InFlight, Starting
  <2>5. \A u \in Tasks \ {t} : status'[u] = status[u] /\ (InFlight(u)' <=> InFlight(u))
    BY <2>1, <2>2, <2>4
  <2>6. LifeOf(t)' = LifeOf(t)
    <3>1. CASE HasRow(t)
      <4>1. status'[t] = "running"
        BY <2>1, <2>2, <3>1
      <4> QED
        BY <2>1, <2>4, <3>1, <4>1 DEF LifeOf, HasRow, NoRow
    <3>2. CASE ~HasRow(t)
      BY <2>2, <3>2 DEF LifeOf, HasRow
    <3> QED
      BY <3>1, <3>2
  <2>7. Lives' = [Lives EXCEPT ![t] = LifeOf(t)]
    BY <2>1, <2>5, <2>6, LifeOfOne
  <2> QED
    BY <2>7 DEF Lives
<1> QED
  BY <1>4, <1>5, <1>6, <1>7, <1>8 DEF Listen

\* Starting and stopping the service gives work back or ends it.
LEMMA LifeOfServer ==
  ASSUME TypeInv, OneListener, ~ListenerMayOutlive,
         \/ ServerStart \/ InitRemove \/ InitReset
         \/ \E kl, kw \in BOOLEAN : ServerStop(kl, kw)
  PROVE  [Abstract!Next]_Lives
<1> USE DEF TypeInv, TypeOK
<1>1. CASE ServerStart \/ InitRemove
  <2>1. UNCHANGED <<status, at, child, wtask>>
    BY <1>1 DEF ServerStart, InitRemove, rowVars, lsnVars, wrkVars
  <2>2. \A u \in Tasks : InFlight(u)' <=> InFlight(u)
    BY <2>1 DEF InFlight, Starting
  <2> QED
    BY <2>1, <2>2, LifeQuiet
<1>2. CASE InitReset
  <2> DEFINE S == Rows({"running"})
  <2>1. /\ status' = [t \in Tasks |-> IF status[t] = "running" THEN "pending" ELSE status[t]]
        /\ at' = [at EXCEPT ![epoch] = "sweep"] /\ UNCHANGED <<child, wtask>> /\ server = "init"
    BY <1>2 DEF InitReset, wrkVars
  <2>2. \A u \in Tasks : ~InFlight(u) /\ ~InFlight(u)'
    BY <2>1 DEF OneListener, InFlight, Starting
  <2>3. ASSUME NEW u \in Tasks
        PROVE  LifeOf(u)' = IF u \in S THEN "waiting" ELSE LifeOf(u)
    BY <2>1, <2>2 DEF LifeOf, HasRow, NoRow, Rows
  <2>4. S \subseteq {u \in Tasks : Lives[u] = "working"}
    BY DEF Lives, LifeOf, Rows, HasRow, NoRow
  <2>5. Lives' = [u \in Tasks |-> IF u \in S THEN "waiting" ELSE Lives[u]]
    BY <2>3 DEF Lives
  <2>6. S \in SUBSET Tasks
    BY DEF Rows
  <2> HIDE DEF S
  <2>7. Abstract!GiveBack(S)
    BY <2>4, <2>5 DEF Abstract!GiveBack, Abstract!In, Lives
  <2> QED
    BY <2>6, <2>7 DEF Abstract!Next
<1>3. ASSUME NEW kl \in BOOLEAN, NEW kw \in BOOLEAN, ServerStop(kl, kw)
      PROVE  [Abstract!Next]_Lives
  <2>1. status' = status /\ wtask' = wtask /\ \A d \in Epochs : at'[d] = "off"
    BY <1>3 DEF ServerStop, rowVars, OneListener
  <2>2. \A u \in Tasks : ~InFlight(u)'
    BY <2>1 DEF InFlight, Starting
  <2>3. CASE \A u \in Tasks : ~InFlight(u)
    BY <2>1, <2>2, <2>3, LifeQuiet
  <2>4. ASSUME NEW t \in Tasks, InFlight(t)
        PROVE  [Abstract!Next]_Lives
    <3>1. \A u \in Tasks \ {t} : ~InFlight(u)
      BY <2>4 DEF InFlight, Starting, OneListener
    <3>2. Lives' = [Lives EXCEPT ![t] = LifeOf(t)']
      BY <2>1, <2>2, <3>1, LifeOfOne
    <3>3. CASE LifeOf(t)' = LifeOf(t)
      BY <3>2, <3>3 DEF Lives
    <3>4. CASE LifeOf(t)' = "waiting" /\ LifeOf(t) = "working"
      <4>1. {t} \subseteq {u \in Tasks : Lives[u] = "working"}
        BY <3>4 DEF Lives
      <4>2. Lives' = [u \in Tasks |-> IF u \in {t} THEN "waiting" ELSE Lives[u]]
        BY <3>2, <3>4 DEF Lives
      <4>3. Abstract!GiveBack({t})
        BY <4>1, <4>2 DEF Abstract!GiveBack, Abstract!In, Lives
      <4> QED
        BY <4>3 DEF Abstract!Next
    <3>5. CASE LifeOf(t)' = "ended" /\ LifeOf(t) = "working"
      <4>1. Lives[t] \in {"waiting", "working"} /\ Lives' = [Lives EXCEPT ![t] = "ended"]
        BY <3>2, <3>5 DEF Lives
      <4>2. Abstract!Finish(t)
        BY <4>1 DEF Abstract!Finish, Abstract!Becomes, Lives
      <4> QED
        BY <4>2 DEF Abstract!Next
    <3> QED
      BY <2>1, <2>2, <2>4, <3>3, <3>4, <3>5 DEF LifeOf, HasRow
  <2> QED
    BY <2>3, <2>4
<1> QED
  BY <1>1, <1>2, <1>3

\* A worker, alive or not wanted any more, can only end the task of its row.
LEMMA LifeOfWorker ==
  ASSUME TypeInv, NEW p \in Pids, Work(p) \/ WorkerDie(p)
  PROVE  [Abstract!Next]_Lives
<1> USE DEF TypeInv, TypeOK
<1>1. UNCHANGED <<at, child, wtask>>
  BY DEF Work, WorkerBoot, WorkerInsert, WorkerReport, WorkerFail, WorkerDie, lsnVars
<1>2. CASE WorkerBoot(p) \/ WorkerInsert(p) \/ WorkerDie(p)
  <2>1. status' = status
    BY <1>2 DEF WorkerBoot, WorkerInsert, WorkerDie, rowVars
  <2>2. \A u \in Tasks : InFlight(u)' <=> InFlight(u)
    BY <1>1 DEF InFlight, Starting
  <2> QED
    BY <2>1, <2>2, LifeQuiet
<1>3. CASE WorkerReport(p) \/ WorkerFail(p)
  <2>1. PICK t \in Tasks : t = wtask[p]
    BY <1>3 DEF WorkerReport, WorkerFail, Control
  <2>2. PICK s \in RowStatus \ {"pending", "running"} : SetStatus(t, s)
    BY <1>3, <2>1 DEF WorkerReport, WorkerFail, RowStatus
  <2> QED
    BY <1>1, <2>2, LifeEnds
<1> QED
  BY <1>2, <1>3 DEF Work

\* A call submits, ends or deletes a task, or leaves it alone.
LEMMA LifeOfCall ==
  ASSUME TypeInv,
         \/ \E t \in Tasks : CreateTask(t)
         \/ \E c \in Clients, op \in {"stop", "delete"}, t \in Tasks : StopRead(c, op, t)
         \/ \E c \in Clients : Serve(c)
  PROVE  [Abstract!Next]_Lives
<1> USE DEF TypeInv, TypeOK
<1>1. UNCHANGED <<at, child, wtask>>
  BY DEF CreateTask, StopRead, Serve, StopKill, StopCancel, Purge, Drop, lsnVars, wrkVars
<1>2. \A u \in Tasks : InFlight(u)' <=> InFlight(u)
  BY <1>1 DEF InFlight, Starting
<1>3. ASSUME NEW t \in Tasks, CreateTask(t)
      PROVE  [Abstract!Next]_Lives
  <2>1. status[t] = "uncreated" /\ status' = [status EXCEPT ![t] = "pending"]
    BY <1>3 DEF CreateTask
  <2>2. ~InFlight(t)
    BY <2>1 DEF InFlight, Control
  <2>3. LifeOf(t) = "absent" /\ LifeOf(t)' = "waiting"
    BY <1>2, <2>1, <2>2 DEF LifeOf, HasRow, NoRow
  <2>4. Lives' = [Lives EXCEPT ![t] = "waiting"]
    BY <1>2, <2>1, <2>3, LifeOfOne
  <2>5. Abstract!Submit(t)
    BY <2>3, <2>4 DEF Abstract!Submit, Abstract!Becomes, Lives
  <2> QED
    BY <2>5 DEF Abstract!Next
<1>4. CASE \E c \in Clients, op \in {"stop", "delete"}, t \in Tasks : StopRead(c, op, t)
  BY <1>2, <1>4, LifeQuiet DEF StopRead, rowVars
<1>5. ASSUME NEW c \in Clients, StopKill(c) \/ Purge(c)
      PROVE  [Abstract!Next]_Lives
  BY <1>2, <1>5, LifeQuiet DEF StopKill, Purge, rowVars
<1>6. ASSUME NEW c \in Clients, StopCancel(c)
      PROVE  [Abstract!Next]_Lives
  <2>1. PICK t \in Tasks : t = call[c].task
    BY <1>6 DEF StopCancel, Control
  <2>2. SetStatus(t, "cancled")
    BY <1>6, <2>1 DEF StopCancel
  <2> QED
    BY <1>1, <2>2, LifeEnds DEF RowStatus
<1>7. ASSUME NEW c \in Clients, Drop(c)
      PROVE  [Abstract!Next]_Lives
  <2>1. PICK t \in Tasks : t = call[c].task /\ status[t] # "uncreated"
    BY <1>7 DEF Drop, Control
  <2>2. SetStatus(t, "deleted")
    BY <1>7, <2>1 DEF Drop
  <2>3. status'[t] = "deleted"
    BY <2>1, <2>2 DEF SetStatus, HasRow, NoRow
  <2>4. \A u \in Tasks \ {t} : status'[u] = status[u]
    BY <2>2 DEF SetStatus
  <2>5. LifeOf(t) # "absent" /\ LifeOf(t)' = "deleted"
    BY <2>1, <2>3 DEF LifeOf, HasRow, NoRow
  <2>6. Lives' = [Lives EXCEPT ![t] = "deleted"]
    BY <1>2, <2>4, <2>5, LifeOfOne
  <2>7. Abstract!Delete(t)
    BY <2>5, <2>6 DEF Abstract!Delete, Abstract!Becomes, Lives
  <2> QED
    BY <2>7 DEF Abstract!Next
<1> QED
  BY <1>3, <1>4, <1>5, <1>6, <1>7 DEF Serve

-----------------------------------------------------------------------------
\* With one listener at a time the service implements TaskLife: never more
\* tasks at work than slots, although the slots are counted two statements
\* before a task takes one; nothing that has ended starts again, although four
\* kinds of process write its row without reading it first; and only a start
\* or an end of the service puts work back into the queue.
THEOREM ServiceImplementsLife ==
  ASSUME ~ListenerMayOutlive
  PROVE  Spec => ServicePromise
<1>1. Init => Abstract!Init
  BY DEF Init, Abstract!Init, LifeOf, HasRow, NoRow
<1>2. TypeInv /\ OneListener /\ [Next]_vars => [Abstract!Next]_([t \in Tasks |-> LifeOf(t)])
  <2> SUFFICES ASSUME TypeInv, OneListener, [Next]_vars
               PROVE  [Abstract!Next]_Lives
    BY DEF Lives
  <2>1. CASE \/ ServerStart \/ InitRemove \/ InitReset
             \/ \E kl, kw \in BOOLEAN : ServerStop(kl, kw)
    BY <2>1, LifeOfServer
  <2>2. CASE \E e \in Epochs : Listen(e)
    BY <2>2, LifeOfListener
  <2>3. CASE \E p \in Pids : Work(p) \/ WorkerDie(p)
    BY <2>3, LifeOfWorker
  <2>4. CASE \/ \E t \in Tasks : CreateTask(t)
             \/ \E c \in Clients, op \in {"stop", "delete"}, t \in Tasks : StopRead(c, op, t)
             \/ \E c \in Clients : Serve(c)
    BY <2>4, LifeOfCall
  <2>5. CASE UNCHANGED vars
    <3>1. UNCHANGED <<status, at, child, wtask>>
      BY <2>5 DEF vars, rowVars, lsnVars, wrkVars
    <3>2. \A u \in Tasks : InFlight(u)' <=> InFlight(u)
      BY <3>1 DEF InFlight, Starting
    <3> QED
      BY <3>1, <3>2, LifeQuiet
  <2> QED
    BY <2>1, <2>2, <2>3, <2>4, <2>5 DEF Next
<1> QED
  BY <1>1, <1>2, TypeInvariant, SlotInvariant, PTL DEF Spec, ServicePromise, Abstract!Spec

\* The inductive invariant holds always: the parts above, for every number of
\* tasks, workers, clients and lifetimes.
THEOREM InductiveInvariant == Spec => []InductiveInv
BY TypeInvariant, LaunchInvariant, ResultInvariant, SlotInvariant, KillInvariant, PTL
   DEF InductiveInv
=============================================================================
