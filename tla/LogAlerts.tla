------------------------------ MODULE LogAlerts ------------------------------
(***************************************************************************)
(* send_alert of buddy-log-analyzer: several processes (cron jobs) analyse *)
(* log files and share one cooldown file, guarded by a lock file, so that  *)
(* the same error is not alerted twice in five minutes.  Writing the small *)
(* temporary file is one step; nobody but the renaming process reads it.   *)
(***************************************************************************)
EXTENDS Naturals, Sequences, SequencesExt

CONSTANTS
  Analysts,      \* the processes
  LogFiles,      \* the files they analyse
  P0Counts,      \* the numbers of critical events found, 0 among them
  Cooldown,      \* ticks an error stays quiet (5 minutes)
  KeptEntries,   \* entries of the cooldown file (20)
  LockWaits,     \* looks at the lock file (10)
  PostTries,     \* posts of a webhook (3)
  MaxNow, MaxRuns,
  MaxOverlapping \* runs begun in a behaviour once two have overlapped

ASSUME AlertsAssumption == /\ P0Counts \subseteq Nat
                           /\ {Cooldown, KeptEntries} \subseteq Nat \ {0}

VARIABLES
  now,           \* the clock
  cooling,       \* the cooldown file: a sequence of [file, p0, ts]
  tmpFile,       \* the temporary file: such a sequence, <<>> when there is none
  lockFile,      \* TRUE while the lock file exists
  analyst,       \* per process: its place in send_alert and what it read
  alerts,        \* ghost: the alerts of the last Cooldown ticks
  orderly,       \* ghost: no two processes were in send_alert at once, none was killed
  runs

laVars == <<now, cooling, tmpFile, lockFile, analyst, alerts, orderly, runs>>

AtRest == [pc |-> "idle", file |-> "", p0 |-> 0, tries |-> 0, read |-> <<>>]

LaInit ==
  /\ now = 0 /\ cooling = <<>> /\ tmpFile = <<>> /\ lockFile = FALSE
  /\ analyst = [p \in Analysts |-> AtRest]
  /\ alerts = {} /\ orderly = TRUE /\ runs = 0

(* analyze: a scan found n critical events; with none no alert is sent.      *)
Analyse(p, f, n) ==
  /\ analyst[p].pc = "idle" /\ runs < (IF orderly THEN MaxRuns ELSE MaxOverlapping)
  /\ runs' = runs + 1
  /\ analyst' = IF n = 0 THEN analyst
                ELSE [analyst EXCEPT ![p] = [AtRest EXCEPT !.pc = "check", !.file = f, !.p0 = n]]
  /\ orderly' = (orderly /\ (n = 0 \/ \A q \in Analysts \ {p} : analyst[q].pc = "idle"))
  /\ UNCHANGED <<now, cooling, tmpFile, lockFile, alerts>>

(* Mutant: the cooldown is compared in the wrong unit and ends early.        *)
SuppressedBriefly(p) ==
  \E e \in Range(cooling) : /\ e.file = analyst[p].file /\ e.p0 = analyst[p].p0
                            /\ now - e.ts < Cooldown \div 2

(* _is_alert_suppressed: the same file with as many critical events, lately. *)
Suppressed(p) ==
  \E e \in Range(cooling) : /\ e.file = analyst[p].file /\ e.p0 = analyst[p].p0
                            /\ now - e.ts < Cooldown

Alert(p) == [file |-> analyst[p].file, p0 |-> analyst[p].p0, ts |-> now]

StaysQuiet(p) ==
  /\ analyst[p].pc = "check" /\ Suppressed(p)
  /\ analyst' = [analyst EXCEPT ![p] = AtRest]
  /\ UNCHANGED <<now, cooling, tmpFile, lockFile, alerts, orderly, runs>>

Alerts(p) ==
  /\ analyst[p].pc = "check" /\ ~Suppressed(p)
  /\ alerts' = alerts \cup {[file |-> analyst[p].file, p0 |-> analyst[p].p0, ts |-> now, run |-> runs]}
  /\ analyst' = [analyst EXCEPT ![p].pc = "look"]
  /\ UNCHANGED <<now, cooling, tmpFile, lockFile, orderly, runs>>

(* _save_alert_sent looks for the lock file; touch() does not fail when      *)
(* another process has made it meanwhile.                                    *)
LookFree(p) ==
  /\ analyst[p].pc = "look" /\ ~lockFile
  /\ analyst' = [analyst EXCEPT ![p].pc = "touch", ![p].tries = 0]
  /\ UNCHANGED <<now, cooling, tmpFile, lockFile, alerts, orderly, runs>>

LookTaken(p) ==
  /\ analyst[p].pc = "look" /\ lockFile
  /\ analyst' = IF analyst[p].tries + 1 < LockWaits
                THEN [analyst EXCEPT ![p].tries = @ + 1]
                ELSE [analyst EXCEPT ![p].pc = "unlink", ![p].tries = 0]
  /\ UNCHANGED <<now, cooling, tmpFile, lockFile, alerts, orderly, runs>>

TouchLock(p) ==
  /\ analyst[p].pc = "touch"
  /\ lockFile' = TRUE
  /\ analyst' = [analyst EXCEPT ![p].pc = "read"]
  /\ UNCHANGED <<now, cooling, tmpFile, alerts, orderly, runs>>

Newest(entries) == IF Len(entries) <= KeptEntries THEN entries
                   ELSE SubSeq(entries, Len(entries) - KeptEntries + 1, Len(entries))

ReadCooling(p) ==
  /\ analyst[p].pc = "read"
  /\ analyst' = [analyst EXCEPT ![p].pc = "write", ![p].read = Newest(Append(cooling, Alert(p)))]
  /\ UNCHANGED <<now, cooling, tmpFile, lockFile, alerts, orderly, runs>>

WriteTmp(p) ==
  /\ analyst[p].pc = "write"
  /\ tmpFile' = analyst[p].read
  /\ analyst' = [analyst EXCEPT ![p].pc = "rename", ![p].read = <<>>]
  /\ UNCHANGED <<now, cooling, lockFile, alerts, orderly, runs>>

(* rename fails, unnoticed, when another process took the temporary file.    *)
RenameTmp(p) ==
  /\ analyst[p].pc = "rename"
  /\ cooling' = IF tmpFile = <<>> THEN cooling ELSE tmpFile
  /\ tmpFile' = <<>>
  /\ analyst' = [analyst EXCEPT ![p].pc = "unlink"]
  /\ UNCHANGED <<now, lockFile, alerts, orderly, runs>>

(* The finally clause removes the lock file, whoever made it.                *)
UnlinkLock(p) ==
  /\ analyst[p].pc = "unlink"
  /\ lockFile' = FALSE
  /\ analyst' = [analyst EXCEPT ![p].pc = "post"]
  /\ UNCHANGED <<now, cooling, tmpFile, alerts, orderly, runs>>

(* The report is written and posted: refused (a bad path or URL, HTTP 4xx)   *)
(* and accepted both end it; HTTP 5xx and a timeout are tried again.         *)
Post(p, answer) ==
  /\ analyst[p].pc = "post"
  /\ analyst' = IF answer = "again" /\ analyst[p].tries + 1 < PostTries
                THEN [analyst EXCEPT ![p].tries = @ + 1]
                ELSE [analyst EXCEPT ![p] = AtRest]
  /\ UNCHANGED <<now, cooling, tmpFile, lockFile, alerts, orderly, runs>>

Killed(p) ==
  /\ analyst[p].pc # "idle"
  /\ analyst' = [analyst EXCEPT ![p] = AtRest]
  /\ orderly' = FALSE
  /\ UNCHANGED <<now, cooling, tmpFile, lockFile, alerts, runs>>

Minute == /\ now < MaxNow
          /\ now' = now + 1
          /\ alerts' = {a \in alerts : now + 1 - a.ts < Cooldown}
          /\ UNCHANGED <<cooling, tmpFile, lockFile, analyst, orderly, runs>>

LaNext ==
  \/ \E p \in Analysts :
       \/ \E f \in LogFiles, n \in P0Counts : Analyse(p, f, n)
       \/ StaysQuiet(p) \/ Alerts(p) \/ LookFree(p) \/ LookTaken(p) \/ TouchLock(p)
       \/ ReadCooling(p) \/ WriteTmp(p) \/ RenameTmp(p) \/ UnlinkLock(p)
       \/ \E answer \in {"final", "again"} : Post(p, answer)
       \/ Killed(p)
  \/ Minute
-----------------------------------------------------------------------------
Repeats == {pair \in alerts \X alerts :
              /\ pair[1].file = pair[2].file /\ pair[1].p0 = pair[2].p0
              /\ pair[1].run < pair[2].run /\ pair[2].ts - pair[1].ts < Cooldown}

(* While the analyses come one after another and none is killed, the same    *)
(* error of a file is alerted once in the cooldown, and no lock file and no  *)
(* temporary file is left behind.                                            *)
QuietWindow ==
  orderly => /\ Repeats = {}
             /\ ((\A p \in Analysts : analyst[p].pc = "idle") => ~lockFile /\ tmpFile = <<>>)

(* Not so once they overlap: the check and the save are not one step.        *)
OnceInWindow == Repeats = {}
=============================================================================
