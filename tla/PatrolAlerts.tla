----------------------------- MODULE PatrolAlerts -----------------------------
(***************************************************************************)
(* The patrol scheduler and the alert manager of the ops-maintenance skill *)
(* (utils/patrol-scheduler.ts, utils/alert-manager.ts, the executor in     *)
(* index.ts): one job that checks one value of one server, run by its      *)
(* timer and by hand, whose measurements the alert rules of that type      *)
(* judge.  A run awaits the check, so runs overlap.                        *)
(***************************************************************************)
EXTENDS Integers, FiniteSets, FiniteSetsExt

CONSTANTS Levels,     \* values a check measures: 0..n, 0 for healthy
          Threshold,  \* rule -> the value from which it is breached
          Repeat,     \* repeatInterval
          Timers,     \* bound: names of intervals, a set of numbers
          Runs,       \* bound: runs of the job under way
          PaTime,     \* bound: the clock runs from 0 to PaTime
          PaSteps     \* bound: operator's calls

PaRules == DOMAIN Threshold
ASSUME PatrolAssumption == /\ 0 \in Levels /\ Levels \subseteq Nat /\ {Repeat, PaTime, PaSteps} \subseteq Nat
                           /\ IsFiniteSet(PaRules) /\ \A r \in PaRules : Threshold[r] \in Nat \ {0}

VARIABLES paNow, paLevel,    \* the clock, the true value
          paAlerts, paSaved,         \* rule -> its alert, in memory and in alerts.json
          paRules,                   \* rules enabled
          paJob,                     \* [listed, enabled, timer]: the job and its entry in the timers map
          paLive,                    \* intervals that fire
          paOn,                      \* isRunning
          paRuns,                    \* run -> Idle, Asked or the value measured
          paCalls,                   \* calls made
          paLast, paQuiet,           \* history: last notice of an alert that keeps firing; silenced until
          paBad                      \* history: notices sent too soon or while silenced
alertVars == <<paAlerts, paSaved, paLast, paQuiet, paBad>>
jobVars == <<paJob, paLive, paOn>>
paVars == <<paNow, paLevel, alertVars, paRules, jobVars, paRuns, paCalls>>

Idle == -1
Asked == -2
Absent == [status |-> "none", notifyAt |-> 0, until |-> 0]
Never == -Repeat
PaInit == /\ paNow = 0 /\ paLevel = 0
          /\ paAlerts = [r \in PaRules |-> Absent] /\ paSaved = paAlerts
          /\ paLast = [r \in PaRules |-> Never] /\ paQuiet = [r \in PaRules |-> 0] /\ paBad = {}
          /\ paRules = PaRules
          /\ paJob = [listed |-> TRUE, enabled |-> TRUE, timer |-> 0]
          /\ paLive = {} /\ paOn = FALSE
          /\ paRuns = [x \in Runs |-> Idle] /\ paCalls = 0

(* The server and the clock.                                                 *)
World == /\ \/ paNow < PaTime /\ paNow' = paNow + 1 /\ UNCHANGED paLevel
            \/ paLevel' \in Levels \ {paLevel} /\ UNCHANGED paNow
         /\ UNCHANGED <<alertVars, paRules, jobVars, paRuns, paCalls>>

(* One run of executeJob: started by an interval or by hand, it asks the     *)
(* server, and judges the answer when it arrives.  A check that fails        *)
(* reports the value 0 with its error (index.ts).                            *)
FreeRuns == {x \in Runs : paRuns[x] = Idle}
BeginRun == \E x \in FreeRuns : paRuns' = [paRuns EXCEPT ![x] = Asked]
Fire(t) == /\ t \in paLive /\ BeginRun
           /\ UNCHANGED <<paNow, paLevel, alertVars, paRules, jobVars, paCalls>>
Measure(x, reached) ==
  /\ paRuns[x] = Asked /\ paRuns' = [paRuns EXCEPT ![x] = IF reached THEN paLevel ELSE 0]
  /\ UNCHANGED <<paNow, paLevel, alertVars, paRules, jobVars, paCalls>>

(* evaluate: from the highest threshold down, rules not reached resolve what *)
(* they had firing, and the first one breached decides and ends the round.   *)
Breached(value) == {r \in paRules : value >= Threshold[r]}
Top(value) == CHOOSE r \in Breached(value) : \A s \in Breached(value) : Threshold[s] <= Threshold[r]
Cleared(value) == {r \in paRules \ Breached(value) : paAlerts[r].status = "firing"}
NewAlert == [status |-> "firing", notifyAt |-> paNow, until |-> 0]
Due(r) == CASE paAlerts[r].status = "firing"   -> paNow - paAlerts[r].notifyAt >= Repeat
            [] paAlerts[r].status = "silenced" -> paAlerts[r].until <= paNow
            [] OTHER -> TRUE
Notices(value) == IF Breached(value) = {} THEN {} ELSE {r \in {Top(value)} : Due(r)}
Judged(value) ==
  [r \in PaRules |-> IF r \in Cleared(value) THEN [paAlerts[r] EXCEPT !.status = "resolved"]
                     ELSE IF r \in Notices(value) THEN NewAlert ELSE paAlerts[r]]
\* mutant: a repeated notice is not saved
SavedNewOnly(value) == [r \in PaRules |-> IF r \in Notices(value) /\ paAlerts[r].status = "firing"
                                          THEN paSaved[r] ELSE Judged(value)[r]]
SavedAlerts(value) == Judged(value)
Judge(x) ==
  /\ paRuns[x] \in Levels
  /\ LET value == paRuns[x] IN
     /\ paAlerts' = Judged(value)
     /\ paSaved' = SavedAlerts(value)
     /\ paBad' = paBad \cup {<<"soon", r>> : r \in {s \in Notices(value) : paNow - paLast[s] < Repeat}}
                       \cup {<<"quiet", r>> : r \in {s \in Notices(value) : paNow < paQuiet[s]}}
     /\ paLast' = [r \in PaRules |-> IF r \in Notices(value) THEN paNow
                                     ELSE IF r \in Cleared(value) THEN Never ELSE paLast[r]]
  /\ paRuns' = [paRuns EXCEPT ![x] = Idle]
  /\ UNCHANGED <<paNow, paLevel, paQuiet, paRules, jobVars, paCalls>>

(* startJobTimer and stopJobTimer; the map keeps one interval of the job.    *)
Call == paCalls < PaSteps /\ paCalls' = paCalls + 1
Started(live) == LET t == Min(Timers \ live) IN
  /\ Timers \ live # {} /\ BeginRun
  /\ paLive' = live \cup {t}
  /\ paJob' = [paJob EXCEPT !.enabled = TRUE, !.listed = TRUE, !.timer = t]
StopTimer == paLive \ {paJob.timer}
JobCall(enabled) == UNCHANGED <<paNow, paLevel, alertVars, paRules>> /\ Call

Start == /\ JobCall(TRUE) /\ ~paOn /\ paOn' = TRUE
         /\ IF paJob.listed /\ paJob.enabled THEN Started(paLive) ELSE UNCHANGED <<paJob, paLive, paRuns>>
Stop == /\ JobCall(TRUE) /\ paOn' = FALSE
        /\ paLive' = StopTimer /\ paJob' = [paJob EXCEPT !.timer = 0]
        /\ UNCHANGED paRuns
ToggleJob(enabled) ==
  /\ JobCall(enabled) /\ paJob.listed /\ UNCHANGED paOn
  /\ CASE paOn /\ enabled  -> Started(paLive)
       [] paOn /\ ~enabled -> /\ paLive' = StopTimer /\ UNCHANGED paRuns
                              /\ paJob' = [paJob EXCEPT !.enabled = FALSE, !.timer = 0]
       [] ~paOn -> paJob' = [paJob EXCEPT !.enabled = enabled] /\ UNCHANGED <<paLive, paRuns>>
UpsertJob(enabled) ==
  /\ JobCall(enabled) /\ UNCHANGED paOn
  /\ IF paOn /\ enabled THEN Started(IF paJob.listed THEN StopTimer ELSE paLive)
     ELSE paJob' = [paJob EXCEPT !.enabled = enabled, !.listed = TRUE] /\ UNCHANGED <<paLive, paRuns>>
RemoveJob == /\ JobCall(FALSE) /\ paJob.listed /\ UNCHANGED <<paOn, paRuns>>
             /\ paLive' = StopTimer /\ paJob' = [listed |-> FALSE, enabled |-> FALSE, timer |-> 0]
RunJobNow == /\ JobCall(TRUE) /\ paJob.listed /\ BeginRun /\ UNCHANGED jobVars

(* The operator's calls on alerts; each one that changes an alert saves all. *)
Silence(r, until) ==
  /\ Call /\ paAlerts[r].status # "none"
  /\ paAlerts' = [paAlerts EXCEPT ![r].status = "silenced", ![r].until = until]
  /\ paSaved' = paAlerts'
  /\ paQuiet' = [paQuiet EXCEPT ![r] = until] /\ paLast' = [paLast EXCEPT ![r] = Never]
  /\ UNCHANGED <<paNow, paLevel, paRules, jobVars, paRuns, paBad>>
Unsilence(r) ==
  /\ Call /\ paAlerts[r].status = "silenced"
  /\ paAlerts' = [paAlerts EXCEPT ![r].status = "firing", ![r].until = 0]
  /\ paSaved' = paAlerts'
  /\ paQuiet' = [paQuiet EXCEPT ![r] = 0]
  /\ UNCHANGED <<paNow, paLevel, paRules, jobVars, paRuns, paLast, paBad>>
Cleanup(r) ==
  /\ Call /\ paAlerts[r].status = "resolved"
  /\ paAlerts' = [paAlerts EXCEPT ![r] = Absent] /\ paSaved' = paAlerts'
  /\ UNCHANGED <<paNow, paLevel, paRules, jobVars, paRuns, paLast, paQuiet, paBad>>
ToggleRule(r) ==
  /\ Call /\ paRules' = IF r \in paRules THEN paRules \ {r} ELSE paRules \cup {r}
  /\ UNCHANGED <<paNow, paLevel, alertVars, jobVars, paRuns>>

(* The process ends and another loads the files: jobs, rules and alerts.     *)
Restart == /\ Call
           /\ paAlerts' = paSaved /\ paOn' = FALSE /\ paLive' = {}
           /\ paJob' = [paJob EXCEPT !.timer = 0] /\ paRuns' = [x \in Runs |-> Idle]
           /\ UNCHANGED <<paNow, paLevel, paSaved, paLast, paQuiet, paBad, paRules>>

PaNext == \/ World \/ Start \/ Stop \/ RemoveJob \/ RunJobNow \/ Restart
          \/ \E t \in Timers : Fire(t)
          \/ \E x \in Runs : Judge(x) \/ \E reached \in BOOLEAN : Measure(x, reached)
          \/ \E e \in BOOLEAN : ToggleJob(e) \/ UpsertJob(e)
          \/ \E r \in PaRules : Unsilence(r) \/ Cleanup(r) \/ ToggleRule(r) \/ \E d \in 1..2 : Silence(r, paNow + d)

(* An alert that keeps firing is repeated no sooner than repeatInterval, and *)
(* a silenced rule sends nothing before its time unless it is unsilenced:    *)
(* whatever runs overlap and however often the process restarts.             *)
NoticesKept == paBad = {}
(* While the scheduler runs, an enabled job has an interval that fires, and  *)
(* it is the one the timers map can stop.                                    *)
EnabledIsScheduled == paOn /\ paJob.listed /\ paJob.enabled => paJob.timer \in paLive
(* Both: calls, overlapping runs and restarts in any order keep to the plan. *)
PatrolIsKept == NoticesKept /\ EnabledIsScheduled
(* stop() is documented to stop the scheduler: no interval is left behind.   *)
StoppedIsQuiet == ~paOn => paLive = {}
(* "threshold back to normal" (alert-manager.ts:403): an alert is resolved   *)
(* only while the server's true value is below the rule's threshold.         *)
ResolvedIsReal == [][\A r \in PaRules : paAlerts[r].status = "firing" /\ paAlerts'[r].status = "resolved"
                                        => paLevel < Threshold[r]]_paVars
=============================================================================
