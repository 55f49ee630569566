------------------------------- MODULE OpsProofs -------------------------------
(***************************************************************************)
(* Proofs about the patrol and its alerts (PatrolAlerts), for any rules,   *)
(* thresholds, overlapping runs and any number of calls and restarts,      *)
(* about the experience base (ExperienceBase), for any number of           *)
(* experiences and of commands that follow one another, about an           *)
(* incremental dataset (Watermark), for any number of items, dates, pages  *)
(* and rounds, and about the mailing list dataset (EmailShards), for any   *)
(* archive, batch size and number of parts per round.                      *)
(***************************************************************************)
EXTENDS PatrolAlerts, ExperienceBase, Watermark, EmailShards, RecursionLemmas

PatrolSpec == PaInit /\ [][PaNext]_paVars

-----------------------------------------------------------------------------
(* An alert as evaluate, silence and unsilence leave it.                     *)
AlertType == [status : {"none", "firing", "silenced", "resolved"}, notifyAt : Nat, until : Nat]

PaType ==
    /\ paNow \in Nat
    /\ paAlerts \in [PaRules -> AlertType]
    /\ paRules \subseteq PaRules
    /\ paLast \in [PaRules -> Int] /\ paQuiet \in [PaRules -> Nat]

\* alerts.json is what the memory holds: every change of an alert is saved
\* before the call returns, so that a restart forgets nothing.
AllIsSaved == paSaved = paAlerts

\* What an alert tells of the notices sent: while it fires, notifyAt is not
\* before the last notice that counts, and no silence is pending; a silenced
\* alert knows until when; and one that is over has no notice to wait for.
AlertKnows(r) ==
    LET a == paAlerts[r] IN
    /\ a.status = "firing" => paLast[r] <= a.notifyAt /\ paQuiet[r] <= paNow
    /\ a.status = "silenced" => paLast[r] = Never /\ paQuiet[r] = a.until
    /\ a.status \in {"none", "resolved"} => paLast[r] = Never /\ paQuiet[r] <= paNow

AlertsKnow == \A r \in PaRules : AlertKnows(r)

\* A job has its three fields.
JobType ==
    /\ paJob = [listed |-> paJob.listed, enabled |-> paJob.enabled, timer |-> paJob.timer]
    /\ paJob.listed \in BOOLEAN /\ paJob.enabled \in BOOLEAN

AlertInv  == PaType /\ AllIsSaved /\ AlertsKnow /\ NoticesKept
JobInv    == JobType /\ EnabledIsScheduled
PatrolInv == AlertInv /\ JobInv

-----------------------------------------------------------------------------
(* The highest of the rules that are breached: a finite set has one.         *)
LEMMA TopIsBreached ==
    ASSUME PaType, NEW value \in Levels, Breached(value) # {}
    PROVE  Top(value) \in Breached(value)
<1> DEFINE Over(r) == {s \in Breached(value) : Threshold[r] < Threshold[s]}
           Overs == {Over(r) : r \in Breached(value)}
<1>1. IsFiniteSet(Breached(value)) /\ \A r \in Breached(value) : Threshold[r] \in Nat
  BY PatrolAssumption, FS_Subset DEF Breached, PaType
<1>2. Overs \subseteq FiniteSubsetsOf(Breached(value)) /\ Overs # {}
  <2>1. \A r \in Breached(value) : Over(r) \in SUBSET Breached(value)
    OBVIOUS
  <2>2. \A r \in Breached(value) : IsFiniteSet(Over(r))
    BY <1>1, <2>1, FS_Subset
  <2> HIDE DEF Over
  <2> QED
    BY <2>1, <2>2 DEF FiniteSubsetsOf
<1>3. \E x \in Overs : \A y \in Overs : <<y, x>> \notin StrictSubsetOrdering(Breached(value))
  <2> HIDE DEF Overs
  <2> QED
    BY <1>2, FS_StrictSubsetOrderingWellFounded, WFMin
<1>4. PICK r \in Breached(value) :
        \A s \in Breached(value) : <<Over(s), Over(r)>> \notin StrictSubsetOrdering(Breached(value))
  BY <1>3
<1>5. \A s \in Breached(value) : Threshold[s] <= Threshold[r]
  <2> SUFFICES ASSUME NEW s \in Breached(value), Threshold[r] < Threshold[s] PROVE FALSE
    BY <1>1
  <2>1. Over(s) \subseteq Over(r) /\ s \in Over(r) /\ s \notin Over(s)
    BY <1>1
  <2>2. Over(s) \in SUBSET Breached(value) /\ Over(r) \in SUBSET Breached(value)
    OBVIOUS
  <2> HIDE DEF Over
  <2> QED
    BY <1>4, <2>1, <2>2 DEF StrictSubsetOrdering
<1> QED
  BY <1>5 DEF Top

-----------------------------------------------------------------------------
(* Alerts *)

LEMMA NeverIsPast == Never \in Int /\ \A n \in Nat : Never <= n /\ n - Never >= Repeat
BY PatrolAssumption DEF Never

\* Steps that touch neither the alerts nor the clock.
LEMMA AlertsFrame ==
    ASSUME AlertInv, paRules' \subseteq PaRules, UNCHANGED <<paNow, alertVars>>
    PROVE  AlertInv'
BY DEF AlertInv, PaType, AllIsSaved, AlertsKnow, AlertKnows, NoticesKept, alertVars

LEMMA JudgeKeeps ==
    ASSUME AlertInv, NEW x \in Runs, Judge(x)
    PROVE  AlertInv'
<1> DEFINE value == paRuns[x]
<1>0. /\ PaType /\ AllIsSaved /\ AlertsKnow /\ NoticesKept
      /\ value \in Levels /\ value \in Nat /\ Repeat \in Nat
      /\ UNCHANGED <<paNow, paQuiet, paRules>>
  BY PatrolAssumption DEF AlertInv, Judge
<1>1. /\ Cleared(value) \subseteq PaRules \ Breached(value)
      /\ Notices(value) \subseteq Breached(value) /\ Breached(value) \subseteq PaRules
      /\ \A r \in Cleared(value) : paAlerts[r].status = "firing"
      /\ \A r \in Notices(value) : Due(r)
  BY <1>0, TopIsBreached DEF Cleared, Notices, Breached, PaType
<1>2. /\ paAlerts' = [r \in PaRules |->
                        IF r \in Cleared(value) THEN [paAlerts[r] EXCEPT !.status = "resolved"]
                        ELSE IF r \in Notices(value) THEN NewAlert ELSE paAlerts[r]]
      /\ paSaved' = paAlerts'
      /\ paLast' = [r \in PaRules |-> IF r \in Notices(value) THEN paNow
                                      ELSE IF r \in Cleared(value) THEN Never ELSE paLast[r]]
  BY DEF Judge, Judged, SavedAlerts
<1>3. paBad' = paBad \cup {<<"soon", r>> : r \in {s \in Notices(value) : paNow - paLast[s] < Repeat}}
                     \cup {<<"quiet", r>> : r \in {s \in Notices(value) : paNow < paQuiet[s]}}
  BY DEF Judge
<1> HIDE DEF value
<1>4. NewAlert \in AlertType /\ NewAlert.status = "firing" /\ NewAlert.notifyAt = paNow
  BY <1>0 DEF NewAlert, AlertType, PaType
<1>5. \A r \in Notices(value) : paQuiet[r] <= paNow /\ paNow - paLast[r] >= Repeat
  <2> SUFFICES ASSUME NEW r \in Notices(value)
               PROVE  paQuiet[r] <= paNow /\ paNow - paLast[r] >= Repeat
    OBVIOUS
  <2>1. /\ r \in PaRules /\ AlertKnows(r) /\ Due(r)
        /\ paNow \in Nat /\ paLast[r] \in Int /\ paQuiet[r] \in Nat
        /\ paAlerts[r] \in AlertType
    BY <1>0, <1>1 DEF AlertsKnow, PaType
  <2>2. CASE paAlerts[r].status = "firing"
    <3>1. paNow - paAlerts[r].notifyAt >= Repeat
      BY <2>1, <2>2 DEF Due
    <3> QED
      BY <1>0, <2>1, <2>2, <3>1 DEF AlertKnows, AlertType
  <2>3. CASE paAlerts[r].status = "silenced"
    <3>1. paAlerts[r].until <= paNow
      BY <2>1, <2>3 DEF Due
    <3> QED
      BY <2>1, <2>3, <3>1, NeverIsPast DEF AlertKnows, AlertType
  <2>4. CASE paAlerts[r].status \in {"none", "resolved"}
    BY <2>1, <2>4, NeverIsPast DEF AlertKnows
  <2> QED
    BY <2>1, <2>2, <2>3, <2>4 DEF AlertType
<1>6. NoticesKept'
  BY <1>0, <1>3, <1>5, <1>1 DEF NoticesKept, PaType
<1>7. PaType'
  <2>1. \A r \in PaRules : paAlerts'[r] \in AlertType
    BY <1>0, <1>2, <1>4 DEF PaType, AlertType
  <2>2. \A r \in PaRules : paLast'[r] \in Int
    BY <1>0, <1>2, NeverIsPast DEF PaType
  <2> QED
    BY <1>0, <1>2, <2>1, <2>2 DEF PaType
<1>8. AlertsKnow'
  <2> SUFFICES ASSUME NEW r \in PaRules PROVE AlertKnows(r)'
    BY DEF AlertsKnow
  <2>1. AlertKnows(r) /\ paAlerts[r] \in AlertType /\ paNow \in Nat /\ paQuiet[r] \in Nat
    BY <1>0 DEF AlertsKnow, PaType
  <2>2. CASE r \in Cleared(value)
    <3>1. paAlerts'[r].status = "resolved" /\ paLast'[r] = Never
      BY <1>1, <1>2, <2>1, <2>2 DEF AlertType
    <3> QED
      BY <1>0, <1>1, <2>1, <2>2, <3>1 DEF AlertKnows
  <2>3. CASE r \in Notices(value)
    <3>1. r \notin Cleared(value)
      BY <1>1, <2>3
    <3>2. paAlerts'[r].status = "firing" /\ paAlerts'[r].notifyAt = paNow /\ paLast'[r] = paNow
      BY <1>2, <1>4, <2>3, <3>1
    <3> QED
      BY <1>0, <1>5, <2>1, <2>3, <3>2 DEF AlertKnows
  <2>4. CASE r \notin Cleared(value) \cup Notices(value)
    <3>1. paAlerts'[r] = paAlerts[r] /\ paLast'[r] = paLast[r]
      BY <1>2, <2>4
    <3> QED
      BY <1>0, <2>1, <3>1 DEF AlertKnows
  <2> QED
    BY <2>2, <2>3, <2>4
<1> QED
  BY <1>2, <1>6, <1>7, <1>8 DEF AlertInv, AllIsSaved

\* The operator's calls on one alert, and the clock.
LEMMA SilenceKeeps ==
    ASSUME AlertInv, NEW r \in PaRules, NEW d \in 1 .. 2, Silence(r, paNow + d)
    PROVE  AlertInv'
<1>0. /\ PaType /\ AlertsKnow /\ UNCHANGED <<paNow, paRules, paBad>>
      /\ paAlerts' = [paAlerts EXCEPT ![r].status = "silenced", ![r].until = paNow + d]
      /\ paSaved' = paAlerts'
      /\ paQuiet' = [paQuiet EXCEPT ![r] = paNow + d]
      /\ paLast' = [paLast EXCEPT ![r] = Never]
  BY DEF AlertInv, Silence
<1>1. paNow + d \in Nat
  BY <1>0 DEF PaType
<1>2. PaType'
  BY <1>0, <1>1, NeverIsPast DEF PaType, AlertType
<1>3. AlertsKnow'
  <2> SUFFICES ASSUME NEW s \in PaRules PROVE AlertKnows(s)'
    BY DEF AlertsKnow
  <2>1. AlertKnows(s) /\ paAlerts[s] \in AlertType
    BY <1>0 DEF AlertsKnow, PaType
  <2>2. CASE s = r
    <3>1. /\ paAlerts'[s].status = "silenced" /\ paAlerts'[s].until = paNow + d
          /\ paLast'[s] = Never /\ paQuiet'[s] = paNow + d
      BY <1>0, <2>1, <2>2 DEF PaType, AlertType
    <3> QED
      BY <3>1 DEF AlertKnows
  <2>3. CASE s # r
    <3>1. paAlerts'[s] = paAlerts[s] /\ paLast'[s] = paLast[s] /\ paQuiet'[s] = paQuiet[s]
      BY <1>0, <2>3 DEF PaType
    <3> QED
      BY <1>0, <2>1, <3>1 DEF AlertKnows
  <2> QED
    BY <2>2, <2>3
<1> QED
  BY <1>0, <1>2, <1>3 DEF AlertInv, AllIsSaved, NoticesKept

LEMMA UnsilenceKeeps ==
    ASSUME AlertInv, NEW r \in PaRules, Unsilence(r)
    PROVE  AlertInv'
<1>0. /\ PaType /\ AlertsKnow /\ UNCHANGED <<paNow, paRules, paLast, paBad>>
      /\ paAlerts[r].status = "silenced"
      /\ paAlerts' = [paAlerts EXCEPT ![r].status = "firing", ![r].until = 0]
      /\ paSaved' = paAlerts'
      /\ paQuiet' = [paQuiet EXCEPT ![r] = 0]
  BY DEF AlertInv, Unsilence
<1>2. PaType'
  BY <1>0 DEF PaType, AlertType
<1>3. AlertsKnow'
  <2> SUFFICES ASSUME NEW s \in PaRules PROVE AlertKnows(s)'
    BY DEF AlertsKnow
  <2>1. AlertKnows(s) /\ paAlerts[s] \in AlertType /\ paNow \in Nat
    BY <1>0 DEF AlertsKnow, PaType
  <2>2. CASE s = r
    <3>1. /\ paAlerts'[s].status = "firing" /\ paAlerts'[s].notifyAt = paAlerts[s].notifyAt
          /\ paLast'[s] = Never /\ paQuiet'[s] = 0
      BY <1>0, <2>1, <2>2 DEF PaType, AlertType, AlertKnows
    <3> QED
      BY <1>0, <2>1, <3>1, NeverIsPast DEF AlertKnows, AlertType
  <2>3. CASE s # r
    <3>1. paAlerts'[s] = paAlerts[s] /\ paLast'[s] = paLast[s] /\ paQuiet'[s] = paQuiet[s]
      BY <1>0, <2>3 DEF PaType
    <3> QED
      BY <1>0, <2>1, <3>1 DEF AlertKnows
  <2> QED
    BY <2>2, <2>3
<1> QED
  BY <1>0, <1>2, <1>3 DEF AlertInv, AllIsSaved, NoticesKept

LEMMA CleanupKeeps ==
    ASSUME AlertInv, NEW r \in PaRules, Cleanup(r)
    PROVE  AlertInv'
<1>0. /\ PaType /\ AlertsKnow /\ UNCHANGED <<paNow, paRules, paLast, paQuiet, paBad>>
      /\ paAlerts[r].status = "resolved"
      /\ paAlerts' = [paAlerts EXCEPT ![r] = Absent]
      /\ paSaved' = paAlerts'
  BY DEF AlertInv, Cleanup
<1>1. Absent \in AlertType /\ Absent.status = "none"
  BY DEF Absent, AlertType
<1>2. PaType'
  BY <1>0, <1>1 DEF PaType
<1>3. AlertsKnow'
  <2> SUFFICES ASSUME NEW s \in PaRules PROVE AlertKnows(s)'
    BY DEF AlertsKnow
  <2>1. AlertKnows(s)
    BY <1>0 DEF AlertsKnow
  <2>2. CASE s = r
    <3>1. paAlerts'[s].status = "none"
      BY <1>0, <1>1, <2>2 DEF PaType
    <3> QED
      BY <1>0, <2>1, <2>2, <3>1 DEF AlertKnows
  <2>3. CASE s # r
    <3>1. paAlerts'[s] = paAlerts[s]
      BY <1>0, <2>3 DEF PaType
    <3> QED
      BY <1>0, <2>1, <3>1 DEF AlertKnows
  <2> QED
    BY <2>2, <2>3
<1> QED
  BY <1>0, <1>2, <1>3 DEF AlertInv, AllIsSaved, NoticesKept

LEMMA WorldKeeps ==
    ASSUME AlertInv, World
    PROVE  AlertInv'
<1>1. paNow \in Nat /\ paNow' \in Nat /\ paNow <= paNow' /\ UNCHANGED <<alertVars, paRules>>
  BY DEF AlertInv, PaType, World
<1>2. ASSUME NEW r \in PaRules PROVE AlertKnows(r)'
  <2>1. AlertKnows(r) /\ paQuiet[r] \in Nat
    BY DEF AlertInv, PaType, AlertsKnow
  <2> QED
    BY <1>1, <2>1 DEF AlertKnows, alertVars
<1> QED
  BY <1>1, <1>2 DEF AlertInv, PaType, AllIsSaved, AlertsKnow, NoticesKept, alertVars

-----------------------------------------------------------------------------
(* The job and its interval *)

\* startJobTimer puts an interval that fires into the timers map.
LEMMA StartedSchedules ==
    ASSUME JobInv, NEW live, Started(live)
    PROVE  JobInv'
BY DEF JobInv, JobType, EnabledIsScheduled, Started

LEMMA JobStep ==
    ASSUME JobInv, [PaNext]_paVars
    PROVE  JobInv'
<1>1. CASE UNCHANGED jobVars
  BY <1>1 DEF JobInv, JobType, EnabledIsScheduled, jobVars
<1>2. CASE World \/ (\E t \in Timers : Fire(t)) \/ RunJobNow
  BY <1>1, <1>2 DEF World, Fire, RunJobNow
<1>3. CASE \E x \in Runs : Judge(x) \/ \E reached \in BOOLEAN : Measure(x, reached)
  BY <1>1, <1>3 DEF Judge, Measure
<1>4. CASE \E r \in PaRules : Unsilence(r) \/ Cleanup(r) \/ ToggleRule(r) \/ \E d \in 1..2 : Silence(r, paNow + d)
  BY <1>1, <1>4 DEF Unsilence, Cleanup, ToggleRule, Silence
<1>5. CASE Start
  <2>1. CASE paJob.listed /\ paJob.enabled
    BY <1>5, <2>1, StartedSchedules DEF Start
  <2>2. CASE ~(paJob.listed /\ paJob.enabled)
    BY <1>5, <2>2 DEF Start, JobInv, JobType, EnabledIsScheduled
  <2> QED
    BY <2>1, <2>2
<1>6. CASE Stop \/ Restart
  BY <1>6 DEF Stop, Restart, JobInv, JobType, EnabledIsScheduled
<1>7. CASE RemoveJob
  BY <1>7 DEF RemoveJob, JobInv, JobType, EnabledIsScheduled
<1>8. ASSUME NEW e \in BOOLEAN, ToggleJob(e) PROVE JobInv'
  <2>1. CASE paOn /\ e
    BY <1>8, <2>1, StartedSchedules DEF ToggleJob
  <2>2. CASE ~(paOn /\ e)
    BY <1>8, <2>2 DEF ToggleJob, JobInv, JobType, EnabledIsScheduled
  <2> QED
    BY <2>1, <2>2
<1>9. ASSUME NEW e \in BOOLEAN, UpsertJob(e) PROVE JobInv'
  <2>1. CASE paOn /\ e
    BY <1>9, <2>1, StartedSchedules DEF UpsertJob
  <2>2. CASE ~(paOn /\ e)
    BY <1>9, <2>2 DEF UpsertJob, JobInv, JobType, EnabledIsScheduled
  <2> QED
    BY <2>1, <2>2
<1>10. CASE UNCHANGED paVars
  BY <1>1, <1>10 DEF paVars
<1> QED
  BY <1>2, <1>3, <1>4, <1>5, <1>6, <1>7, <1>8, <1>9, <1>10 DEF PaNext

-----------------------------------------------------------------------------
LEMMA AlertStep ==
    ASSUME AlertInv, [PaNext]_paVars
    PROVE  AlertInv'
<1>0. paRules \subseteq PaRules
  BY DEF AlertInv, PaType
<1>1. CASE \E x \in Runs : Judge(x)
  BY <1>1, JudgeKeeps
<1>2. CASE World
  BY <1>2, WorldKeeps
<1>3. CASE \E r \in PaRules : Unsilence(r) \/ Cleanup(r) \/ \E d \in 1..2 : Silence(r, paNow + d)
  BY <1>3, UnsilenceKeeps, CleanupKeeps, SilenceKeeps
<1>4. CASE \E r \in PaRules : ToggleRule(r)
  BY <1>0, <1>4, AlertsFrame DEF ToggleRule
<1>5. CASE Start \/ Stop \/ RemoveJob \/ RunJobNow
  <2>1. UNCHANGED <<paNow, alertVars, paRules>>
    BY <1>5 DEF Start, Stop, RemoveJob, RunJobNow, JobCall
  <2> QED
    BY <1>0, <2>1, AlertsFrame
<1>6. CASE \E e \in BOOLEAN : ToggleJob(e) \/ UpsertJob(e)
  <2>1. UNCHANGED <<paNow, alertVars, paRules>>
    BY <1>6 DEF ToggleJob, UpsertJob, JobCall
  <2> QED
    BY <1>0, <2>1, AlertsFrame
<1>7. CASE Restart
  \* alerts.json has all that the memory had.
  <2>1. UNCHANGED <<paNow, alertVars, paRules>>
    BY <1>7 DEF Restart, AlertInv, AllIsSaved, alertVars
  <2> QED
    BY <1>0, <2>1, AlertsFrame
<1>8. CASE \/ \E t \in Timers : Fire(t)
           \/ \E x \in Runs, reached \in BOOLEAN : Measure(x, reached)
           \/ UNCHANGED paVars
  <2>1. UNCHANGED <<paNow, alertVars, paRules>>
    BY <1>8 DEF Fire, Measure, paVars
  <2> QED
    BY <1>0, <2>1, AlertsFrame
<1> QED
  BY <1>1, <1>2, <1>3, <1>4, <1>5, <1>6, <1>7, <1>8 DEF PaNext

LEMMA PatrolInit == PaInit => PatrolInv
<1> SUFFICES ASSUME PaInit PROVE PatrolInv
  OBVIOUS
<1>1. Absent \in AlertType /\ Absent.status = "none"
  BY DEF Absent, AlertType
<1>2. AlertInv
  BY <1>1, NeverIsPast DEF PaInit, AlertInv, PaType, AllIsSaved, AlertsKnow, AlertKnows, NoticesKept
<1>3. JobInv
  BY DEF PaInit, JobInv, JobType, EnabledIsScheduled
<1> QED
  BY <1>2, <1>3 DEF PatrolInv

\* Whatever runs of a job overlap, whatever the operator calls and however
\* often the process restarts: no notice is repeated too soon or sent into a
\* silence, and a job that is enabled has an interval that fires and can be
\* stopped.
THEOREM PatrolStaysKept == PatrolSpec => []PatrolIsKept
<1>1. PatrolInv /\ [PaNext]_paVars => PatrolInv'
  BY AlertStep, JobStep DEF PatrolInv
<1>2. PatrolInv => PatrolIsKept
  BY DEF PatrolInv, AlertInv, JobInv, PatrolIsKept
<1> QED
  BY PatrolInit, <1>1, <1>2, PTL DEF PatrolSpec

-----------------------------------------------------------------------------
(* The experience base (ExperienceBase), when commands follow one another.  *)
(* A search leaves statements that heat rows, any other command statements  *)
(* that edit the tables.                                                    *)
Fields ==
  [status : {"none", "existed", "deleted"}, source : Sources \cup {""}, hot : BOOLEAN,
   text : SUBSET Rows]
Statements ==
  [do : {"key", "clear", "heat", "count", "hot", "cool"}, row : Rows]
  \cup [do : {"write"}, row : Rows, fields : Fields]
  \cup [do : {"remove"}, row : SUBSET Rows]

\* The tables and the commands; a row that was never written is empty, one that
\* was has its own text.
EbType ==
  /\ exps \in [Rows -> Fields] /\ keyed \subseteq Rows /\ edited \subseteq Rows
  /\ dropped \subseteq Rows /\ failed \in Nat
  /\ job \in [Callers -> Seq(Statements)]
  /\ \A r \in Rows : IF exps[r].status = "none" THEN exps[r] = NoRow ELSE r \in exps[r].text

\* Room for one more hot row of the type of a row.
Room(r, more) ==
  \A type \in {"SKILL", "WIKI"} :
    TypeOf[exps[r].source] = type => Cardinality(HotOf(type)) < HotLimit + failed + more

\* What is heated is there; a row is made hot when there is room for it, or
\* right after one is cooled.
HeatsFit(j) ==
  \A i \in 1 .. Len(j) :
    /\ j[i].do \in {"heat", "count", "cool", "hot"}
    /\ exps[j[i].row].status # "none"
    /\ j[i].do = "cool" => i = 1
    /\ j[i].do = "hot" => \/ i = 2 /\ j[1].do = "cool" /\ j[1].row = j[2].row
                          \/ i = 1 /\ Room(j[1].row, 0)

\* A row is written for the first time after its keywords, or again with its
\* source and no less text than it has.
WriteFits(j, i) ==
  LET e == exps[j[i].row]  w == j[i].fields IN
  /\ w.status = "existed" /\ j[i].row \in w.text /\ e.text \subseteq w.text
  /\ \/ e.status = "none"
     \/ e.status = "existed" /\ e.source = w.source
  /\ \/ i = 1 /\ (failed = 0 => e.status = "existed" \/ j[i].row \in keyed)
     \/ i = 2 /\ j[1].do = "key" /\ j[1].row = j[2].row

\* Keywords are taken from a row that a command edits, or that is deleted by
\* then and that no statement writes.
ClearFits(j, i) ==
  \/ j[i].row \in edited
  \/ /\ \A k \in 1 .. Len(j) : j[k].do = "write" => j[k].row # j[i].row
     /\ \/ j[i].row \notin Live
        \/ \E k \in 1 .. i - 1 : j[k].do = "remove" /\ j[i].row \in j[k].row

\* What a merge removes has its text in another row, or in the row that is
\* written first.
RemoveFits(j, i) ==
  \A r \in j[i].row \ dropped :
    \/ exps[r].status = "deleted"
    \/ \E q \in Rows \ {r} : r \in exps[q].text
    \/ i # 1 /\ j[1].do = "write" /\ j[1].row # r /\ r \in j[1].fields.text

EditsFit(j) ==
  \A i \in 1 .. Len(j) :
    /\ j[i].do \in {"key", "clear", "write", "remove"}
    /\ j[i].do = "write" => WriteFits(j, i)
    /\ failed = 0 /\ j[i].do = "clear" => ClearFits(j, i)
    /\ failed = 0 /\ j[i].do = "remove" => RemoveFits(j, i)

JobsFit == \A c \in Callers : HeatsFit(job[c]) \/ EditsFit(job[c])

EbInv == EbType /\ JobsFit /\ HotWithinLimit /\ TextSurvivesMerge /\ AddedHasKeywords

OneCaller == \A c, d \in Callers : c = d

-----------------------------------------------------------------------------
(* Sequences of statements *)

LEMMA TailOf ==
    ASSUME NEW S, NEW j \in Seq(S), j # <<>>
    PROVE  /\ Len(j) \in Nat /\ Len(j) >= 1 /\ Head(j) = j[1] /\ j[1] \in S
           /\ Tail(j) \in Seq(S) /\ Len(Tail(j)) = Len(j) - 1
           /\ \A i \in 1 .. Len(Tail(j)) : i + 1 \in 1 .. Len(j) /\ Tail(j)[i] = j[i + 1]
OBVIOUS

\* A statement in front of others.
LEMMA Ahead ==
    ASSUME NEW S, NEW x \in S, NEW j \in Seq(S)
    PROVE  /\ <<x>> \o j \in Seq(S) /\ Len(<<x>> \o j) = Len(j) + 1
           /\ (<<x>> \o j)[1] = x
           /\ \A i \in 2 .. Len(j) + 1 : (<<x>> \o j)[i] = j[i - 1]
OBVIOUS

LEMMA HotIs ==
    ASSUME EbType, NEW type
    PROVE  /\ \A r : r \in HotOf(type) <=> /\ r \in Rows /\ exps[r].status = "existed"
                                           /\ TypeOf[exps[r].source] = type /\ exps[r].hot
           /\ IsFiniteSet(HotOf(type)) /\ Cardinality(HotOf(type)) \in Nat
<1>1. \A r : r \in HotOf(type) <=> /\ r \in Rows /\ exps[r].status = "existed"
                                   /\ TypeOf[exps[r].source] = type /\ exps[r].hot
  BY DEF HotOf, Live, RowsOf
<1>2. HotOf(type) \in SUBSET Rows
  BY DEF HotOf, Live
<1> QED
  BY <1>1, <1>2, ExperienceAssumption, FS_Subset, FS_CardinalityType

\* What a command decides on leaves the tables alone.
LEMMA NewJob ==
    ASSUME OneCaller, EbInv, NEW c \in Callers, NEW j \in Seq(Statements), Does(c, j),
           UNCHANGED <<exps, keyed, failed>>,
           edited \subseteq edited', edited' \subseteq Rows,
           dropped \subseteq dropped', dropped' \subseteq Rows,
           (HeatsFit(j) \/ EditsFit(j))'
    PROVE  EbInv'
<1>1. EbType /\ HotWithinLimit /\ TextSurvivesMerge /\ AddedHasKeywords
  BY DEF EbInv
<1>2. job' = [job EXCEPT ![c] = j]
  BY DEF Does
<1>3. EbType'
  BY <1>1, <1>2 DEF EbType
<1>4. JobsFit'
  <2>1. \A d \in Callers : job'[d] = j
    BY <1>1, <1>2 DEF OneCaller, EbType
  <2> QED
    BY <2>1 DEF JobsFit
<1>5. HotWithinLimit'
  BY <1>1 DEF HotWithinLimit, HotOf, Live, RowsOf
<1>6. TextSurvivesMerge'
  BY <1>1 DEF TextSurvivesMerge
<1>7. AddedHasKeywords'
  BY <1>1 DEF AddedHasKeywords, Live
<1> QED
  BY <1>3, <1>4, <1>5, <1>6, <1>7 DEF EbInv

-----------------------------------------------------------------------------
(* Commands *)

LEMMA AddKeeps ==
    ASSUME OneCaller, EbInv, NEW c \in Callers, AddExperience(c)
    PROVE  EbInv'
<1>1. EbType /\ UNCHANGED <<exps, keyed, edited, dropped, failed>>
  BY DEF EbInv, AddExperience
<1>2. PICK r \in Fresh : \A q \in Fresh : r <= q
  <2>1. Fresh \in SUBSET Nat /\ Fresh # {}
    BY ExperienceAssumption DEF Fresh, AddExperience
  <2> QED
    BY <2>1, LeastOf
<1>3. PICK s \in Sources, q \in Fresh : Does(c, Adds(q, s))
  BY <1>2 DEF AddExperience
<1>4. q \in Rows /\ exps[q].status = "none" /\ exps[q] = NoRow
  BY <1>1, <1>3 DEF Fresh, EbType
<1>5. PICK j : j = Adds(q, s)
  OBVIOUS
<1>6. /\ j \in Seq(Statements) /\ Len(j) = 2
      /\ j[1].do = "key" /\ j[1].row = q /\ j[2].do = "write" /\ j[2].row = q
      /\ j[2].fields = [status |-> "existed", source |-> s, hot |-> FALSE, text |-> {q}]
  <2>1. PICK x : x = Statement("key", q)
    OBVIOUS
  <2>2. PICK y : y = Write(q, [status |-> "existed", source |-> s, hot |-> FALSE, text |-> {q}])
    OBVIOUS
  <2>3. x \in Statements /\ x.do = "key" /\ x.row = q
    BY <1>4, <2>1 DEF Statements, Statement
  <2>4. /\ y \in Statements /\ y.do = "write" /\ y.row = q
        /\ y.fields = [status |-> "existed", source |-> s, hot |-> FALSE, text |-> {q}]
    BY <1>4, <2>2 DEF Statements, Write, Fields
  <2>5. j = <<x, y>>
    BY <1>5, <2>1, <2>2 DEF Adds
  <2> QED
    BY <2>3, <2>4, <2>5
<1>7. EditsFit(j)
  <2> DEFINE w == j[2].fields
  <2>1. /\ w.status = "existed" /\ w.text = {q}
        /\ exps[j[2].row].status = "none" /\ exps[j[2].row].text = {}
    <3>1. w.status = "existed" /\ w.text = {q}
      BY <1>6
    <3>2. exps[q].text = {}
      <4>1. NoRow.text = {}
        BY DEF NoRow
      <4> QED
        BY <1>4, <4>1
    <3> QED
      BY <1>4, <1>6, <3>1, <3>2
  <2>2. WriteFits(j, 2)
    <3> HIDE DEF w
    <3>1. j[2].row \in w.text /\ exps[j[2].row].text \subseteq w.text
      BY <1>6, <2>1
    <3> QED
      BY <1>6, <2>1, <3>1 DEF WriteFits, w
  <2> QED
    BY <1>6, <2>2 DEF EditsFit
<1>8. EditsFit(j)'
  BY <1>1, <1>7 DEF EditsFit, WriteFits, ClearFits, RemoveFits, Live
<1> QED
  BY <1>1, <1>3, <1>5, <1>6, <1>8, NewJob DEF EbType

\* The statements of Removes.
LEMMA RemovesAre ==
    ASSUME NEW S \in SUBSET Rows
    PROVE  LET n == Cardinality(S) IN
           /\ n \in Nat /\ Removes(S) \in Seq(Statements) /\ Len(Removes(S)) = n + 1
           /\ Removes(S)[1].do = "remove" /\ Removes(S)[1].row = S
           /\ \A i \in 2 .. n + 1 : Removes(S)[i].do = "clear" /\ Removes(S)[i].row \in S
<1> DEFINE n == Cardinality(S)
           list == SetToSeq(S)
           rest == [i \in 1 .. n |-> Statement("clear", list[i])]
           x == [do |-> "remove", row |-> S]
<1>1. n \in Nat /\ list \in [1 .. n -> S]
  BY ExperienceAssumption, FS_Subset, SetToSeqType
<1> HIDE DEF n, list
<1>2. x \in Statements
  BY DEF Statements
<1>3. \A i \in 1 .. n : Statement("clear", list[i]) \in Statements
  BY <1>1 DEF Statements, Statement
<1>4. rest \in Seq(Statements) /\ Len(rest) = n
  BY <1>1, <1>3
<1>5. \A i \in 1 .. n : rest[i].do = "clear" /\ rest[i].row \in S
  BY <1>1 DEF Statement
<1>6. Removes(S) = <<x>> \o rest
  BY DEF Removes, n, list
<1> HIDE DEF rest
<1>7. /\ Removes(S) \in Seq(Statements) /\ Len(Removes(S)) = n + 1
      /\ Removes(S)[1] = x
      /\ \A i \in 2 .. n + 1 : Removes(S)[i] = rest[i - 1]
  BY <1>2, <1>4, <1>6, Ahead
<1>8. \A i \in 2 .. n + 1 : i - 1 \in 1 .. n
  BY <1>1
<1> QED
  BY <1>1, <1>5, <1>7, <1>8 DEF n

LEMMA DeleteKeeps ==
    ASSUME OneCaller, EbInv, NEW c \in Callers, DeleteExperiences(c)
    PROVE  EbInv'
<1>1. EbType /\ UNCHANGED <<exps, keyed, edited, failed>>
  BY DEF EbInv, DeleteExperiences
<1>2. PICK S \in SUBSET Rows : Does(c, Removes(S)) /\ dropped' = dropped \cup S
  BY DEF DeleteExperiences
<1>3. PICK j : j = Removes(S)
  OBVIOUS
<1>4. PICK n : n = Cardinality(S)
  OBVIOUS
<1>5. /\ n \in Nat /\ j \in Seq(Statements) /\ Len(j) = n + 1
      /\ j[1].do = "remove" /\ j[1].row = S
      /\ \A i \in 2 .. n + 1 : j[i].do = "clear" /\ j[i].row \in S
  BY <1>3, <1>4, RemovesAre
<1>6. EditsFit(j)'
  <2>1. SUFFICES ASSUME NEW i \in 1 .. n + 1
                 PROVE  /\ j[i].do \in {"clear", "remove"}
                        /\ j[i].do = "clear" => ClearFits(j, i)'
                        /\ j[i].do = "remove" => RemoveFits(j, i)'
    BY <1>5 DEF EditsFit
  <2>2. CASE i = 1
    BY <1>2, <1>5, <2>2 DEF RemoveFits
  <2>3. CASE i # 1
    <3>1. i \in 2 .. n + 1 /\ 1 \in 1 .. i - 1
      BY <1>5, <2>3
    <3>2. \A k \in 1 .. n + 1 : j[k].do # "write"
      <4> TAKE k \in 1 .. n + 1
      <4>1. k = 1 \/ k \in 2 .. n + 1
        BY <1>5
      <4> QED
        BY <1>5, <4>1
    <3>3. ClearFits(j, i)'
      BY <1>5, <3>1, <3>2 DEF ClearFits
    <3> QED
      BY <1>5, <3>1, <3>3
  <2> QED
    BY <2>2, <2>3
<1> QED
  BY <1>1, <1>2, <1>3, <1>5, <1>6, NewJob DEF EbType

LEMMA AheadTwo ==
    ASSUME NEW S, NEW x \in S, NEW y \in S, NEW j \in Seq(S)
    PROVE  /\ <<x, y>> \o j \in Seq(S) /\ Len(<<x, y>> \o j) = Len(j) + 2
           /\ (<<x, y>> \o j)[1] = x /\ (<<x, y>> \o j)[2] = y
           /\ \A i \in 3 .. Len(j) + 2 : (<<x, y>> \o j)[i] = j[i - 2]
OBVIOUS

\* A row written back with no less text.
LEMMA WriteBack ==
    ASSUME EbType, NEW r \in Live, NEW e \in Fields,
           e.status = "existed", e.source = exps[r].source, exps[r].text \subseteq e.text,
           NEW j, j[1].do = "write", j[1].row = r, j[1].fields = e
    PROVE  WriteFits(j, 1)
<1>1. exps[r].status = "existed" /\ r \in exps[r].text
  BY DEF Live, EbType
<1> QED
  BY <1>1 DEF WriteFits

LEMMA MergeKeeps ==
    ASSUME OneCaller, EbInv, NEW c \in Callers, MergeExperiences(c)
    PROVE  EbInv'
<1>1. EbType /\ UNCHANGED <<exps, keyed, dropped, failed>>
  BY DEF EbInv, MergeExperiences
<1>2. PICK base \in Live, S \in (SUBSET Rows) \ {{}} :
        /\ base \notin S /\ \A r \in S : exps[r].status # "none"
        /\ LET text == exps[base].text \cup UNION {exps[r].text : r \in S \cap Live}
           IN  Does(c, MergesInto(base, S, [exps[base] EXCEPT !.text = text]))
        /\ edited' = edited \cup {base}
  BY DEF MergeExperiences
<1>3. PICK text : text = exps[base].text \cup UNION {exps[r].text : r \in S \cap Live}
  OBVIOUS
<1>4. PICK e : e = [exps[base] EXCEPT !.text = text]
  OBVIOUS
<1>5. /\ base \in Rows /\ exps[base] \in Fields /\ exps[base].status = "existed"
      /\ base \in exps[base].text
  BY <1>1 DEF Live, EbType
<1>6. text \subseteq Rows /\ exps[base].text \subseteq text /\ S \cap Live \subseteq text
  <2>1. \A r \in S \cap Live : r \in exps[r].text
    BY <1>1 DEF Live, EbType
  <2>2. \A r \in Rows : exps[r].text \subseteq Rows
    BY <1>1 DEF EbType, Fields
  <2> QED
    BY <1>3, <1>5, <2>1, <2>2
<1>7. /\ e \in Fields /\ e.status = "existed" /\ e.source = exps[base].source
      /\ e.text = text
  BY <1>4, <1>5, <1>6 DEF Fields
<1>8. PICK x : x = Write(base, e)
  OBVIOUS
<1>9. PICK y : y = Statement("clear", base)
  OBVIOUS
<1>10. x \in Statements /\ x.do = "write" /\ x.row = base /\ x.fields = e
  BY <1>5, <1>7, <1>8 DEF Statements, Write
<1>11. y \in Statements /\ y.do = "clear" /\ y.row = base
  BY <1>5, <1>9 DEF Statements, Statement
<1>12. PICK j : j = <<x, y>> \o Removes(S)
  OBVIOUS
<1>13. PICK n : n = Cardinality(S)
  OBVIOUS
<1>14. /\ n \in Nat /\ Removes(S) \in Seq(Statements) /\ Len(Removes(S)) = n + 1
       /\ Removes(S)[1].do = "remove" /\ Removes(S)[1].row = S
       /\ \A i \in 2 .. n + 1 : Removes(S)[i].do = "clear" /\ Removes(S)[i].row \in S
  BY <1>13, RemovesAre
<1>15. /\ j \in Seq(Statements) /\ Len(j) = n + 3 /\ j[1] = x /\ j[2] = y
       /\ \A i \in 3 .. n + 3 : j[i] = Removes(S)[i - 2]
  BY <1>10, <1>11, <1>12, <1>14, AheadTwo
<1>16. /\ j[3].do = "remove" /\ j[3].row = S
       /\ \A i \in 4 .. n + 3 : j[i].do = "clear" /\ j[i].row \in S
  <2>1. 3 \in 3 .. n + 3 /\ \A i \in 4 .. n + 3 : i \in 3 .. n + 3 /\ i - 2 \in 2 .. n + 1
    BY <1>14
  <2> QED
    BY <1>14, <1>15, <2>1
<1>17. WriteFits(j, 1)
  BY <1>1, <1>6, <1>7, <1>10, <1>15, WriteBack
<1>18. RemoveFits(j, 3)
  <2> SUFFICES ASSUME NEW r \in S, r \notin Live PROVE exps[r].status = "deleted"
    BY <1>2, <1>6, <1>7, <1>10, <1>15, <1>16 DEF RemoveFits
  <2> QED
    BY <1>1, <1>2 DEF Live, EbType, Fields
<1>19. EditsFit(j)'
  <2>1. SUFFICES ASSUME NEW i \in 1 .. n + 3
                 PROVE  /\ j[i].do \in {"key", "clear", "write", "remove"}
                        /\ j[i].do = "write" => WriteFits(j, i)'
                        /\ j[i].do = "clear" => ClearFits(j, i)'
                        /\ j[i].do = "remove" => RemoveFits(j, i)'
    BY <1>15 DEF EditsFit
  <2>2. CASE i = 1
    <3>1. WriteFits(j, 1)'
      BY <1>1, <1>17 DEF WriteFits
    <3> QED
      BY <1>10, <1>15, <2>2, <3>1
  <2>3. CASE i = 2
    <3>1. ClearFits(j, 2)'
      BY <1>2, <1>11, <1>15 DEF ClearFits
    <3> QED
      BY <1>11, <1>15, <2>3, <3>1
  <2>4. CASE i = 3
    <3>1. RemoveFits(j, 3)'
      BY <1>1, <1>18 DEF RemoveFits
    <3> QED
      BY <1>16, <2>4, <3>1
  <2>5. CASE i \notin {1, 2, 3}
    <3>1. i \in 4 .. n + 3 /\ 3 \in 1 .. i - 1
      BY <1>14, <2>5
    <3>2. \A k \in 1 .. n + 3 : j[k].do = "write" => j[k].row # j[i].row
      <4> SUFFICES ASSUME NEW k \in 1 .. n + 3, j[k].do = "write" PROVE j[k].row # j[i].row
        OBVIOUS
      <4>1. k = 1
        <5>1. k \in {1, 2, 3} \/ k \in 4 .. n + 3
          BY <1>14
        <5> QED
          BY <1>11, <1>15, <1>16, <5>1
      <4> QED
        BY <1>2, <1>10, <1>15, <1>16, <3>1, <4>1
    <3>3. ClearFits(j, i)'
      BY <1>15, <1>16, <3>1, <3>2 DEF ClearFits
    <3> QED
      BY <1>16, <3>1, <3>3
  <2> QED
    BY <2>2, <2>3, <2>4, <2>5
<1>20. Does(c, j)
  BY <1>2, <1>3, <1>4, <1>8, <1>9, <1>12 DEF MergesInto
<1> QED
  BY <1>1, <1>2, <1>5, <1>15, <1>19, <1>20, NewJob DEF EbType

LEMMA OptimizeKeeps ==
    ASSUME OneCaller, EbInv, NEW c \in Callers, OptimizeExperience(c)
    PROVE  EbInv'
<1>1. EbType /\ UNCHANGED <<exps, keyed, dropped, failed>>
  BY DEF EbInv, OptimizeExperience
<1>2. PICK r \in Live, keys \in BOOLEAN :
        /\ Does(c, <<Write(r, exps[r])>> \o
                   (IF keys THEN <<Statement("clear", r), Statement("key", r)>> ELSE <<>>))
        /\ edited' = IF keys THEN edited \cup {r} ELSE edited
  BY DEF OptimizeExperience
<1>3. PICK x : x = Write(r, exps[r])
  OBVIOUS
<1>4. PICK y : y = Statement("clear", r)
  OBVIOUS
<1>5. PICK z : z = Statement("key", r)
  OBVIOUS
<1>6. r \in Rows /\ exps[r] \in Fields /\ exps[r].status = "existed"
  BY <1>1 DEF Live, EbType
<1>7. x \in Statements /\ x.do = "write" /\ x.row = r /\ x.fields = exps[r]
  BY <1>3, <1>6 DEF Statements, Write
<1>8. y \in Statements /\ y.do = "clear" /\ y.row = r
  BY <1>4, <1>6 DEF Statements, Statement
<1>9. z \in Statements /\ z.do = "key" /\ z.row = r
  BY <1>5, <1>6 DEF Statements, Statement
<1>10. CASE keys
  <2>1. PICK j : j = <<x>> \o <<y, z>>
    OBVIOUS
  <2>2. j \in Seq(Statements) /\ Len(j) = 3 /\ j[1] = x /\ j[2] = y /\ j[3] = z
    <3>1. <<y, z>> \in Seq(Statements) /\ Len(<<y, z>>) = 2
      BY <1>8, <1>9
    <3> QED
      BY <1>7, <2>1, <3>1, Ahead
  <2>3. Does(c, j) /\ edited' = edited \cup {r}
    BY <1>2, <1>3, <1>4, <1>5, <1>10, <2>1
  <2>4. WriteFits(j, 1)
    BY <1>1, <1>6, <1>7, <2>2, WriteBack
  <2>5. WriteFits(j, 1)' /\ ClearFits(j, 2)'
    BY <1>1, <1>8, <2>2, <2>3, <2>4 DEF WriteFits, ClearFits
  <2>6. EditsFit(j)'
    <3>1. \A i \in 1 .. 3 : i = 1 \/ i = 2 \/ i = 3
      OBVIOUS
    <3> QED
      BY <1>7, <1>8, <1>9, <2>2, <2>5, <3>1 DEF EditsFit
  <2> QED
    BY <1>1, <1>6, <2>2, <2>3, <2>6, NewJob DEF EbType
<1>11. CASE ~keys
  <2>1. PICK j : j = <<x>>
    OBVIOUS
  <2>2. j \in Seq(Statements) /\ Len(j) = 1 /\ j[1] = x
    BY <1>7, <2>1
  <2>3. Does(c, j) /\ edited' = edited
    <3>1. <<x>> \o <<>> = j
      BY <2>1
    <3> QED
      BY <1>2, <1>3, <1>11, <3>1
  <2>4. WriteFits(j, 1)
    BY <1>1, <1>6, <1>7, <2>2, WriteBack
  <2>5. WriteFits(j, 1)'
    BY <1>1, <2>4 DEF WriteFits
  <2>6. EditsFit(j)'
    <3>1. \A i \in 1 .. 1 : i = 1
      OBVIOUS
    <3> QED
      BY <1>7, <2>2, <2>5, <3>1 DEF EditsFit
  <2> QED
    BY <1>1, <1>6, <2>2, <2>3, <2>6, NewJob DEF EbType
<1> QED
  BY <1>10, <1>11

LEMMA SearchKeeps ==
    ASSUME OneCaller, EbInv, NEW c \in Callers, SearchExperiences(c)
    PROVE  EbInv'
<1>1. EbType /\ UNCHANGED <<exps, keyed, edited, dropped, failed>>
  BY DEF EbInv, SearchExperiences
<1>2. PICK S :
        /\ \E type, fields : S \in Found(type, fields)
        /\ Does(c, [i \in DOMAIN SetToSeq(S) |-> Statement("heat", SetToSeq(S)[i])])
  BY DEF SearchExperiences
<1>3. S \subseteq Rows /\ \A r \in S : exps[r].status # "none"
  BY <1>2 DEF Found, RowsOf
<1>4. PICK list : list = SetToSeq(S)
  OBVIOUS
<1>5. PICK n : n = Cardinality(S)
  OBVIOUS
<1>6. n \in Nat /\ list \in [1 .. n -> S]
  BY <1>3, <1>4, <1>5, ExperienceAssumption, FS_Subset, SetToSeqType
<1>7. PICK j : j = [i \in 1 .. n |-> Statement("heat", list[i])]
  OBVIOUS
<1>8. Does(c, j)
  BY <1>2, <1>4, <1>6, <1>7
<1>9. \A i \in 1 .. n : Statement("heat", list[i]) \in Statements
  BY <1>3, <1>6 DEF Statements, Statement
<1>10. j \in Seq(Statements) /\ Len(j) = n
  BY <1>6, <1>7, <1>9
<1>11. \A i \in 1 .. n : j[i].do = "heat" /\ j[i].row \in S
  BY <1>6, <1>7 DEF Statement
<1>12. HeatsFit(j)'
  BY <1>1, <1>3, <1>10, <1>11 DEF HeatsFit
<1> QED
  BY <1>1, <1>8, <1>10, <1>12, NewJob DEF EbType

\* What is still to be heated.
StillHeats(j) == \A i \in 1 .. Len(j) :
  j[i].do \in {"heat", "count"} /\ exps[j[i].row].status # "none"

LEMMA DecideKeeps ==
    ASSUME OneCaller, EbInv, NEW c \in Callers, DecideHot(c)
    PROVE  EbInv'
<1>1. EbType /\ UNCHANGED <<exps, keyed, edited, dropped, failed>>
  BY DEF EbInv, DecideHot
<1>2. PICK j : j = job[c]
  OBVIOUS
<1>3. PICK rest : rest = Tail(j)
  OBVIOUS
<1>4. /\ j \in Seq(Statements) /\ j # <<>> /\ Head(j).do \in {"heat", "count"}
      /\ HeatsFit(j) \/ EditsFit(j)
  BY <1>1, <1>2 DEF EbInv, EbType, JobsFit, DecideHot
<1>5. /\ Len(j) \in Nat /\ Len(j) >= 1 /\ Head(j) = j[1] /\ j[1] \in Statements
      /\ rest \in Seq(Statements) /\ Len(rest) = Len(j) - 1
      /\ \A i \in 1 .. Len(rest) : i + 1 \in 1 .. Len(j) /\ rest[i] = j[i + 1]
  BY <1>3, <1>4, TailOf
<1>6. HeatsFit(j)
  BY <1>4, <1>5 DEF EditsFit
<1>7. PICK r : r = j[1].row
  OBVIOUS
<1>8. r \in Rows /\ exps[r].status # "none"
  <2>1. exps[r].status # "none"
    BY <1>5, <1>6, <1>7 DEF HeatsFit
  <2> QED
    BY <1>4, <1>5, <1>7, <2>1 DEF Statements
<1>9. StillHeats(rest)
  <2>1. SUFFICES ASSUME NEW i \in 1 .. Len(rest)
                 PROVE  rest[i].do \in {"heat", "count"} /\ exps[rest[i].row].status # "none"
    BY DEF StillHeats
  <2>2. i + 1 \in 1 .. Len(j) /\ rest[i] = j[i + 1] /\ i + 1 # 1
    BY <1>5
  <2> QED
    BY <1>4, <1>5, <1>6, <2>2 DEF HeatsFit
<1>10. ASSUME NEW x \in Statements, x.row = r, Does(c, <<x>> \o rest),
              x.do = "count" \/ (x.do = "hot" /\ Room(r, 0))
       PROVE  EbInv'
  <2>1. PICK k : k = <<x>> \o rest
    OBVIOUS
  <2>2. /\ k \in Seq(Statements) /\ Len(k) = Len(rest) + 1 /\ k[1] = x
        /\ \A i \in 2 .. Len(rest) + 1 : k[i] = rest[i - 1]
    BY <1>5, <1>10, <2>1, Ahead
  <2>3. HeatsFit(k)
    <3>1. SUFFICES ASSUME NEW i \in 1 .. Len(rest) + 1
                   PROVE  /\ k[i].do \in {"heat", "count", "hot"}
                          /\ exps[k[i].row].status # "none"
                          /\ k[i].do = "hot" => i = 1 /\ Room(k[1].row, 0)
      BY <2>2 DEF HeatsFit
    <3>2. CASE i = 1
      BY <1>8, <1>10, <2>2, <3>2
    <3>3. CASE i # 1
      <4>1. i \in 2 .. Len(rest) + 1 /\ i - 1 \in 1 .. Len(rest)
        BY <1>5, <3>3
      <4> QED
        BY <1>9, <2>2, <4>1 DEF StillHeats
    <3> QED
      BY <3>2, <3>3
  <2>4. HeatsFit(k)'
    BY <1>1, <2>3 DEF HeatsFit, Room, HotOf, Live, RowsOf
  <2>5. Does(c, k)
    BY <1>10, <2>1
  <2> QED
    BY <1>1, <2>2, <2>4, <2>5, NewJob DEF EbType
<1>11. CASE j[1].do = "count" /\ Cardinality(HotOf(TypeOf[exps[r].source])) >= HotLimit
  <2>1. PICK x : x = Statement("cool", r)
    OBVIOUS
  <2>2. PICK y : y = Statement("hot", r)
    OBVIOUS
  <2>3. x \in Statements /\ x.do = "cool" /\ x.row = r
    BY <1>8, <2>1 DEF Statements, Statement
  <2>4. y \in Statements /\ y.do = "hot" /\ y.row = r
    BY <1>8, <2>2 DEF Statements, Statement
  <2>5. PICK k : k = <<x, y>> \o rest
    OBVIOUS
  <2>6. /\ k \in Seq(Statements) /\ Len(k) = Len(rest) + 2 /\ k[1] = x /\ k[2] = y
        /\ \A i \in 3 .. Len(rest) + 2 : k[i] = rest[i - 2]
    BY <1>5, <2>3, <2>4, <2>5, AheadTwo
  <2>7. Does(c, k)
    BY <1>2, <1>3, <1>5, <1>7, <1>11, <2>1, <2>2, <2>5 DEF DecideHot, Heats
  <2>8. HeatsFit(k)
    <3>1. SUFFICES ASSUME NEW i \in 1 .. Len(rest) + 2
                   PROVE  /\ k[i].do \in {"heat", "count", "cool", "hot"}
                          /\ exps[k[i].row].status # "none"
                          /\ k[i].do = "cool" => i = 1
                          /\ k[i].do = "hot" => i = 2
      BY <2>3, <2>4, <2>6 DEF HeatsFit
    <3>2. CASE i = 1
      BY <1>8, <2>3, <2>6, <3>2
    <3>3. CASE i = 2
      BY <1>8, <2>4, <2>6, <3>3
    <3>4. CASE i \notin {1, 2}
      <4>1. i \in 3 .. Len(rest) + 2 /\ i - 2 \in 1 .. Len(rest)
        BY <1>5, <3>4
      <4> QED
        BY <1>9, <2>6, <4>1 DEF StillHeats
    <3> QED
      BY <3>2, <3>3, <3>4
  <2>9. HeatsFit(k)'
    BY <1>1, <2>8 DEF HeatsFit, Room, HotOf, Live, RowsOf
  <2> QED
    BY <1>1, <2>6, <2>7, <2>9, NewJob DEF EbType
<1>12. CASE j[1].do = "count" /\ ~(Cardinality(HotOf(TypeOf[exps[r].source])) >= HotLimit)
  <2>1. PICK x : x = Statement("hot", r)
    OBVIOUS
  <2>2. x \in Statements /\ x.do = "hot" /\ x.row = r
    BY <1>8, <2>1 DEF Statements, Statement
  <2>3. Does(c, <<x>> \o rest)
    BY <1>2, <1>3, <1>5, <1>7, <1>12, <2>1 DEF DecideHot, Heats
  <2>4. Room(r, 0)
    <3>1. Cardinality(HotOf(TypeOf[exps[r].source])) \in Nat
      BY <1>1, HotIs
    <3> QED
      BY <1>1, <1>12, <3>1, ExperienceAssumption DEF Room, EbType
  <2> QED
    BY <1>10, <2>2, <2>3, <2>4
<1>13. CASE j[1].do = "heat"
  <2>1. CASE r \in Live /\ ~exps[r].hot
    <3>1. PICK x : x = Statement("count", r)
      OBVIOUS
    <3>2. x \in Statements /\ x.do = "count" /\ x.row = r
      BY <1>8, <3>1 DEF Statements, Statement
    <3>3. Does(c, <<x>> \o rest)
      BY <1>2, <1>3, <1>5, <1>7, <1>13, <2>1, <3>1 DEF DecideHot
    <3> QED
      BY <1>10, <3>2, <3>3
  <2>2. CASE ~(r \in Live /\ ~exps[r].hot)
    <3>1. Does(c, rest)
      BY <1>2, <1>3, <1>5, <1>7, <1>13, <2>2 DEF DecideHot
    <3>2. HeatsFit(rest)
      BY <1>9 DEF StillHeats, HeatsFit
    <3>3. HeatsFit(rest)'
      BY <1>1, <3>2 DEF HeatsFit, Room, HotOf, Live, RowsOf
    <3> QED
      BY <1>1, <1>5, <3>1, <3>3, NewJob DEF EbType
  <2> QED
    BY <2>1, <2>2
<1> QED
  BY <1>4, <1>5, <1>11, <1>12, <1>13

LEMMA KillKeeps ==
    ASSUME OneCaller, EbInv, NEW c \in Callers, Kill(c)
    PROVE  EbInv'
<1>1. EbType /\ UNCHANGED <<exps, keyed, edited, dropped, failed>> /\ Does(c, <<>>)
  BY DEF EbInv, Kill
<1>2. HeatsFit(<<>>)'
  BY DEF HeatsFit
<1>3. <<>> \in Seq(Statements)
  OBVIOUS
<1> QED
  BY <1>1, <1>2, <1>3, NewJob DEF EbType

LEMMA DeleteAllKeeps ==
    ASSUME EbInv, NEW c \in Callers, DeleteAll(c)
    PROVE  EbInv'
<1>1. /\ EbType /\ UNCHANGED <<job, failed>> /\ \A d \in Callers : job[d] = <<>>
      /\ exps' = [r \in Rows |-> NoRow] /\ keyed' = {} /\ edited' = {} /\ dropped' = {}
  BY DEF EbInv, DeleteAll
<1>2. NoRow \in Fields /\ NoRow.status = "none"
  BY DEF NoRow, Fields
<1>3. EbType'
  BY <1>1, <1>2 DEF EbType
<1>4. JobsFit'
  <2>1. HeatsFit(<<>>)'
    BY DEF HeatsFit
  <2> QED
    BY <1>1, <2>1 DEF JobsFit
<1>5. HotWithinLimit'
  <2>1. SUFFICES ASSUME NEW type PROVE Cardinality(HotOf(type)') <= HotLimit + failed
    BY <1>1 DEF HotWithinLimit
  <2>2. HotOf(type)' = {}
    BY <1>1, <1>2 DEF HotOf, Live
  <2>3. Cardinality(HotOf(type)') = 0
    BY <2>2, FS_EmptySet
  <2> QED
    BY <1>1, <2>3, ExperienceAssumption DEF EbType
<1>6. TextSurvivesMerge' /\ AddedHasKeywords'
  BY <1>1, <1>2 DEF TextSurvivesMerge, AddedHasKeywords, Live
<1> QED
  BY <1>3, <1>4, <1>5, <1>6 DEF EbInv

-----------------------------------------------------------------------------
(* Statements *)

\* The statements after the first one.
RestIs(j, rest) ==
  /\ Len(j) \in Nat /\ Len(j) >= 1 /\ j[1] \in Statements
  /\ Len(rest) \in Nat /\ Len(rest) = Len(j) - 1
  /\ \A i \in 1 .. Len(rest) : i + 1 \in 1 .. Len(j) /\ i + 1 # 1 /\ rest[i] = j[i + 1]
                               /\ rest[i] \in Statements /\ j[i + 1] \in Statements
  /\ job' \in [Callers -> Seq(Statements)] /\ \A d \in Callers : job'[d] = rest

LEMMA RestOf ==
    ASSUME OneCaller, EbInv, NEW c \in Callers, NEW j, j = job[c], j # <<>>, Does(c, Tail(j)),
           NEW rest, rest = Tail(j)
    PROVE  RestIs(j, rest)
<1>1. EbType /\ job' = [job EXCEPT ![c] = rest]
  BY DEF EbInv, Does
<1>2. j \in Seq(Statements)
  BY <1>1 DEF EbType
<1>3. /\ Len(j) \in Nat /\ Len(j) >= 1 /\ j[1] \in Statements
      /\ rest \in Seq(Statements) /\ Len(rest) = Len(j) - 1
      /\ \A i \in 1 .. Len(rest) : i + 1 \in 1 .. Len(j) /\ rest[i] = j[i + 1]
  BY <1>2, TailOf
<1>4. job' \in [Callers -> Seq(Statements)]
  BY <1>1, <1>3 DEF EbType
<1>5. \A d \in Callers : job'[d] = rest
  BY <1>1 DEF OneCaller, EbType
<1>6. \A i \in 1 .. Len(rest) : i + 1 # 1 /\ j[i + 1] \in Statements
  BY <1>2, <1>3
<1> QED
  BY <1>3, <1>4, <1>5, <1>6 DEF RestIs

LEMMA FailKeeps ==
    ASSUME OneCaller, EbInv, NEW c \in Callers, FailStatement(c)
    PROVE  EbInv'
<1>1. /\ EbType /\ HotWithinLimit /\ AddedHasKeywords
      /\ failed' = failed + 1 /\ failed \in Nat /\ UNCHANGED <<exps, keyed, edited, dropped>>
  BY DEF EbInv, EbType, FailStatement
<1>2. PICK j : j = job[c]
  OBVIOUS
<1>3. j # <<>> /\ Does(c, Tail(j)) /\ (HeatsFit(j) \/ EditsFit(j))
  BY <1>2 DEF FailStatement, EbInv, JobsFit
<1>4. PICK rest : rest = Tail(j)
  OBVIOUS
<1>5. /\ Len(rest) \in Nat
      /\ \A i \in 1 .. Len(rest) : i + 1 \in 1 .. Len(j) /\ i + 1 # 1 /\ rest[i] = j[i + 1]
      /\ job' \in [Callers -> Seq(Statements)] /\ \A d \in Callers : job'[d] = rest
  <2>1. RestIs(j, rest)
    BY <1>2, <1>3, <1>4, RestOf
  <2> QED
    BY <2>1 DEF RestIs
<1>6. HeatsFit(rest)' \/ EditsFit(rest)'
  <2>1. CASE HeatsFit(j)
    <3>1. SUFFICES ASSUME NEW i \in 1 .. Len(rest)
                   PROVE  /\ rest[i].do \in {"heat", "count", "hot"}
                          /\ exps[rest[i].row].status # "none"
                          /\ rest[i].do = "hot" => i = 1 /\ Room(rest[1].row, 0)'
      BY <1>1 DEF HeatsFit
    <3>2. /\ j[i + 1].do \in {"heat", "count", "hot"} /\ exps[j[i + 1].row].status # "none"
          /\ j[i + 1].do = "hot" => i + 1 = 2
      BY <1>5, <2>1 DEF HeatsFit
    <3>3. \A r : Room(r, 0)'
      <4>1. SUFFICES ASSUME NEW type \in {"SKILL", "WIKI"}
                     PROVE  Cardinality(HotOf(type)') < HotLimit + failed' + 0
        BY DEF Room
      <4>2. HotOf(type)' = HotOf(type)
        BY <1>1 DEF HotOf, Live, RowsOf
      <4>3. Cardinality(HotOf(type)) \in Nat /\ Cardinality(HotOf(type)) <= HotLimit + failed
        BY <1>1, HotIs DEF HotWithinLimit
      <4> QED
        BY <1>1, <4>2, <4>3, ExperienceAssumption
    <3> QED
      BY <1>5, <3>2, <3>3
  <2>2. CASE EditsFit(j)
    <3>1. SUFFICES ASSUME NEW i \in 1 .. Len(rest)
                   PROVE  /\ rest[i].do \in {"key", "clear", "write", "remove"}
                          /\ rest[i].do = "write" => WriteFits(rest, i)'
      BY <1>1 DEF EditsFit
    <3>2. /\ j[i + 1].do \in {"key", "clear", "write", "remove"}
          /\ j[i + 1].do = "write" => WriteFits(j, i + 1)
      BY <1>5, <2>2 DEF EditsFit
    <3> QED
      BY <1>1, <1>5, <3>2 DEF WriteFits
  <2> QED
    BY <1>3, <2>1, <2>2
<1>7. EbType'
  BY <1>1, <1>5 DEF EbType
<1>8. HotWithinLimit'
  <2>1. SUFFICES ASSUME NEW type \in {"SKILL", "WIKI"}
                 PROVE  Cardinality(HotOf(type)') <= HotLimit + failed'
    BY DEF HotWithinLimit
  <2>2. HotOf(type)' = HotOf(type)
    BY <1>1 DEF HotOf, Live, RowsOf
  <2>3. Cardinality(HotOf(type)) \in Nat /\ Cardinality(HotOf(type)) <= HotLimit + failed
    BY <1>1, HotIs DEF HotWithinLimit
  <2> QED
    BY <1>1, <2>2, <2>3, ExperienceAssumption
<1>9. TextSurvivesMerge' /\ AddedHasKeywords'
  BY <1>1 DEF TextSurvivesMerge, AddedHasKeywords
<1> QED
  BY <1>5, <1>6, <1>7, <1>8, <1>9 DEF EbInv, JobsFit

\* What is in a set with one more element, or in the set.
LEMMA OneMore ==
    ASSUME NEW S, NEW T, NEW r, IsFiniteSet(S), T \in SUBSET (S \cup {r})
    PROVE  Cardinality(T) \in Nat /\ Cardinality(S) \in Nat
           /\ Cardinality(T) <= Cardinality(S) + 1
<1>1. /\ IsFiniteSet(S \cup {r}) /\ Cardinality(S) \in Nat
      /\ Cardinality(S \cup {r}) \in Nat
      /\ Cardinality(S \cup {r}) = IF r \in S THEN Cardinality(S) ELSE Cardinality(S) + 1
  BY FS_AddElement, FS_CardinalityType
<1>2. /\ IsFiniteSet(T) /\ Cardinality(T) \in Nat
      /\ Cardinality(T) <= Cardinality(S \cup {r})
  BY <1>1, FS_Subset, FS_CardinalityType
<1> QED
  BY <1>1, <1>2

LEMMA NoMore ==
    ASSUME NEW S, NEW T, IsFiniteSet(S), T \in SUBSET S
    PROVE  Cardinality(T) \in Nat /\ Cardinality(S) \in Nat /\ Cardinality(T) <= Cardinality(S)
BY FS_Subset, FS_CardinalityType

\* A statement that changes who is hot, and nothing else.
LEMMA HotOnly ==
    ASSUME EbInv, exps' \in [Rows -> Fields], job' \in [Callers -> Seq(Statements)],
           \A r \in Rows : /\ exps'[r].status = exps[r].status
                           /\ exps'[r].source = exps[r].source
                           /\ exps'[r].text = exps[r].text
                           /\ exps[r].status = "none" => exps'[r] = exps[r],
           UNCHANGED <<keyed, edited, dropped, failed>>
    PROVE  EbType' /\ TextSurvivesMerge' /\ AddedHasKeywords'
<1>1. EbType /\ TextSurvivesMerge /\ AddedHasKeywords
  BY DEF EbInv
<1>2. EbType'
  BY <1>1 DEF EbType
<1>3. TextSurvivesMerge'
  BY <1>1 DEF TextSurvivesMerge
<1>4. AddedHasKeywords'
  BY <1>1 DEF AddedHasKeywords, Live
<1> QED
  BY <1>2, <1>3, <1>4

LEMMA HotSet ==
    ASSUME EbType, NEW r \in Rows, NEW b \in BOOLEAN, exps' = [exps EXCEPT ![r].hot = b]
    PROVE  /\ exps' \in [Rows -> Fields] /\ exps'[r].hot = b
           /\ \A q \in Rows : /\ exps'[q].status = exps[q].status
                              /\ exps'[q].source = exps[q].source
                              /\ exps'[q].text = exps[q].text
                              /\ q # r => exps'[q] = exps[q]
<1>1. PICK e : e = [exps[r] EXCEPT !.hot = b]
  OBVIOUS
<1>2. exps[r] \in Fields /\ exps \in [Rows -> Fields]
  BY DEF EbType
<1>3. /\ e \in Fields /\ e.hot = b /\ e.status = exps[r].status
      /\ e.source = exps[r].source /\ e.text = exps[r].text
  BY <1>1, <1>2 DEF Fields
<1>4. exps' = [exps EXCEPT ![r] = e]
  BY <1>1
<1> QED
  BY <1>2, <1>3, <1>4

LEMMA HeatKeeps ==
    ASSUME OneCaller, EbInv, NEW c \in Callers, NEW j, j = job[c], j # <<>>, HeatsFit(j),
           Does(c, Tail(j)), UNCHANGED <<keyed, edited, dropped, failed>>,
           j[1].do = "hot", exps' = [exps EXCEPT ![j[1].row].hot = TRUE]
    PROVE  EbInv'
<1>1. PICK r : r = j[1].row
  OBVIOUS
<1>2. PICK rest : rest = Tail(j)
  OBVIOUS
<1>3. EbType /\ HotWithinLimit /\ failed \in Nat
  BY DEF EbInv, EbType
<1>4. /\ Len(j) \in Nat /\ Len(j) >= 1 /\ Len(rest) \in Nat /\ j[1] \in Statements
      /\ \A i \in 1 .. Len(rest) : i + 1 \in 1 .. Len(j) /\ i + 1 # 1 /\ rest[i] = j[i + 1]
                                   /\ rest[i] \in Statements
      /\ job' \in [Callers -> Seq(Statements)] /\ \A d \in Callers : job'[d] = rest
  <2>1. RestIs(j, rest)
    BY <1>2, RestOf
  <2> QED
    BY <2>1 DEF RestIs
<1>5. r \in Rows /\ exps[r].status # "none" /\ Room(r, 0)
  <2>1. r \in Rows
    BY <1>1, <1>4 DEF Statements
  <2> QED
    BY <1>1, <1>4, <2>1 DEF HeatsFit
<1>6. /\ exps' \in [Rows -> Fields]
      /\ \A q \in Rows : /\ exps'[q].status = exps[q].status
                         /\ exps'[q].source = exps[q].source
                         /\ exps'[q].text = exps[q].text
                         /\ q # r => exps'[q] = exps[q]
  <2>1. exps' = [exps EXCEPT ![r].hot = TRUE]
    BY <1>1
  <2> QED
    BY <1>3, <1>5, <2>1, HotSet
<1>7. EbType' /\ TextSurvivesMerge' /\ AddedHasKeywords'
  BY <1>4, <1>5, <1>6, HotOnly
<1>8. HotWithinLimit'
  <2>1. SUFFICES ASSUME NEW type \in {"SKILL", "WIKI"}
                 PROVE  Cardinality(HotOf(type)') <= HotLimit + failed
    BY DEF HotWithinLimit
  <2>2. /\ IsFiniteSet(HotOf(type)) /\ Cardinality(HotOf(type)) \in Nat
        /\ Cardinality(HotOf(type)) <= HotLimit + failed
    BY <1>3, HotIs DEF HotWithinLimit
  <2>3. CASE TypeOf[exps[r].source] = type
    <3>1. HotOf(type)' \in SUBSET (HotOf(type) \cup {r})
      BY <1>6 DEF HotOf, Live, RowsOf
    <3>2. Cardinality(HotOf(type)) < HotLimit + failed
      BY <1>3, <1>5, <2>2, <2>3, ExperienceAssumption DEF Room
    <3>3. /\ Cardinality(HotOf(type)') \in Nat
          /\ Cardinality(HotOf(type)') <= Cardinality(HotOf(type)) + 1
      BY <2>2, <3>1, OneMore
    <3> QED
      BY <1>3, <2>2, <3>2, <3>3, ExperienceAssumption
  <2>4. CASE TypeOf[exps[r].source] # type
    <3>1. HotOf(type)' \in SUBSET HotOf(type)
      <4> SUFFICES ASSUME NEW q \in HotOf(type)' PROVE q \in HotOf(type)
        OBVIOUS
      <4>0. q \in Rows /\ TypeOf[exps'[q].source] = type
        BY DEF HotOf, Live, RowsOf
      <4>1. q \in Rows /\ TypeOf[exps'[q].source] = type /\ q # r
        BY <1>6, <2>4, <4>0
      <4>2. exps'[q] = exps[q]
        BY <1>6, <4>1
      <4> QED
        BY <4>1, <4>2 DEF HotOf, Live, RowsOf
    <3> QED
      BY <1>3, <2>2, <3>1, NoMore, ExperienceAssumption
  <2> QED
    BY <2>3, <2>4
<1>9. HeatsFit(rest)'
  <2>1. SUFFICES ASSUME NEW i \in 1 .. Len(rest)
                 PROVE  rest[i].do \in {"heat", "count"} /\ exps'[rest[i].row].status # "none"
    BY DEF HeatsFit
  <2>2. /\ rest[i].do \in {"heat", "count"} /\ exps[rest[i].row].status # "none"
        /\ rest[i] \in Statements
    BY <1>4 DEF HeatsFit
  <2>3. rest[i].row \in Rows
    BY <2>2 DEF Statements
  <2> QED
    BY <1>6, <2>2, <2>3
<1> QED
  BY <1>4, <1>7, <1>8, <1>9 DEF EbInv, JobsFit

LEMMA CoolKeeps ==
    ASSUME OneCaller, EbInv, NEW c \in Callers, NEW j, j = job[c], j # <<>>, HeatsFit(j),
           Does(c, Tail(j)), UNCHANGED <<keyed, edited, dropped, failed>>,
           j[1].do = "cool",
           LET hot == HotOf(TypeOf[exps[j[1].row].source]) IN
           IF hot = {} THEN UNCHANGED exps
           ELSE \E q \in hot : exps' = [exps EXCEPT ![q].hot = FALSE]
    PROVE  EbInv'
<1>1. PICK r : r = j[1].row
  OBVIOUS
<1>2. PICK rest : rest = Tail(j)
  OBVIOUS
<1>3. EbType /\ HotWithinLimit /\ failed \in Nat
  BY DEF EbInv, EbType
<1>4. /\ Len(j) \in Nat /\ Len(j) >= 1 /\ Len(rest) \in Nat /\ j[1] \in Statements
      /\ \A i \in 1 .. Len(rest) : i + 1 \in 1 .. Len(j) /\ i + 1 # 1 /\ rest[i] = j[i + 1]
                                   /\ rest[i] \in Statements
      /\ job' \in [Callers -> Seq(Statements)] /\ \A d \in Callers : job'[d] = rest
  <2>1. RestIs(j, rest)
    BY <1>2, RestOf
  <2> QED
    BY <2>1 DEF RestIs
<1>5. r \in Rows /\ exps[r].status # "none"
  <2>1. r \in Rows
    BY <1>1, <1>4 DEF Statements
  <2> QED
    BY <1>1, <1>4, <2>1 DEF HeatsFit
<1>6. PICK hot : hot = HotOf(TypeOf[exps[r].source])
  OBVIOUS
<1>7. \/ hot = {} /\ exps' = exps
      \/ \E q \in hot : exps' = [exps EXCEPT ![q].hot = FALSE]
  BY <1>1, <1>6
\* Either way nothing but one hot flag changes, and that one was set.
<1>8. /\ exps' \in [Rows -> Fields]
      /\ \A q \in Rows : /\ exps'[q].status = exps[q].status
                         /\ exps'[q].source = exps[q].source
                         /\ exps'[q].text = exps[q].text
                         /\ exps[q].status = "none" => exps'[q] = exps[q]
                         /\ exps'[q].hot => exps[q].hot
      /\ hot = {} \/ \E q \in hot : ~exps'[q].hot
  <2>1. CASE hot = {} /\ exps' = exps
    BY <1>3, <2>1 DEF EbType
  <2>2. CASE \E q \in hot : exps' = [exps EXCEPT ![q].hot = FALSE]
    <3>1. PICK q \in hot : exps' = [exps EXCEPT ![q].hot = FALSE]
      BY <2>2
    <3>2. q \in Rows /\ exps[q].status # "none"
      BY <1>6 DEF HotOf, Live
    <3>3. /\ exps' \in [Rows -> Fields] /\ exps'[q].hot = FALSE
          /\ \A x \in Rows : /\ exps'[x].status = exps[x].status
                             /\ exps'[x].source = exps[x].source
                             /\ exps'[x].text = exps[x].text
                             /\ x # q => exps'[x] = exps[x]
      BY <1>3, <3>1, <3>2, HotSet
    <3> QED
      BY <3>2, <3>3
  <2> QED
    BY <1>7, <2>1, <2>2
<1>9. EbType' /\ TextSurvivesMerge' /\ AddedHasKeywords'
  BY <1>4, <1>8, HotOnly
<1>10. \A type : HotOf(type)' \in SUBSET HotOf(type)
  <2> SUFFICES ASSUME NEW type, NEW q \in HotOf(type)' PROVE q \in HotOf(type)
    OBVIOUS
  <2>1. /\ q \in Rows /\ exps'[q].status = "existed" /\ TypeOf[exps'[q].source] = type
        /\ exps'[q].hot
    BY DEF HotOf, Live, RowsOf
  <2> QED
    BY <1>8, <2>1 DEF HotOf, Live, RowsOf
<1>11. HotWithinLimit'
  <2>1. SUFFICES ASSUME NEW type \in {"SKILL", "WIKI"}
                 PROVE  Cardinality(HotOf(type)') <= HotLimit + failed
    BY DEF HotWithinLimit
  <2>2. IsFiniteSet(HotOf(type)) /\ Cardinality(HotOf(type)) <= HotLimit + failed
    BY <1>3, HotIs DEF HotWithinLimit
  <2>3. /\ Cardinality(HotOf(type)') \in Nat /\ Cardinality(HotOf(type)) \in Nat
        /\ Cardinality(HotOf(type)') <= Cardinality(HotOf(type))
    BY <1>10, <2>2, NoMore
  <2> QED
    BY <1>3, <2>2, <2>3, ExperienceAssumption
<1>12. Room(r, 0)'
  <2>1. SUFFICES ASSUME NEW type \in {"SKILL", "WIKI"}, TypeOf[exps[r].source] = type
                 PROVE  Cardinality(HotOf(type)') < HotLimit + failed
    BY <1>3, <1>5, <1>8, ExperienceAssumption DEF Room
  <2>2. hot = HotOf(type)
    BY <1>6, <2>1
  <2>3. /\ IsFiniteSet(HotOf(type)) /\ Cardinality(HotOf(type)) \in Nat
        /\ Cardinality(HotOf(type)) <= HotLimit + failed
    BY <1>3, HotIs DEF HotWithinLimit
  <2>4. CASE hot = {}
    <3>1. HotOf(type)' = {}
      BY <1>10, <2>2, <2>4
    <3>2. Cardinality(HotOf(type)') = 0
      BY <3>1, FS_EmptySet
    <3> QED
      BY <1>3, <3>2, ExperienceAssumption
  <2>5. CASE \E q \in hot : ~exps'[q].hot
    <3>1. PICK q \in HotOf(type) : ~exps'[q].hot
      BY <2>2, <2>5
    <3>2. q \notin HotOf(type)'
      BY <3>1 DEF HotOf
    <3>3. HotOf(type)' \in SUBSET (HotOf(type) \ {q})
      BY <1>10, <3>2
    <3>4. /\ IsFiniteSet(HotOf(type) \ {q})
          /\ Cardinality(HotOf(type) \ {q}) = Cardinality(HotOf(type)) - 1
      BY <2>3, <3>1, FS_RemoveElement
    <3>5. /\ Cardinality(HotOf(type)') \in Nat
          /\ Cardinality(HotOf(type)') <= Cardinality(HotOf(type) \ {q})
      BY <3>3, <3>4, NoMore
    <3> QED
      BY <1>3, <2>3, <3>4, <3>5, ExperienceAssumption
  <2> QED
    BY <1>8, <2>4, <2>5
<1>13. HeatsFit(rest)'
  <2>1. SUFFICES ASSUME NEW i \in 1 .. Len(rest)
                 PROVE  /\ rest[i].do \in {"heat", "count", "hot"}
                        /\ exps'[rest[i].row].status # "none"
                        /\ rest[i].do = "hot" => i = 1 /\ Room(rest[1].row, 0)'
    BY DEF HeatsFit
  <2>2. /\ rest[i].do \in {"heat", "count", "hot"} /\ exps[rest[i].row].status # "none"
        /\ rest[i].do = "hot" => i = 1 /\ rest[i].row = r
        /\ rest[i] \in Statements
    BY <1>1, <1>4 DEF HeatsFit
  <2>3. rest[i].row \in Rows
    BY <2>2 DEF Statements
  <2> QED
    BY <1>8, <1>12, <2>2, <2>3
<1> QED
  BY <1>4, <1>9, <1>11, <1>13 DEF EbInv, JobsFit

\* A statement that edits the tables leaves who is hot alone, or less.
LEMMA EditHot ==
    ASSUME EbInv, UNCHANGED failed, \A type : HotOf(type)' \in SUBSET HotOf(type)
    PROVE  HotWithinLimit'
<1>1. SUFFICES ASSUME NEW type \in {"SKILL", "WIKI"}
               PROVE  Cardinality(HotOf(type)') <= HotLimit + failed
  BY DEF HotWithinLimit
<1>2. /\ IsFiniteSet(HotOf(type)) /\ Cardinality(HotOf(type)) <= HotLimit + failed
      /\ failed \in Nat
  BY HotIs DEF EbInv, HotWithinLimit, EbType
<1>3. HotOf(type)' \in SUBSET HotOf(type)
  OBVIOUS
<1>4. /\ Cardinality(HotOf(type)') \in Nat /\ Cardinality(HotOf(type)) \in Nat
      /\ Cardinality(HotOf(type)') <= Cardinality(HotOf(type))
  BY <1>2, <1>3, NoMore
<1> QED
  BY <1>2, <1>4, ExperienceAssumption

\* A clear that waits goes on to wait for the same when the statement before it
\* is gone, unless that was what deleted its row.
LEMMA ClearsLater ==
    ASSUME NEW j, NEW rest, NEW i \in Nat, i >= 1, Len(rest) \in Nat, Len(rest) = Len(j) - 1,
           \A k \in 1 .. Len(rest) : k + 1 \in 1 .. Len(j) /\ rest[k] = j[k + 1],
           i <= Len(rest), ClearFits(j, i + 1), UNCHANGED edited,
           j[i + 1].row \in Live' =>
             \/ j[i + 1].row \in Live /\ j[1].do # "remove"
             \/ j[i + 1].row \in Live /\ j[i + 1].row \notin j[1].row
             \/ j[1].do = "write" /\ j[1].row = j[i + 1].row
    PROVE  ClearFits(rest, i)'
<1>1. rest[i] = j[i + 1] /\ 1 \in 1 .. Len(j)
  BY DEF ClearFits
<1>2. CASE j[i + 1].row \in edited
  BY <1>1, <1>2 DEF ClearFits
<1>3. CASE j[i + 1].row \notin edited
  <2>1. \A k \in 1 .. Len(j) : j[k].do = "write" => j[k].row # j[i + 1].row
    BY <1>3 DEF ClearFits
  <2>2. \A k \in 1 .. Len(rest) : rest[k].do = "write" => rest[k].row # rest[i].row
    BY <1>1, <2>1
  <2>3. CASE j[i + 1].row \notin Live'
    BY <1>1, <2>2, <2>3 DEF ClearFits
  <2>4. CASE j[i + 1].row \in Live'
    <3>1. /\ j[i + 1].row \in Live
          /\ j[1].do # "remove" \/ j[i + 1].row \notin j[1].row
      BY <1>1, <2>1, <2>4
    <3>2. PICK k \in 1 .. i : j[k].do = "remove" /\ j[i + 1].row \in j[k].row
      BY <1>3, <3>1 DEF ClearFits
    <3>3. k # 1 /\ k - 1 \in 1 .. i - 1 /\ k - 1 \in 1 .. Len(rest)
      BY <3>1, <3>2
    <3>4. rest[k - 1] = j[k]
      BY <3>3
    <3> QED
      BY <1>1, <2>2, <3>2, <3>3, <3>4 DEF ClearFits
  <2> QED
    BY <2>3, <2>4
<1> QED
  BY <1>2, <1>3

LEMMA KeyKeeps ==
    ASSUME OneCaller, EbInv, NEW c \in Callers, NEW j, j = job[c], j # <<>>, EditsFit(j),
           Does(c, Tail(j)), UNCHANGED <<exps, edited, dropped, failed>>,
           j[1].do = "key", keyed' = keyed \cup {j[1].row}
    PROVE  EbInv'
<1>1. PICK rest : rest = Tail(j)
  OBVIOUS
<1>2. EbType /\ TextSurvivesMerge /\ AddedHasKeywords
  BY DEF EbInv
<1>3. /\ Len(j) \in Nat /\ Len(j) >= 1 /\ Len(rest) \in Nat /\ Len(rest) = Len(j) - 1
      /\ j[1] \in Statements
      /\ \A i \in 1 .. Len(rest) : i + 1 \in 1 .. Len(j) /\ i + 1 # 1 /\ rest[i] = j[i + 1]
      /\ job' \in [Callers -> Seq(Statements)] /\ \A d \in Callers : job'[d] = rest
  <2>1. RestIs(j, rest)
    BY <1>1, RestOf
  <2> QED
    BY <2>1 DEF RestIs
<1>4. j[1].row \in Rows
  BY <1>3 DEF Statements
<1>5. EbType'
  BY <1>2, <1>3, <1>4 DEF EbType
<1>6. TextSurvivesMerge' /\ AddedHasKeywords'
  BY <1>2 DEF TextSurvivesMerge, AddedHasKeywords, Live
<1>7. HotWithinLimit'
  <2>1. \A type : HotOf(type)' \in SUBSET HotOf(type)
    BY DEF HotOf, Live, RowsOf
  <2> QED
    BY <2>1, EditHot
<1>8. EditsFit(rest)'
  <2>1. SUFFICES ASSUME NEW i \in 1 .. Len(rest)
                 PROVE  /\ rest[i].do \in {"key", "clear", "write", "remove"}
                        /\ rest[i].do = "write" => WriteFits(rest, i)'
                        /\ failed = 0 /\ rest[i].do = "clear" => ClearFits(rest, i)'
                        /\ failed = 0 /\ rest[i].do = "remove" => RemoveFits(rest, i)'
    BY DEF EditsFit
  <2>2. /\ j[i + 1].do \in {"key", "clear", "write", "remove"}
        /\ j[i + 1].do = "write" => WriteFits(j, i + 1)
        /\ failed = 0 /\ j[i + 1].do = "clear" => ClearFits(j, i + 1)
        /\ failed = 0 /\ j[i + 1].do = "remove" => RemoveFits(j, i + 1)
    BY <1>3 DEF EditsFit
  <2>3. ASSUME WriteFits(j, i + 1) PROVE WriteFits(rest, i)'
    BY <1>3, <2>3 DEF WriteFits
  <2>4. ASSUME ClearFits(j, i + 1) PROVE ClearFits(rest, i)'
    <3>1. Live' = Live /\ j[1].do # "remove"
      BY DEF Live
    <3>2. i \in Nat /\ i >= 1 /\ i <= Len(rest)
      BY <1>3
    <3> QED
      BY <1>3, <2>4, <3>1, <3>2, ClearsLater
  <2>5. ASSUME RemoveFits(j, i + 1) PROVE RemoveFits(rest, i)'
    BY <1>3, <2>5 DEF RemoveFits
  <2> QED
    BY <1>3, <2>2, <2>3, <2>4, <2>5
<1> QED
  BY <1>3, <1>5, <1>6, <1>7, <1>8 DEF EbInv, JobsFit

LEMMA ClearKeeps ==
    ASSUME OneCaller, EbInv, NEW c \in Callers, NEW j, j = job[c], j # <<>>, EditsFit(j),
           Does(c, Tail(j)), UNCHANGED <<exps, edited, dropped, failed>>,
           j[1].do = "clear", keyed' = keyed \ {j[1].row}
    PROVE  EbInv'
<1>1. PICK rest : rest = Tail(j)
  OBVIOUS
<1>2. EbType /\ TextSurvivesMerge /\ AddedHasKeywords
  BY DEF EbInv
<1>3. /\ Len(j) \in Nat /\ Len(j) >= 1 /\ Len(rest) \in Nat /\ Len(rest) = Len(j) - 1
      /\ \A i \in 1 .. Len(rest) : i + 1 \in 1 .. Len(j) /\ i + 1 # 1 /\ rest[i] = j[i + 1]
      /\ job' \in [Callers -> Seq(Statements)] /\ \A d \in Callers : job'[d] = rest
  <2>1. RestIs(j, rest)
    BY <1>1, RestOf
  <2> QED
    BY <2>1 DEF RestIs
<1>4. EbType'
  BY <1>2, <1>3 DEF EbType
<1>5. TextSurvivesMerge'
  BY <1>2 DEF TextSurvivesMerge
<1>6. AddedHasKeywords'
  <2>1. failed = 0 => j[1].row \in edited \/ j[1].row \notin Live
    BY <1>3 DEF EditsFit, ClearFits
  <2> QED
    BY <1>2, <2>1 DEF AddedHasKeywords, Live
<1>7. HotWithinLimit'
  <2>1. \A type : HotOf(type)' \in SUBSET HotOf(type)
    BY DEF HotOf, Live, RowsOf
  <2> QED
    BY <2>1, EditHot
<1>8. EditsFit(rest)'
  <2>1. SUFFICES ASSUME NEW i \in 1 .. Len(rest)
                 PROVE  /\ rest[i].do \in {"key", "clear", "remove"}
                        /\ failed = 0 /\ rest[i].do = "clear" => ClearFits(rest, i)'
                        /\ failed = 0 /\ rest[i].do = "remove" => RemoveFits(rest, i)'
    BY DEF EditsFit
  <2>2. /\ j[i + 1].do \in {"key", "clear", "write", "remove"}
        /\ j[i + 1].do = "write" => WriteFits(j, i + 1)
        /\ failed = 0 /\ j[i + 1].do = "clear" => ClearFits(j, i + 1)
        /\ failed = 0 /\ j[i + 1].do = "remove" => RemoveFits(j, i + 1)
    BY <1>3 DEF EditsFit
  <2>3. j[i + 1].do # "write"
    BY <1>3, <2>2 DEF WriteFits
  <2>4. ASSUME ClearFits(j, i + 1) PROVE ClearFits(rest, i)'
    <3>1. Live' = Live /\ j[1].do # "remove"
      BY DEF Live
    <3>2. i \in Nat /\ i >= 1 /\ i <= Len(rest)
      BY <1>3
    <3> QED
      BY <1>3, <2>4, <3>1, <3>2, ClearsLater
  <2>5. ASSUME RemoveFits(j, i + 1) PROVE RemoveFits(rest, i)'
    BY <1>3, <2>5 DEF RemoveFits
  <2> QED
    BY <1>3, <2>2, <2>3, <2>4, <2>5
<1> QED
  BY <1>3, <1>4, <1>5, <1>6, <1>7, <1>8 DEF EbInv, JobsFit

LEMMA RemoveKeeps ==
    ASSUME OneCaller, EbInv, NEW c \in Callers, NEW j, j = job[c], j # <<>>, EditsFit(j),
           Does(c, Tail(j)), UNCHANGED <<keyed, edited, dropped, failed>>,
           j[1].do = "remove",
           exps' = [r \in Rows |-> IF r \in j[1].row /\ exps[r].status # "none"
                                   THEN [exps[r] EXCEPT !.status = "deleted"] ELSE exps[r]]
    PROVE  EbInv'
<1>1. PICK rest : rest = Tail(j)
  OBVIOUS
<1>2. EbType /\ TextSurvivesMerge /\ AddedHasKeywords
  BY DEF EbInv
<1>3. /\ Len(j) \in Nat /\ Len(j) >= 1 /\ Len(rest) \in Nat /\ Len(rest) = Len(j) - 1
      /\ j[1] \in Statements
      /\ \A i \in 1 .. Len(rest) : i + 1 \in 1 .. Len(j) /\ i + 1 # 1 /\ rest[i] = j[i + 1]
                                   /\ j[i + 1] \in Statements
      /\ job' \in [Callers -> Seq(Statements)] /\ \A d \in Callers : job'[d] = rest
  <2>1. RestIs(j, rest)
    BY <1>1, RestOf
  <2> QED
    BY <2>1 DEF RestIs
<1>4. PICK S : S = j[1].row
  OBVIOUS
<1>5. exps' \in [Rows -> Fields]
  <2>1. ASSUME NEW r \in Rows PROVE [exps[r] EXCEPT !.status = "deleted"] \in Fields
    <3>1. PICK e : e = exps[r]
      OBVIOUS
    <3>2. e \in Fields
      BY <1>2, <3>1 DEF EbType
    <3>3. [e EXCEPT !.status = "deleted"] \in Fields
      BY <3>2 DEF Fields
    <3> QED
      BY <3>1, <3>3
  <2> QED
    BY <1>2, <2>1 DEF EbType
<1>6. \A r \in Rows :
        /\ exps'[r].source = exps[r].source /\ exps'[r].hot = exps[r].hot
        /\ exps'[r].text = exps[r].text
        /\ r \in S /\ exps[r].status # "none" => exps'[r].status = "deleted"
        /\ r \notin S => exps'[r].status = exps[r].status
        /\ exps[r].status = "none" => exps'[r] = exps[r]
  <2> TAKE r \in Rows
  <2>1. exps[r] \in Fields
    BY <1>2 DEF EbType
  <2>2. CASE r \in S /\ exps[r].status # "none"
    <3>1. exps'[r] = [exps[r] EXCEPT !.status = "deleted"]
      BY <1>4, <2>2
    <3> QED
      BY <2>1, <2>2, <3>1 DEF Fields
  <2>3. CASE ~(r \in S /\ exps[r].status # "none")
    BY <1>4, <2>3
  <2> QED
    BY <2>2, <2>3
<1>7. EbType'
  BY <1>2, <1>3, <1>5, <1>6 DEF EbType
<1>8. TextSurvivesMerge'
  <2> SUFFICES ASSUME failed = 0, NEW r \in Rows, exps'[r].status = "deleted", r \notin dropped
               PROVE  \E q \in Rows \ {r} : r \in exps'[q].text
    BY DEF TextSurvivesMerge
  <2>1. exps[r].status = "deleted" => \E q \in Rows \ {r} : r \in exps[q].text
    BY <1>2 DEF TextSurvivesMerge
  <2>2. RemoveFits(j, 1)
    BY <1>3 DEF EditsFit
  <2>3. exps[r].status # "deleted" => r \in S
    BY <1>6
  <2>4. \E q \in Rows \ {r} : r \in exps[q].text
    BY <1>4, <2>1, <2>2, <2>3 DEF RemoveFits
  <2> QED
    BY <1>6, <2>4
<1>9. Live' \subseteq Live /\ AddedHasKeywords'
  <2>1. Live' \subseteq Live
    BY <1>6 DEF Live
  <2> QED
    BY <1>2, <2>1 DEF AddedHasKeywords
<1>10. HotWithinLimit'
  <2>1. \A type : HotOf(type)' \in SUBSET HotOf(type)
    <3> SUFFICES ASSUME NEW type, NEW q \in HotOf(type)' PROVE q \in HotOf(type)
      OBVIOUS
    <3>1. /\ q \in Rows /\ exps'[q].status = "existed" /\ TypeOf[exps'[q].source] = type
          /\ exps'[q].hot
      BY DEF HotOf, Live, RowsOf
    <3>2. exps[q].status = "existed"
      BY <1>6, <3>1
    <3> QED
      BY <1>6, <3>1, <3>2 DEF HotOf, Live, RowsOf
  <2> QED
    BY <2>1, EditHot
<1>11. EditsFit(rest)'
  <2>1. SUFFICES ASSUME NEW i \in 1 .. Len(rest)
                 PROVE  /\ rest[i].do \in {"key", "clear", "remove"}
                        /\ failed = 0 /\ rest[i].do = "clear" => ClearFits(rest, i)'
                        /\ failed = 0 /\ rest[i].do = "remove" => RemoveFits(rest, i)'
    BY DEF EditsFit
  <2>2. /\ j[i + 1].do \in {"key", "clear", "write", "remove"}
        /\ j[i + 1].do = "write" => WriteFits(j, i + 1)
        /\ failed = 0 /\ j[i + 1].do = "clear" => ClearFits(j, i + 1)
        /\ failed = 0 /\ j[i + 1].do = "remove" => RemoveFits(j, i + 1)
    BY <1>3 DEF EditsFit
  <2>3. j[i + 1].do # "write"
    BY <1>3, <2>2 DEF WriteFits
  <2>4. ASSUME ClearFits(j, i + 1) PROVE ClearFits(rest, i)'
    <3>1. j[i + 1].row \in S => j[i + 1].row \notin Live'
      <4> SUFFICES ASSUME NEW r \in S, r \in Live' PROVE FALSE
        OBVIOUS
      <4>1. r \in Rows /\ exps'[r].status = "existed"
        BY DEF Live
      <4> QED
        BY <1>6, <4>1
    <3>2. i \in Nat /\ i >= 1 /\ i <= Len(rest)
      BY <1>3
    <3> QED
      BY <1>3, <1>4, <1>9, <2>4, <3>1, <3>2, ClearsLater
  <2>5. ASSUME j[i + 1].do = "remove", RemoveFits(j, i + 1) PROVE RemoveFits(rest, i)'
    <3>1. j[i + 1].row \subseteq Rows
      BY <1>3, <2>5 DEF Statements
    <3> QED
      BY <1>3, <1>6, <2>5, <3>1 DEF RemoveFits
  <2> QED
    BY <1>3, <2>2, <2>3, <2>4, <2>5
<1> QED
  BY <1>3, <1>7, <1>8, <1>9, <1>10, <1>11 DEF EbInv, JobsFit

LEMMA WriteKeeps ==
    ASSUME OneCaller, EbInv, NEW c \in Callers, NEW j, j = job[c], j # <<>>, EditsFit(j),
           Does(c, Tail(j)), UNCHANGED <<keyed, edited, dropped, failed>>,
           j[1].do = "write",
           exps' = [exps EXCEPT ![j[1].row] = Written(j[1].row, j[1].fields)]
    PROVE  EbInv'
<1>1. PICK rest : rest = Tail(j)
  OBVIOUS
<1>2. EbType /\ TextSurvivesMerge /\ AddedHasKeywords
  BY DEF EbInv
<1>3. /\ Len(j) \in Nat /\ Len(j) >= 1 /\ Len(rest) \in Nat /\ Len(rest) = Len(j) - 1
      /\ j[1] \in Statements
      /\ \A i \in 1 .. Len(rest) : i + 1 \in 1 .. Len(j) /\ i + 1 # 1 /\ rest[i] = j[i + 1]
                                   /\ j[i + 1] \in Statements
      /\ job' \in [Callers -> Seq(Statements)] /\ \A d \in Callers : job'[d] = rest
  <2>1. RestIs(j, rest)
    BY <1>1, RestOf
  <2> QED
    BY <2>1 DEF RestIs
<1>4. PICK b : b = j[1].row
  OBVIOUS
<1>5. PICK f : f = j[1].fields
  OBVIOUS
<1>6. b \in Rows /\ f \in Fields
  BY <1>3, <1>4, <1>5 DEF Statements
<1>7. /\ f.status = "existed" /\ b \in f.text /\ exps[b].text \subseteq f.text
      /\ exps[b].status = "none" \/ (exps[b].status = "existed" /\ exps[b].source = f.source)
      /\ failed = 0 => exps[b].status = "existed" \/ b \in keyed
  BY <1>3, <1>4, <1>5 DEF EditsFit, WriteFits
<1>8. PICK e : e = Written(b, f)
  OBVIOUS
<1>9. /\ e \in Fields /\ e.status = "existed" /\ e.source = f.source /\ e.text = f.text
      /\ e.hot = exps[b].hot
  <2>1. exps[b].hot \in BOOLEAN
    BY <1>2, <1>6 DEF EbType, Fields
  <2> QED
    BY <1>6, <1>7, <1>8, <2>1 DEF Written, Fields
<1>10. exps' = [exps EXCEPT ![b] = e]
  BY <1>4, <1>5, <1>8
<1>11. /\ exps' \in [Rows -> Fields] /\ exps'[b] = e
       /\ \A r \in Rows : r # b => exps'[r] = exps[r]
       /\ \A r \in Rows : exps[r].text \subseteq exps'[r].text
  <2>1. exps \in [Rows -> Fields]
    BY <1>2 DEF EbType
  <2>2. /\ exps' \in [Rows -> Fields] /\ exps'[b] = e
        /\ \A r \in Rows : r # b => exps'[r] = exps[r]
    BY <1>6, <1>9, <1>10, <2>1
  <2> QED
    BY <1>7, <1>9, <2>2
<1>12. EbType'
  <2>1. \A r \in Rows : IF exps'[r].status = "none" THEN exps'[r] = NoRow ELSE r \in exps'[r].text
    <3> TAKE r \in Rows
    <3>1. CASE r = b
      BY <1>7, <1>9, <1>11, <3>1
    <3>2. CASE r # b
      BY <1>2, <1>11, <3>2 DEF EbType
    <3> QED
      BY <3>1, <3>2
  <2> QED
    BY <1>2, <1>3, <1>11, <2>1 DEF EbType
<1>13. TextSurvivesMerge'
  <2> SUFFICES ASSUME failed = 0, NEW r \in Rows, exps'[r].status = "deleted", r \notin dropped
               PROVE  \E q \in Rows \ {r} : r \in exps'[q].text
    BY DEF TextSurvivesMerge
  <2>1. exps[r].status = "deleted"
    BY <1>9, <1>11
  <2>2. \E q \in Rows \ {r} : r \in exps[q].text
    BY <1>2, <2>1 DEF TextSurvivesMerge
  <2> QED
    BY <1>11, <2>2
<1>14. AddedHasKeywords'
  <2> SUFFICES ASSUME failed = 0, NEW r \in Live' PROVE r \in keyed \cup edited
    BY DEF AddedHasKeywords
  <2>1. r \in Rows /\ exps'[r].status = "existed"
    BY DEF Live
  <2>2. r # b => r \in Live
    BY <1>11, <2>1 DEF Live
  <2>3. r = b => r \in Live \/ r \in keyed
    BY <1>7, <2>1 DEF Live
  <2> QED
    BY <1>2, <2>2, <2>3 DEF AddedHasKeywords
<1>15. HotWithinLimit'
  <2>1. \A type : HotOf(type)' \in SUBSET HotOf(type)
    <3> SUFFICES ASSUME NEW type, NEW q \in HotOf(type)' PROVE q \in HotOf(type)
      OBVIOUS
    <3>1. /\ q \in Rows /\ exps'[q].status = "existed" /\ TypeOf[exps'[q].source] = type
          /\ exps'[q].hot
      BY DEF HotOf, Live, RowsOf
    <3>2. CASE q # b
      BY <1>11, <3>1, <3>2 DEF HotOf, Live, RowsOf
    <3>3. CASE q = b
      <4>1. exps[b].hot
        BY <1>9, <1>11, <3>1, <3>3
      <4>2. exps[b].status # "none"
        <5>1. exps[b].status = "none" => exps[b] = NoRow
          BY <1>2, <1>6 DEF EbType
        <5>2. ~NoRow.hot
          BY DEF NoRow
        <5> QED
          BY <4>1, <5>1, <5>2
      <4>3. exps[b].status = "existed" /\ exps[b].source = exps'[b].source
        BY <1>7, <1>9, <1>11, <4>2
      <4> QED
        BY <3>1, <3>3, <4>1, <4>3 DEF HotOf, Live, RowsOf
    <3> QED
      BY <3>2, <3>3
  <2> QED
    BY <2>1, EditHot
<1>16. EditsFit(rest)'
  <2>1. SUFFICES ASSUME NEW i \in 1 .. Len(rest)
                 PROVE  /\ rest[i].do \in {"key", "clear", "remove"}
                        /\ failed = 0 /\ rest[i].do = "clear" => ClearFits(rest, i)'
                        /\ failed = 0 /\ rest[i].do = "remove" => RemoveFits(rest, i)'
    BY DEF EditsFit
  <2>2. /\ j[i + 1].do \in {"key", "clear", "write", "remove"}
        /\ j[i + 1].do = "write" => WriteFits(j, i + 1)
        /\ failed = 0 /\ j[i + 1].do = "clear" => ClearFits(j, i + 1)
        /\ failed = 0 /\ j[i + 1].do = "remove" => RemoveFits(j, i + 1)
    BY <1>3 DEF EditsFit
  <2>3. j[i + 1].do # "write"
    BY <1>3, <2>2 DEF WriteFits
  <2>4. ASSUME ClearFits(j, i + 1) PROVE ClearFits(rest, i)'
    <3>1. ASSUME j[i + 1].row \in Live', j[i + 1].row # b PROVE j[i + 1].row \in Live
      BY <1>11, <3>1 DEF Live
    <3>2. i \in Nat /\ i >= 1 /\ i <= Len(rest)
      BY <1>3
    <3> QED
      BY <1>3, <1>4, <2>4, <3>1, <3>2, ClearsLater
  <2>5. ASSUME j[i + 1].do = "remove", RemoveFits(j, i + 1) PROVE RemoveFits(rest, i)'
    <3>1. j[i + 1].row \subseteq Rows
      BY <1>3, <2>5 DEF Statements
    <3>2. SUFFICES ASSUME NEW r \in j[i + 1].row \ dropped
                   PROVE  \/ exps'[r].status = "deleted"
                          \/ \E q \in Rows \ {r} : r \in exps'[q].text
      BY <1>3 DEF RemoveFits
    <3>3. CASE exps[r].status = "deleted"
      BY <1>7, <1>11, <3>1, <3>3
    <3>4. CASE \E q \in Rows \ {r} : r \in exps[q].text
      BY <1>11, <3>4
    <3>5. CASE b # r /\ r \in f.text
      BY <1>6, <1>9, <1>11, <3>5
    <3> QED
      BY <1>4, <1>5, <2>5, <3>3, <3>4, <3>5 DEF RemoveFits
  <2> QED
    BY <1>3, <2>2, <2>3, <2>4, <2>5
<1> QED
  BY <1>3, <1>12, <1>13, <1>14, <1>15, <1>16 DEF EbInv, JobsFit

LEMMA RunKeeps ==
    ASSUME OneCaller, EbInv, NEW c \in Callers, RunStatement(c)
    PROVE  EbInv'
<1>1. PICK j : j = job[c]
  OBVIOUS
<1>2. /\ j # <<>> /\ Does(c, Tail(j)) /\ UNCHANGED <<edited, dropped, failed>>
      /\ HeatsFit(j) \/ EditsFit(j)
  BY <1>1 DEF RunStatement, EbInv, JobsFit
<1>3. Len(j) \in Nat /\ Len(j) >= 1 /\ Head(j) = j[1]
  BY <1>1, <1>2, TailOf DEF EbInv, EbType
<1>4. /\ HeatsFit(j) => j[1].do \in {"hot", "cool", "heat", "count"}
      /\ EditsFit(j) => j[1].do \in {"key", "clear", "write", "remove"}
  BY <1>3 DEF HeatsFit, EditsFit
<1>5. keyed' = IF j[1].do = "key" THEN keyed \cup {j[1].row}
               ELSE IF j[1].do = "clear" THEN keyed \ {j[1].row} ELSE keyed
  BY <1>1, <1>3 DEF RunStatement
<1>6. CASE j[1].do = "write"
  <2>1. exps' = [exps EXCEPT ![j[1].row] = Written(j[1].row, j[1].fields)]
    BY <1>1, <1>3, <1>6 DEF RunStatement
  <2> QED
    BY <1>1, <1>2, <1>4, <1>5, <1>6, <2>1, WriteKeeps
<1>7. CASE j[1].do = "remove"
  <2>1. exps' = [r \in Rows |-> IF r \in j[1].row /\ exps[r].status # "none"
                                THEN [exps[r] EXCEPT !.status = "deleted"] ELSE exps[r]]
    BY <1>1, <1>3, <1>7 DEF RunStatement
  <2> QED
    BY <1>1, <1>2, <1>4, <1>5, <1>7, <2>1, RemoveKeeps
<1>8. CASE j[1].do = "hot"
  <2>1. exps' = [exps EXCEPT ![j[1].row].hot = TRUE]
    BY <1>1, <1>3, <1>8 DEF RunStatement
  <2> QED
    BY <1>1, <1>2, <1>4, <1>5, <1>8, <2>1, HeatKeeps
<1>9. CASE j[1].do = "cool"
  <2>1. LET hot == HotOf(TypeOf[exps[j[1].row].source]) IN
        IF hot = {} THEN UNCHANGED exps ELSE \E q \in hot : exps' = [exps EXCEPT ![q].hot = FALSE]
    BY <1>1, <1>3, <1>9 DEF RunStatement
  <2> QED
    BY <1>1, <1>2, <1>4, <1>5, <1>9, <2>1, CoolKeeps
<1>10. CASE j[1].do = "key"
  <2>1. UNCHANGED exps
    BY <1>1, <1>3, <1>10 DEF RunStatement
  <2> QED
    BY <1>1, <1>2, <1>4, <1>5, <1>10, <2>1, KeyKeeps
<1>11. CASE j[1].do = "clear"
  <2>1. UNCHANGED exps
    BY <1>1, <1>3, <1>11 DEF RunStatement
  <2> QED
    BY <1>1, <1>2, <1>4, <1>5, <1>11, <2>1, ClearKeeps
<1>12. j[1].do \notin {"heat", "count"}
  BY <1>1, <1>3 DEF RunStatement
<1> QED
  BY <1>2, <1>4, <1>6, <1>7, <1>8, <1>9, <1>10, <1>11, <1>12

LEMMA ExperienceStep == OneCaller /\ EbInv /\ [EbNext]_ebVars => EbInv'
<1> SUFFICES ASSUME OneCaller, EbInv, [EbNext]_ebVars PROVE EbInv'
  OBVIOUS
<1>1. CASE UNCHANGED ebVars
  <2>1. UNCHANGED <<exps, keyed, job, edited, dropped, failed>>
    BY <1>1 DEF ebVars
  <2>2. EbType'
    BY <2>1 DEF EbInv, EbType
  <2>3. \A j : (HeatsFit(j)' <=> HeatsFit(j)) /\ (EditsFit(j)' <=> EditsFit(j))
    BY <2>1 DEF HeatsFit, EditsFit, Room, WriteFits, ClearFits, RemoveFits, HotOf, Live, RowsOf
  <2>4. JobsFit'
    BY <2>1, <2>3 DEF EbInv, JobsFit
  <2>5. HotWithinLimit' /\ TextSurvivesMerge' /\ AddedHasKeywords'
    BY <2>1 DEF EbInv, HotWithinLimit, TextSurvivesMerge, AddedHasKeywords, HotOf, Live, RowsOf
  <2> QED
    BY <2>2, <2>4, <2>5 DEF EbInv
<1>2. CASE EbNext
  <2> PICK c \in Callers :
        \/ AddExperience(c) \/ DeleteExperiences(c) \/ MergeExperiences(c)
        \/ OptimizeExperience(c) \/ SearchExperiences(c)
        \/ DecideHot(c) \/ RunStatement(c) \/ FailStatement(c) \/ Kill(c) \/ DeleteAll(c)
    BY <1>2 DEF EbNext
  <2> QED
    BY AddKeeps, DeleteKeeps, MergeKeeps, OptimizeKeeps, SearchKeeps, DecideKeeps, RunKeeps,
       FailKeeps, KillKeeps, DeleteAllKeeps
<1> QED
  BY <1>1, <1>2

LEMMA ExperienceInit == EbInit => EbInv
<1> SUFFICES ASSUME EbInit PROVE EbInv
  OBVIOUS
<1>1. NoRow \in Fields /\ NoRow.status = "none"
  BY DEF NoRow, Fields
<1>2. EbType
  BY <1>1 DEF EbInit, EbType
<1>3. JobsFit
  <2>1. HeatsFit(<<>>)
    BY DEF HeatsFit
  <2> QED
    BY <2>1 DEF EbInit, JobsFit
<1>4. HotWithinLimit
  <2> SUFFICES ASSUME NEW type PROVE Cardinality(HotOf(type)) <= HotLimit + failed
    BY DEF HotWithinLimit
  <2>1. HotOf(type) = {}
    BY <1>1 DEF EbInit, HotOf, Live
  <2>2. Cardinality(HotOf(type)) = 0
    BY <2>1, FS_EmptySet
  <2> QED
    BY <2>2, ExperienceAssumption DEF EbInit
<1>5. TextSurvivesMerge /\ AddedHasKeywords
  BY <1>1 DEF EbInit, TextSurvivesMerge, AddedHasKeywords, Live
<1> QED
  BY <1>2, <1>3, <1>4, <1>5 DEF EbInv

\* Commands that follow one another, each killed or failing wherever it likes:
\* no type has more hot experiences than its limit and the statements that
\* failed, and without a failure no merge loses a text and no experience can be
\* found without its keywords, however many rows and sources there are.
THEOREM HalfDoneLosesNothing ==
    ASSUME OneCaller
    PROVE  EbInit /\ [][EbNext]_ebVars => []KillLosesNothing
<1>1. EbInv /\ [EbNext]_ebVars => EbInv'
  BY ExperienceStep
<1>2. EbInv => KillLosesNothing
  BY DEF EbInv, KillLosesNothing
<1> QED
  BY ExperienceInit, <1>1, <1>2, PTL


-----------------------------------------------------------------------------
(* Finite sets in order                                                     *)

\* In a strict total order on a finite set, the n-th member has n-1 before it:
\* there is exactly one for each n.
LEMMA RankIsOne ==
    ASSUME NEW S, IsFiniteSet(S), NEW R, StrictOrder(S, R)
    PROVE  /\ Cardinality(S) \in Nat
           /\ \A x \in S : Rank(S, R, x) \in 0 .. Cardinality(S) - 1
           /\ \A x, y \in S : <<x, y>> \in R => Rank(S, R, x) < Rank(S, R, y)
           /\ \A n \in 0 .. Cardinality(S) - 1 : \E x \in S : Rank(S, R, x) = n
<1>1. \A x : Rank(S, R, x) = MembersBefore(S, R, x) BY DEF Rank, MembersBefore
<1> QED BY <1>1, MembersBeforeCount

LEMMA InOrderIsAll ==
    ASSUME NEW S, IsFiniteSet(S), NEW R, StrictOrder(S, R)
    PROVE  /\ Cardinality(S) \in Nat
           /\ InOrder(S, R) \in [1 .. Cardinality(S) -> S]
           /\ \A x \in S : Rank(S, R, x) \in Nat /\ Rank(S, R, x) < Cardinality(S)
           /\ \A x \in S : InOrder(S, R)[Rank(S, R, x) + 1] = x
           /\ \A n \in 1 .. Cardinality(S) : Rank(S, R, InOrder(S, R)[n]) = n - 1
<1> DEFINE c == Cardinality(S)
           At(n) == CHOOSE x \in S : Rank(S, R, x) = n - 1
<1>1. /\ c \in Nat
      /\ \A x \in S : Rank(S, R, x) \in 0 .. c - 1
      /\ \A x, y \in S : <<x, y>> \in R => Rank(S, R, x) < Rank(S, R, y)
      /\ \A n \in 0 .. c - 1 : \E x \in S : Rank(S, R, x) = n
  BY RankIsOne
<1>2. ASSUME NEW n \in 1 .. c PROVE At(n) \in S /\ Rank(S, R, At(n)) = n - 1
  <2>1. n - 1 \in 0 .. c - 1
    BY <1>1
  <2>2. \E x \in S : Rank(S, R, x) = n - 1
    BY <1>1, <2>1
  <2> QED
    BY <2>2
<1>3. \A n \in 1 .. c : InOrder(S, R)[n] = At(n)
  BY DEF InOrder
<1>4. InOrder(S, R) \in [1 .. c -> S]
  BY <1>2 DEF InOrder
<1>5. ASSUME NEW x \in S PROVE /\ Rank(S, R, x) \in Nat /\ Rank(S, R, x) < c
                               /\ InOrder(S, R)[Rank(S, R, x) + 1] = x
  <2>1. Rank(S, R, x) + 1 \in 1 .. c
    BY <1>1
  <2> DEFINE y == At(Rank(S, R, x) + 1)
  <2>2. y \in S /\ Rank(S, R, y) = Rank(S, R, x)
    BY <1>1, <1>2, <2>1
  <2>3. y = x
    <3> HIDE DEF y
    <3>1. x = y \/ <<x, y>> \in R \/ <<y, x>> \in R
      BY <2>2 DEF StrictOrder
    <3> QED
      BY <1>1, <2>2, <3>1
  <2>4. Rank(S, R, x) \in Nat /\ Rank(S, R, x) < c
    BY <1>1
  <2> QED
    BY <1>3, <2>1, <2>3, <2>4
<1> QED
  BY <1>1, <1>2, <1>3, <1>4, <1>5

LEMMA RankGrows ==
    ASSUME NEW S, NEW T, IsFiniteSet(T), S \subseteq T, NEW R, NEW Q, NEW x,
           \A y \in S : <<y, x>> \in R => <<y, x>> \in Q
    PROVE  /\ Rank(S, R, x) \in Nat /\ Rank(T, Q, x) \in Nat
           /\ Rank(S, R, x) <= Rank(T, Q, x)
<1> DEFINE A == {y \in S : <<y, x>> \in R}
           B == {y \in T : <<y, x>> \in Q}
<1>1. B \in SUBSET T /\ A \in SUBSET B
  OBVIOUS
<1>2. IsFiniteSet(B) /\ IsFiniteSet(A) /\ Cardinality(A) <= Cardinality(B)
  BY <1>1, FS_Subset
<1>3. Rank(S, R, x) = Cardinality(A) /\ Rank(T, Q, x) = Cardinality(B)
  BY DEF Rank
<1> QED
  BY <1>2, <1>3, FS_CardinalityType

LEMMA MaxOfTwo ==
    ASSUME NEW a \in Int, NEW b \in Int
    PROVE  Max({a, b}) = (IF a >= b THEN a ELSE b) /\ Min({a, b}) = (IF a <= b THEN a ELSE b)
BY DEF Max, Min

\* A bounded set of numbers has a greatest and a least one.
LEMMA BoundedMax ==
    ASSUME NEW T \in SUBSET Nat, T # {}, NEW b \in Nat, \A d \in T : d <= b
    PROVE  /\ Max(T) \in T /\ \A d \in T : d <= Max(T)
           /\ Min(T) \in T /\ \A d \in T : Min(T) <= d
<1> DEFINE U == {n \in Nat : \A d \in T : d <= n}
<1>1. U \in SUBSET Nat /\ U # {}
  OBVIOUS
<1>2. PICK m \in U : \A k \in U : m <= k
  BY <1>1, LeastOf
<1>3. m \in T
  <2> SUFFICES ASSUME m \notin T PROVE FALSE
    OBVIOUS
  <2>1. m \in Nat /\ \A d \in T : d \in Nat /\ d <= m /\ d # m
    BY <1>2
  <2>2. \A d \in T : d <= m - 1
    BY <2>1
  <2>3. m - 1 \in Nat
    <3>1. PICK d \in T : TRUE
      OBVIOUS
    <3> QED
      BY <2>1, <3>1
  <2>4. m - 1 \in U
    BY <2>2, <2>3
  <2> QED
    BY <1>2, <2>1, <2>4
<1>4. \A d \in T : d <= m
  BY <1>2
<1>5. Max(T) \in T /\ \A d \in T : d <= Max(T)
  <2>1. \E x \in T : \A y \in T : x >= y
    BY <1>3, <1>4
  <2>2. Max(T) \in T /\ \A y \in T : Max(T) >= y
    BY <2>1 DEF Max
  <2> QED
    BY <2>2
<1>6. Min(T) \in T /\ \A d \in T : Min(T) <= d
  <2>1. \E x \in T : \A y \in T : x <= y
    BY LeastOf
  <2> QED
    BY <2>1 DEF Min
<1> QED
  BY <1>5, <1>6

-----------------------------------------------------------------------------
(* An incremental dataset.                                                   *)

SeenItem == [id : Items, date : Nat]
WmRounds == [at : {"idle", "page", "store"}, since : Nat, page : Nat \ {0}, seen : Seq(SeenItem),
             cut : BOOLEAN, todo : Seq(SeenItem), limit : Nat, start : Nat]
WmStates == [saved : BOOLEAN, watermark : Nat, start : Nat]

\* Items turn up in their order, and none is dated in the future.
UpstreamFits ==
    /\ wmNow \in Nat
    /\ wmDate \in [Items -> Nat] /\ \A i \in Items : wmDate[i] <= wmNow
    /\ IsFiniteSet(Published)
    /\ \A i \in Published : \A j \in Items : j < i => j \in Published

\* The watermark is of the past, and a round runs from the state it has found.
StateFits ==
    /\ wmState \in WmStates /\ wmRound \in WmRounds
    /\ wmState.watermark <= wmNow /\ wmState.start <= wmNow
    /\ ~ wmState.saved => wmState.watermark = 0 /\ wmState.start = 0
    /\ wmRound.at # "idle" => /\ wmRound.since <= wmNow /\ wmRound.start <= wmNow
                              /\ wmState.saved => wmState.start = wmRound.start

\* What a round has fetched was published with that date or an earlier one.
SeenFits ==
    wmRound.at # "idle" =>
      \A k \in DOMAIN wmRound.seen :
        /\ wmRound.seen[k].id \in Published
        /\ wmRound.since <= wmRound.seen[k].date
        /\ wmRound.seen[k].date <= wmDate[wmRound.seen[k].id]

SeenIds == {wmRound.seen[k].id : k \in DOMAIN wmRound.seen}
Missed == {i \in Listed(wmRound.since) : i \notin SeenIds /\ i \notin wmLate}
NotPassed(i) == \A k \in DOMAIN wmRound.seen : wmRound.seen[k].date <= wmDate[i]
Place(since, i) == Rank(Listed(since), ListOrder(since), i)

\* What the pages read so far have missed is on a page to come, or is newer
\* than all that was fetched.
PageFits ==
    wmRound.at = "page" =>
      /\ Len(wmRound.seen) = (wmRound.page - 1) * PageSize
      /\ Len(wmRound.seen) <= Cardinality(Listed(wmRound.since))
      /\ \A i \in Missed : Len(wmRound.seen) <= Place(wmRound.since, i) \/ (wmKind # "bugs" /\ NotPassed(i))

\* Once the last page is there, only newer items have been missed, unless the
\* round was truncated, and what was fetched is stored or to be stored.
StoreFits ==
    wmRound.at = "store" =>
      /\ ~ wmRound.cut => \A i \in Missed : NotPassed(i)
      /\ \A k \in DOMAIN wmRound.seen :
           \/ wmRound.seen[k].id \in wmStored
           \/ \E n \in DOMAIN wmRound.todo : wmRound.todo[n].id = wmRound.seen[k].id

\* What lies before the window of the round is covered already.
Covered == wmStored \cup wmLate \cup wmCut
BehindFits ==
    wmRound.at # "idle" =>
      \A i \in Published : wmRound.start <= wmDate[i] /\ wmDate[i] < wmRound.since => i \in Covered

WatermarkInv == UpstreamFits /\ StateFits /\ SeenFits /\ PageFits /\ StoreFits /\ BehindFits /\ WatermarkCovers

\* The upstream list holds each open item at its place.
LEMMA ListingIs ==
    ASSUME UpstreamFits, NEW since \in Nat
    PROVE  /\ IsFiniteSet(Listed(since)) /\ Cardinality(Listed(since)) \in Nat
           /\ Listing(since) \in [1 .. Cardinality(Listed(since)) -> Listed(since)]
           /\ \A i \in Listed(since) : /\ Place(since, i) \in Nat /\ Place(since, i) < Cardinality(Listed(since))
                                       /\ Listing(since)[Place(since, i) + 1] = i
           /\ \A n \in 1 .. Cardinality(Listed(since)) : Place(since, Listing(since)[n]) = n - 1
<1> DEFINE L == Listed(since)
           R == ListOrder(since)
<1>1. L \in SUBSET Published
  BY DEF Listed
<1>2. IsFiniteSet(L)
  BY <1>1, FS_Subset DEF UpstreamFits
<1>3. \A i \in L : i \in Int /\ wmDate[i] \in Nat
  BY WatermarkAssumption DEF Listed, Published, UpstreamFits
<1>4. \A i, j \in L : <<i, j>> \in R <=> Precedes(i, j)
  BY DEF ListOrder
<1>5. StrictOrder(L, R)
  <2> HIDE DEF L, R
  <2>1. \A x \in L : <<x, x>> \notin R
    BY <1>3, <1>4 DEF Precedes
  <2>2. ASSUME NEW x \in L, NEW y \in L, NEW z \in L, <<x, y>> \in R, <<y, z>> \in R
        PROVE  <<x, z>> \in R
    <3>1. Precedes(x, y) /\ Precedes(y, z)
      BY <1>4, <2>2
    <3>2. /\ x \in Int /\ y \in Int /\ z \in Int
          /\ wmDate[x] \in Nat /\ wmDate[y] \in Nat /\ wmDate[z] \in Nat
      BY <1>3
    <3>3. Precedes(x, z)
      BY <3>1, <3>2 DEF Precedes
    <3> QED
      BY <1>4, <3>3
  <2>3. ASSUME NEW x \in L, NEW y \in L PROVE x = y \/ <<x, y>> \in R \/ <<y, x>> \in R
    <3>1. x \in Int /\ y \in Int /\ wmDate[x] \in Nat /\ wmDate[y] \in Nat
      BY <1>3
    <3>2. x = y \/ Precedes(x, y) \/ Precedes(y, x)
      BY <3>1 DEF Precedes
    <3> QED
      BY <1>4, <3>2
  <2> QED
    BY <2>1, <2>2, <2>3 DEF StrictOrder
<1>6. Cardinality(L) \in Nat
  BY <1>2, FS_CardinalityType
<1> QED
  BY <1>2, <1>5, <1>6, InOrderIsAll DEF Listing, Place

LEMMA PlaceOrders ==
    ASSUME UpstreamFits, NEW since \in Nat, NEW i \in Listed(since), NEW j \in Listed(since),
           Place(since, i) < Place(since, j), wmKind # "bugs"
    PROVE  wmDate[j] <= wmDate[i]
<1>1. IsFiniteSet(Listed(since))
  BY ListingIs
<1>2. /\ \A x \in Listed(since) : x \in Int /\ wmDate[x] \in Nat
      /\ \A x, y \in Listed(since) : <<x, y>> \in ListOrder(since) <=> Precedes(x, y)
  <2>1. \A x \in Listed(since) : x \in Int /\ wmDate[x] \in Nat
    BY WatermarkAssumption DEF Listed, Published, UpstreamFits
  <2>2. \A x, y \in Listed(since) : <<x, y>> \in ListOrder(since) <=> Precedes(x, y)
    BY DEF ListOrder
  <2> QED
    BY <2>1, <2>2
<1>3. SUFFICES ASSUME wmDate[i] < wmDate[j] PROVE FALSE
  BY <1>2
<1>4. ASSUME NEW y \in Listed(since), <<y, j>> \in ListOrder(since) PROVE <<y, i>> \in ListOrder(since)
  <2>1. Precedes(y, j)
    BY <1>2, <1>4
  <2>2. Precedes(y, i)
    BY <1>2, <1>3, <2>1 DEF Precedes
  <2> QED
    BY <1>2, <2>2
<1>5. /\ Place(since, i) \in Nat /\ Place(since, j) \in Nat
      /\ Place(since, j) <= Place(since, i)
  <2>1. Rank(Listed(since), ListOrder(since), j) <= Rank(Listed(since), ListOrder(since), i)
    <3> DEFINE L == Listed(since)
               A == {y \in L : <<y, j>> \in ListOrder(since)}
               B == {y \in L : <<y, i>> \in ListOrder(since)}
    <3>1. A \in SUBSET B /\ B \in SUBSET L
      BY <1>4
    <3>2. Cardinality(A) <= Cardinality(B)
      BY <1>1, <3>1, FS_Subset
    <3> QED
      BY <3>2 DEF Rank
  <2> QED
    BY <2>1, ListingIs DEF Place
<1> QED
  BY <1>5

\* A page is a stretch of the list, short only at its end.
PageIs(since, before, batch) ==
    /\ batch \in Seq(SeenItem) /\ Len(batch) <= PageSize
    /\ Len(batch) < PageSize => Cardinality(Listed(since)) <= before + Len(batch)
    /\ before <= Cardinality(Listed(since)) => before + Len(batch) <= Cardinality(Listed(since))
    /\ \A k \in 1 .. Len(batch) : /\ batch[k].id \in Listed(since) /\ batch[k].date = wmDate[batch[k].id]
                                  /\ Place(since, batch[k].id) = before + k - 1
    /\ \A i \in Listed(since) : before <= Place(since, i) /\ Place(since, i) < before + Len(batch)
                                  => \E k \in 1 .. Len(batch) : batch[k].id = i

LEMMA PageOfIs ==
    ASSUME UpstreamFits, NEW since \in Nat, NEW page \in Nat \ {0}
    PROVE  (page - 1) * PageSize \in Nat /\ PageIs(since, (page - 1) * PageSize, PageOf(since, page))
<1> DEFINE before == (page - 1) * PageSize
           L == Listed(since)
           c == Cardinality(L)
           m == Min({PageSize, Max({0, c - before})})
           batch == PageOf(since, page)
<1>1. PageSize \in Nat /\ PageSize >= 1
  BY WatermarkAssumption
<1>2. before \in Nat
  <2>1. page - 1 \in Nat
    OBVIOUS
  <2> QED
    BY <1>1, <2>1
<1>3. /\ c \in Nat /\ Listing(since) \in [1 .. c -> L]
      /\ \A i \in L : /\ Place(since, i) \in Nat /\ Place(since, i) < c
                      /\ Listing(since)[Place(since, i) + 1] = i
      /\ \A n \in 1 .. c : Place(since, Listing(since)[n]) = n - 1
  BY ListingIs
<1>4. Len(Listing(since)) = c
  <2>1. Listing(since) \in Seq(L)
    BY <1>3
  <2>2. DOMAIN Listing(since) = 1 .. c /\ DOMAIN Listing(since) = 1 .. Len(Listing(since)) /\ Len(Listing(since)) \in Nat
    BY <1>3, <2>1
  <2> QED
    BY <1>3, <2>2
<1>5. m = (IF c - before <= 0 THEN 0 ELSE IF c - before >= PageSize THEN PageSize ELSE c - before)
  <2> DEFINE d == c - before
  <2>1. d \in Int
    BY <1>2, <1>3
  <2>2. Max({0, d}) = (IF 0 >= d THEN 0 ELSE d)
    BY <2>1, MaxOfTwo
  <2> DEFINE e == Max({0, d})
  <2>3. e \in Int /\ PageSize \in Int
    BY <1>1, <2>1, <2>2
  <2> HIDE DEF e
  <2>4. Min({PageSize, e}) = (IF PageSize <= e THEN PageSize ELSE e)
    BY <2>3, MaxOfTwo
  <2>5. m = Min({PageSize, e})
    BY DEF e
  <2> HIDE DEF d, m
  <2>6. e = (IF 0 >= d THEN 0 ELSE d)
    BY <2>2 DEF e
  <2>7. m = (IF d <= 0 THEN 0 ELSE IF d >= PageSize THEN PageSize ELSE d)
    BY <1>1, <2>1, <2>4, <2>5, <2>6
  <2> QED
    BY <2>7 DEF d
<1> DEFINE item(k) == Listing(since)[before + k]
<1>6. batch = [k \in 1 .. m |-> [id |-> item(k), date |-> wmDate[item(k)]]]
  BY <1>4 DEF PageOf
<1> HIDE DEF m, batch, before, c
<1>7. /\ m \in Nat /\ m <= PageSize
      /\ m < PageSize => c <= before + m
      /\ before <= c => before + m <= c
      /\ \A k \in 1 .. m : before + k \in 1 .. c
  BY <1>1, <1>2, <1>3, <1>5
<1>8. ASSUME NEW k \in 1 .. m
      PROVE  /\ item(k) \in L /\ item(k) \in Items /\ wmDate[item(k)] \in Nat
             /\ Place(since, item(k)) = before + k - 1
  <2>1. PICK n \in 1 .. c : n = before + k
    BY <1>7
  <2>2. Listing(since)[n] \in L /\ Place(since, Listing(since)[n]) = n - 1
    BY <1>3
  <2>4. item(k) = Listing(since)[n] /\ n - 1 = before + k - 1
    BY <1>2, <1>7, <2>1
  <2> HIDE DEF item
  <2>3. item(k) \in L /\ Place(since, item(k)) = before + k - 1
    BY <2>2, <2>4
  <2> QED
    BY <2>3 DEF Listed, Published, UpstreamFits
<1>9. batch \in [1 .. m -> SeenItem]
  BY <1>6, <1>8 DEF SeenItem
<1>10. batch \in Seq(SeenItem) /\ Len(batch) = m
  <2>1. batch \in Seq(SeenItem)
    BY <1>7, <1>9
  <2>2. DOMAIN batch = 1 .. m /\ DOMAIN batch = 1 .. Len(batch) /\ Len(batch) \in Nat
    BY <1>9, <2>1
  <2> QED
    BY <1>7, <2>1, <2>2
<1>11. \A k \in 1 .. m : batch[k].id = item(k) /\ batch[k].date = wmDate[item(k)]
  BY <1>6
<1>12. ASSUME NEW i \in L, before <= Place(since, i), Place(since, i) < before + m
       PROVE  \E k \in 1 .. m : batch[k].id = i
  <2>1. PICK q \in Nat : q = Place(since, i)
    BY <1>3
  <2>2. before <= q /\ q < before + m
    BY <1>12, <2>1
  <2>3. PICK k \in 1 .. m : before + k = q + 1
    <3>1. q + 1 - before \in 1 .. m /\ before + (q + 1 - before) = q + 1
      BY <1>2, <1>7, <2>2
    <3> QED
      BY <3>1
  <2>4. item(k) = i
    BY <1>3, <2>1, <2>3
  <2> QED
    BY <1>11, <2>4
<1>13. PageIs(since, before, batch)
  BY <1>7, <1>8, <1>10, <1>11, <1>12 DEF PageIs, c
<1> QED
  BY <1>2, <1>13 DEF before, batch

\* Sorting loses none of what was fetched.
LEMMA WorkOrderIs ==
    ASSUME NEW seen \in Seq(SeenItem)
    PROVE  /\ WorkOrder(seen) \in Seq(SeenItem) /\ Len(WorkOrder(seen)) = Len(seen)
           /\ \A k \in DOMAIN seen : \E n \in DOMAIN WorkOrder(seen) : WorkOrder(seen)[n] = seen[k]
<1> DEFINE D == DOMAIN seen
           R == ByDate(seen)
           w == [n \in D |-> seen[InOrder(D, R)[n]]]
<1>1. CASE wmKind = "commits"
  BY <1>1 DEF WorkOrder
<1>2. CASE wmKind # "commits"
  <2>1. /\ D = 1 .. Len(seen) /\ Len(seen) \in Nat
        /\ \A k \in D : k \in Int /\ seen[k] \in SeenItem /\ seen[k].date \in Nat
    <3>1. D = 1 .. Len(seen) /\ Len(seen) \in Nat /\ \A k \in D : seen[k] \in SeenItem
      OBVIOUS
    <3>2. \A x \in SeenItem : x.date \in Nat
      BY DEF SeenItem
    <3> QED
      BY <3>1, <3>2
  <2>2. IsFiniteSet(D) /\ Cardinality(D) = Len(seen)
    <3>1. IsFiniteSet(1 .. Len(seen))
          /\ Cardinality(1 .. Len(seen)) = IF 1 > Len(seen) THEN 0 ELSE Len(seen) - 1 + 1
      BY <2>1, FS_Interval
    <3> QED
      BY <2>1, <3>1
  <2>3. \A k, l \in D : <<k, l>> \in R <=> seen[k].date < seen[l].date \/ (seen[k].date = seen[l].date /\ k < l)
    BY DEF ByDate
  <2> HIDE DEF D, R
  <2>4. StrictOrder(D, R)
    <3>1. \A k \in D : <<k, k>> \notin R
      BY <2>1, <2>3
    <3>2. ASSUME NEW x \in D, NEW y \in D, NEW z \in D, <<x, y>> \in R, <<y, z>> \in R PROVE <<x, z>> \in R
      BY <2>1, <2>3, <3>2
    <3>3. ASSUME NEW x \in D, NEW y \in D PROVE x = y \/ <<x, y>> \in R \/ <<y, x>> \in R
      BY <2>1, <2>3
    <3> QED
      BY <3>1, <3>2, <3>3 DEF StrictOrder
  <2>5. /\ InOrder(D, R) \in [1 .. Cardinality(D) -> D]
        /\ \A k \in D : Rank(D, R, k) \in Nat /\ Rank(D, R, k) < Cardinality(D)
        /\ \A k \in D : InOrder(D, R)[Rank(D, R, k) + 1] = k
    BY <2>2, <2>4, InOrderIsAll
  <2>6. WorkOrder(seen) = w
    BY <1>2 DEF WorkOrder, D, R
  <2>7. w \in [1 .. Len(seen) -> SeenItem]
    BY <2>1, <2>2, <2>5
  <2>8. ASSUME NEW k \in D PROVE \E n \in D : w[n] = seen[k]
    <3>1. PICK n \in 1 .. Len(seen) : n = Rank(D, R, k) + 1
      BY <2>1, <2>2, <2>5
    <3>2. n \in D /\ InOrder(D, R)[n] = k
      BY <2>1, <2>5, <3>1
    <3> QED
      BY <3>2
  <2> HIDE DEF w
  <2>9. w \in Seq(SeenItem)
    BY <2>1, <2>7
  <2>10. DOMAIN w = D /\ DOMAIN w = 1 .. Len(w) /\ Len(w) \in Nat
    BY <2>1, <2>7, <2>9
  <2>11. Len(w) = Len(seen)
    BY <2>1, <2>10
  <2> QED
    BY <2>6, <2>8, <2>9, <2>10, <2>11 DEF D
<1> QED
  BY <1>1, <1>2

-----------------------------------------------------------------------------
(* Upstream: an item is published or changes.                                *)

LEMMA SeenIs ==
    ASSUME wmRound \in WmRounds
    PROVE  /\ wmRound.seen \in Seq(SeenItem) /\ DOMAIN wmRound.seen = 1 .. Len(wmRound.seen)
           /\ Len(wmRound.seen) \in Nat
           /\ \A k \in DOMAIN wmRound.seen : wmRound.seen[k].id \in Items /\ wmRound.seen[k].date \in Nat
<1>1. wmRound.seen \in Seq(SeenItem)
  BY DEF WmRounds
<1>2. \A x \in SeenItem : x.id \in Items /\ x.date \in Nat
  BY DEF SeenItem
<1>3. /\ DOMAIN wmRound.seen = 1 .. Len(wmRound.seen) /\ Len(wmRound.seen) \in Nat
      /\ \A k \in DOMAIN wmRound.seen : wmRound.seen[k] \in SeenItem
  BY <1>1
<1> QED
  BY <1>1, <1>2, <1>3

LEMMA DateGrows ==
    ASSUME WatermarkInv, NEW i \in Items, NEW d \in 1 .. wmNow, wmDate[i] < d,
           wmDate' = [wmDate EXCEPT ![i] = d], wmLate \subseteq wmLate',
           UNCHANGED <<wmKind, wmNow, wmStored, wmState, wmRound, wmCut>>,
           d = wmNow \/ i \in wmLate',
           wmDate[i] = 0 => \A j \in Items : j < i => wmDate[j] > 0,
           wmDate[i] > 0 /\ wmKind = "bugs" /\ wmRound.at # "idle" => i \in wmLate'
    PROVE  WatermarkInv'
<1>1. /\ wmNow \in Nat /\ Items \subseteq Nat /\ wmDate \in [Items -> Nat]
      /\ \A j \in Items : wmDate[j] <= wmNow
      /\ wmRound \in WmRounds /\ wmState \in WmStates
  BY WatermarkAssumption DEF WatermarkInv, UpstreamFits, StateFits
<1>2. /\ d \in Nat /\ d > 0 /\ d <= wmNow /\ wmDate' \in [Items -> Nat]
      /\ wmDate'[i] = d /\ \A j \in Items \ {i} : wmDate'[j] = wmDate[j]
  BY <1>1
<1>3. /\ Published' = Published \cup {i}
      /\ \A j \in Items : wmDate[j] <= wmDate'[j] /\ wmDate'[j] <= wmNow
  BY <1>1, <1>2 DEF Published
<1>4. UpstreamFits'
  <2>1. IsFiniteSet(Published')
    BY <1>3, FS_AddElement DEF WatermarkInv, UpstreamFits
  <2>2. ASSUME NEW k \in Published', NEW j \in Items, j < k PROVE j \in Published'
    <3>1. CASE k \in Published
      BY <1>3, <2>2, <3>1 DEF WatermarkInv, UpstreamFits
    <3>2. CASE k = i
      <4>1. CASE wmDate[i] = 0
        BY <1>1, <1>3, <2>2, <3>2, <4>1 DEF Published
      <4>2. CASE wmDate[i] # 0
        <5>1. i \in Published
          BY <1>1, <4>2 DEF Published
        <5> QED
          BY <1>3, <2>2, <3>2, <5>1 DEF WatermarkInv, UpstreamFits
      <4> QED
        BY <4>1, <4>2
    <3> QED
      BY <1>3, <3>1, <3>2
  <2> QED
    BY <1>1, <1>2, <1>3, <2>1, <2>2 DEF UpstreamFits
<1>5. StateFits'
  BY DEF WatermarkInv, StateFits
<1>6. SeenFits'
  <2> SUFFICES ASSUME wmRound.at # "idle", NEW k \in DOMAIN wmRound.seen
               PROVE  /\ wmRound.seen[k].id \in Published'
                      /\ wmRound.since <= wmRound.seen[k].date
                      /\ wmRound.seen[k].date <= wmDate'[wmRound.seen[k].id]
    BY DEF SeenFits
  <2>1. /\ wmRound.seen[k].id \in Published
        /\ wmRound.since <= wmRound.seen[k].date
        /\ wmRound.seen[k].date <= wmDate[wmRound.seen[k].id]
    BY DEF WatermarkInv, SeenFits
  <2>2. wmRound.seen[k].id \in Items /\ wmRound.seen[k].date \in Nat
    BY <1>1, SeenIs
  <2> QED
    BY <1>1, <1>2, <1>3, <2>1, <2>2
<1>7. ASSUME wmRound.at # "idle", i \notin wmLate' PROVE NotPassed(i)'
  <2> SUFFICES ASSUME NEW k \in DOMAIN wmRound.seen PROVE wmRound.seen[k].date <= wmDate'[i]
    BY DEF NotPassed
  <2>1. wmRound.seen[k].id \in Items /\ wmRound.seen[k].date \in Nat
    BY <1>1, SeenIs
  <2>2. wmRound.seen[k].date <= wmDate[wmRound.seen[k].id]
    BY <1>7 DEF WatermarkInv, SeenFits
  <2>3. d = wmNow
    BY <1>7
  <2>4. wmDate[wmRound.seen[k].id] \in Nat /\ wmDate[wmRound.seen[k].id] <= wmNow
    BY <1>1, <2>1
  <2>5. wmDate'[i] = wmNow
    BY <1>2, <2>3
  <2> QED
    BY <1>1, <2>1, <2>2, <2>4, <2>5
<1> DEFINE since == wmRound.since
           L == Listed(since)
           M == Listed(since)'
<1>8. since \in Nat
  BY <1>1 DEF WmRounds
<1>9. L \subseteq M /\ \A j \in M : j = i \/ j \in L
  BY <1>1, <1>2, <1>3, <1>8 DEF Listed, Published
<1>10. IsFiniteSet(L) /\ IsFiniteSet(M) /\ Cardinality(L) \in Nat /\ Cardinality(L) <= Cardinality(M)
  <2>1. M \in SUBSET Published'
    BY DEF Listed
  <2>2. IsFiniteSet(M)
    BY <1>4, <2>1, FS_Subset DEF UpstreamFits
  <2>3. IsFiniteSet(L) /\ Cardinality(L) <= Cardinality(M)
    BY <1>9, <2>2, FS_Subset
  <2> QED
    BY <2>2, <2>3, FS_CardinalityType
<1>11. ASSUME NEW j \in L, j # i
       PROVE  /\ Place(since, j) \in Nat /\ Place(since, j)' \in Nat
              /\ Place(since, j) <= Place(since, j)'
  <2>1. /\ \A x \in L : x \in Items /\ x \in Nat
        /\ \A x \in L : <<x, j>> \in ListOrder(since) => Precedes(x, j)
        /\ \A x \in M : j \in M /\ Precedes(x, j)' => <<x, j>> \in ListOrder(since)'
    BY <1>1 DEF Listed, Published, ListOrder
  <2>2. ASSUME NEW x \in L, <<x, j>> \in ListOrder(since) PROVE <<x, j>> \in ListOrder(since)'
    <3>1. Precedes(x, j)
      BY <2>1, <2>2
    <3>2. /\ x \in Nat /\ j \in Nat /\ wmDate[x] \in Nat /\ wmDate[j] \in Nat
          /\ wmDate'[j] = wmDate[j] /\ (wmDate'[x] = wmDate[x] \/ x = i)
      BY <1>1, <1>2, <1>11, <2>1
    <3>3. Precedes(x, j)'
      <4>1. CASE wmKind = "bugs" \/ x # i
        BY <1>2, <2>1, <3>1, <3>2, <4>1 DEF Precedes
      <4>2. CASE wmKind # "bugs" /\ x = i
        BY <1>2, <3>1, <3>2, <4>2 DEF Precedes
      <4> QED
        BY <4>1, <4>2
    <3> QED
      BY <1>9, <2>1, <3>3
  <2> QED
    BY <1>9, <1>10, <2>2, RankGrows DEF Place
<1>12. ASSUME wmRound.at # "idle", NEW j \in Missed'
       PROVE  \/ j = i /\ i \notin wmLate'
              \/ j # i /\ j \in L /\ j \in Missed /\ (NotPassed(j) => NotPassed(j)')
  <2>1. j \in M /\ j \notin SeenIds /\ j \notin wmLate' /\ j \notin wmLate
    BY DEF Missed, SeenIds
  <2>2. CASE j = i
    BY <2>1, <2>2
  <2>3. CASE j # i
    <3>1. j \in L /\ j \in Items
      BY <1>9, <2>1, <2>3 DEF Listed, Published
    <3>2. wmDate'[j] = wmDate[j]
      BY <1>2, <2>3, <3>1
    <3> QED
      BY <2>1, <2>3, <3>1, <3>2 DEF Missed, NotPassed
  <2> QED
    BY <2>2, <2>3
<1>13. PageFits'
  <2> SUFFICES ASSUME wmRound.at = "page" PROVE PageFits'
    BY DEF PageFits
  <2>1. /\ Len(wmRound.seen) = (wmRound.page - 1) * PageSize
        /\ Len(wmRound.seen) <= Cardinality(L)
        /\ \A j \in Missed : Len(wmRound.seen) <= Place(since, j) \/ (wmKind # "bugs" /\ NotPassed(j))
    BY DEF WatermarkInv, PageFits
  <2>2. Len(wmRound.seen) \in Nat
    BY <1>1 DEF WmRounds
  <2>3. Len(wmRound.seen) <= Cardinality(M)
    BY <1>10, <2>1, <2>2, FS_CardinalityType
  <2>4. ASSUME NEW j \in Missed' PROVE Len(wmRound.seen) <= Place(since, j)' \/ (wmKind # "bugs" /\ NotPassed(j)')
    <3>1. CASE j # i
      <4>1. j \in L /\ j \in Missed /\ (NotPassed(j) => NotPassed(j)')
        BY <1>12, <3>1
      <4>2. Len(wmRound.seen) <= Place(since, j) \/ (wmKind # "bugs" /\ NotPassed(j))
        BY <2>1, <4>1
      <4> QED
        BY <1>11, <2>2, <3>1, <4>1, <4>2
    <3>2. CASE j = i /\ wmKind # "bugs"
      BY <1>7, <1>12, <3>2
    <3>3. CASE j = i /\ wmKind = "bugs"
      <4>1. i \notin wmLate' /\ i \in M
        BY <1>12, <3>3 DEF Missed
      <4>2. wmDate[i] = 0
        BY <1>1, <3>3, <4>1
      <4>3. ASSUME NEW x \in L PROVE <<x, i>> \in ListOrder(since)'
        <5>1. x \in Published /\ x \in Items /\ x \in Nat /\ i \in Nat
          BY <1>1 DEF Listed, Published
        <5>2. ~ (i < x)
          <6>1. i < x => i \in Published
            BY <5>1 DEF WatermarkInv, UpstreamFits
          <6> QED
            BY <4>2, <6>1 DEF Published
        <5>3. x # i
          BY <4>2, <5>1 DEF Published
        <5>4. Precedes(x, i)'
          BY <3>3, <5>1, <5>2, <5>3 DEF Precedes
        <5> QED
          BY <1>9, <4>1, <5>4 DEF ListOrder
      <4> DEFINE B == {y \in M : <<y, i>> \in ListOrder(since)'}
      <4>4. L \in SUBSET B /\ B \in SUBSET M
        BY <1>9, <4>3
      <4>5. IsFiniteSet(B) /\ Cardinality(L) <= Cardinality(B)
        BY <1>10, <4>4, FS_Subset
      <4>6. Place(since, i)' = Cardinality(B)
        BY DEF Place, Rank
      <4>7. Cardinality(B) \in Nat
        BY <4>5, FS_CardinalityType
      <4> HIDE DEF B
      <4> QED
        BY <1>10, <2>1, <2>2, <3>3, <4>5, <4>6, <4>7
    <3> QED
      BY <3>1, <3>2, <3>3
  <2> QED
    BY <2>1, <2>3, <2>4 DEF PageFits
<1>14. StoreFits'
  <2> SUFFICES ASSUME wmRound.at = "store" PROVE StoreFits'
    BY DEF StoreFits
  <2>1. /\ ~ wmRound.cut => \A j \in Missed : NotPassed(j)
        /\ \A k \in DOMAIN wmRound.seen :
             \/ wmRound.seen[k].id \in wmStored
             \/ \E n \in DOMAIN wmRound.todo : wmRound.todo[n].id = wmRound.seen[k].id
    BY DEF WatermarkInv, StoreFits
  <2>2. ASSUME ~ wmRound.cut, NEW j \in Missed' PROVE NotPassed(j)'
    <3>1. CASE j = i /\ i \notin wmLate'
      BY <1>7, <3>1
    <3>2. CASE j # i
      BY <1>12, <2>1, <2>2, <3>2
    <3> QED
      BY <1>12, <3>1, <3>2
  <2> QED
    BY <2>1, <2>2 DEF StoreFits
<1>15. Covered \subseteq Covered'
  BY DEF Covered
<1>16. BehindFits'
  <2> SUFFICES ASSUME wmRound.at # "idle", NEW j \in Published', wmRound.start <= wmDate'[j], wmDate'[j] < wmRound.since
               PROVE  j \in Covered'
    BY DEF BehindFits
  <2>1. CASE j = i
    <3>1. wmRound.since <= wmNow
      BY DEF WatermarkInv, StateFits
    <3>2. d # wmNow
      BY <1>1, <1>2, <1>8, <2>1, <3>1
    <3> QED
      BY <2>1, <3>2 DEF Covered
  <2>2. CASE j # i
    <3>1. j \in Published /\ wmDate'[j] = wmDate[j]
      BY <1>2, <1>3, <2>2 DEF Published
    <3> QED
      BY <1>15, <3>1 DEF WatermarkInv, BehindFits
  <2> QED
    BY <2>1, <2>2
<1>17. WatermarkCovers'
  <2> SUFFICES ASSUME wmState.saved, NEW j \in Published', wmState.start <= wmDate'[j], wmDate'[j] < wmState.watermark
               PROVE  j \in Covered'
    BY DEF WatermarkCovers, Window, Covered
  <2>1. CASE j = i
    <3>1. wmState.watermark <= wmNow /\ wmState.watermark \in Nat
      BY <1>1 DEF WatermarkInv, StateFits, WmStates
    <3>2. d # wmNow
      BY <1>1, <1>2, <2>1, <3>1
    <3> QED
      BY <2>1, <3>2 DEF Covered
  <2>2. CASE j # i
    <3>1. j \in Published /\ wmDate'[j] = wmDate[j]
      BY <1>2, <1>3, <2>2 DEF Published
    <3>2. j \in Covered
      BY <3>1 DEF WatermarkInv, WatermarkCovers, Window, Covered
    <3> QED
      BY <1>15, <3>2
  <2> QED
    BY <2>1, <2>2
<1> QED
  BY <1>4, <1>5, <1>6, <1>13, <1>14, <1>16, <1>17 DEF WatermarkInv

-----------------------------------------------------------------------------
(* The round: pages, files, the state.                                       *)

LEMMA Joined ==
    ASSUME NEW s \in Seq(SeenItem), NEW b \in Seq(SeenItem)
    PROVE  /\ s \o b \in Seq(SeenItem) /\ Len(s \o b) = Len(s) + Len(b)
           /\ Len(s) \in Nat /\ Len(b) \in Nat
           /\ \A k \in 1 .. Len(s) : k \in DOMAIN (s \o b) /\ (s \o b)[k] = s[k]
           /\ \A k \in 1 .. Len(b) : Len(s) + k \in DOMAIN (s \o b) /\ (s \o b)[Len(s) + k] = b[k]
           /\ \A k \in DOMAIN (s \o b) : \/ (k \in 1 .. Len(s) /\ (s \o b)[k] = s[k])
                                         \/ \E l \in 1 .. Len(b) : (s \o b)[k] = b[l]
<1>1. /\ s \o b \in Seq(SeenItem) /\ Len(s \o b) = Len(s) + Len(b) /\ Len(s) \in Nat /\ Len(b) \in Nat
      /\ DOMAIN (s \o b) = 1 .. Len(s) + Len(b)
  OBVIOUS
<1>2. \A k \in 1 .. Len(s) + Len(b) : (s \o b)[k] = IF k <= Len(s) THEN s[k] ELSE b[k - Len(s)]
  OBVIOUS
<1>3. ASSUME NEW k \in 1 .. Len(s) PROVE k \in DOMAIN (s \o b) /\ (s \o b)[k] = s[k]
  BY <1>1, <1>2
<1>4. ASSUME NEW k \in 1 .. Len(b) PROVE Len(s) + k \in DOMAIN (s \o b) /\ (s \o b)[Len(s) + k] = b[k]
  <2>1. Len(s) + k \in 1 .. Len(s) + Len(b) /\ ~ (Len(s) + k <= Len(s)) /\ Len(s) + k - Len(s) = k
    BY <1>1
  <2> QED
    BY <1>1, <1>2, <2>1
<1>5. ASSUME NEW k \in DOMAIN (s \o b)
      PROVE  (k \in 1 .. Len(s) /\ (s \o b)[k] = s[k]) \/ \E l \in 1 .. Len(b) : (s \o b)[k] = b[l]
  <2>1. CASE k <= Len(s)
    BY <1>1, <1>2, <2>1
  <2>2. CASE ~ (k <= Len(s))
    <3>1. k - Len(s) \in 1 .. Len(b) /\ (s \o b)[k] = b[k - Len(s)]
      BY <1>1, <1>2, <2>2
    <3> QED
      BY <3>1
  <2> QED
    BY <2>1, <2>2
<1> QED
  BY <1>1, <1>3, <1>4, <1>5

LEMMA NextPage ==
    ASSUME NEW page \in Nat \ {0}
    PROVE  (page - 1) * PageSize + PageSize = (page + 1 - 1) * PageSize
<1>1. PageSize \in Nat
  BY WatermarkAssumption
<1> QED
  BY <1>1

LEMMA FetchKeeps ==
    ASSUME WatermarkInv, NEW low \in BOOLEAN, FetchPage(low)
    PROVE  WatermarkInv'
<1> DEFINE since == wmRound.since
           page == wmRound.page
           batch == PageOf(since, page)
           seen == wmRound.seen \o batch
           frontier == wmKind = "issues" /\ batch # <<>> /\ \A k \in DOMAIN batch : batch[k].date <= since
           ended == Len(batch) < PageSize \/ frontier
           quota == low /\ wmKind = "commits" /\ batch # <<>>
           cut == quota \/ (~ended /\ page = MaxPages)
           before == Len(wmRound.seen)
           ids == {seen[k].id : k \in DOMAIN seen}
<1>1. /\ wmRound.at = "page"
      /\ wmRound' = IF ended \/ cut
                    THEN [wmRound EXCEPT !.at = "store", !.seen = seen, !.cut = cut, !.todo = WorkOrder(seen)]
                    ELSE [wmRound EXCEPT !.seen = seen, !.page = @ + 1]
      /\ wmLate' = IF frontier THEN wmLate \cup ({i \in Published : wmDate[i] = since} \ ids) ELSE wmLate
      /\ UNCHANGED <<wmBegun, wmKind, wmNow, wmDate, wmStored, wmState, wmCut>>
  BY DEF FetchPage
<1>2. /\ wmRound \in WmRounds /\ wmState \in WmStates /\ wmNow \in Nat /\ wmDate \in [Items -> Nat]
      /\ UpstreamFits /\ PageSize \in Nat /\ PageSize >= 1
  <2>1. UpstreamFits /\ StateFits
    BY DEF WatermarkInv
  <2>2. PageSize \in Nat /\ PageSize >= 1
    BY WatermarkAssumption
  <2> QED
    BY <2>1, <2>2 DEF UpstreamFits, StateFits
<1>3. since \in Nat /\ page \in Nat \ {0} /\ wmRound.seen \in Seq(SeenItem) /\ before \in Nat
  BY <1>2 DEF WmRounds
<1>4. /\ before = (page - 1) * PageSize /\ before <= Cardinality(Listed(since))
      /\ \A i \in Missed : before <= Place(since, i) \/ (wmKind # "bugs" /\ NotPassed(i))
  BY <1>1 DEF WatermarkInv, PageFits
<1>5. PageIs(since, before, batch)
  BY <1>2, <1>3, <1>4, PageOfIs
<1> HIDE DEF batch
<1>6. batch \in Seq(SeenItem) /\ Len(batch) \in Nat /\ Len(batch) <= PageSize
  BY <1>5 DEF PageIs
<1>7. /\ seen \in Seq(SeenItem) /\ Len(seen) = before + Len(batch)
      /\ \A k \in 1 .. before : k \in DOMAIN seen /\ seen[k] = wmRound.seen[k]
      /\ \A k \in 1 .. Len(batch) : before + k \in DOMAIN seen /\ seen[before + k] = batch[k]
      /\ \A k \in DOMAIN seen : \/ (k \in 1 .. before /\ seen[k] = wmRound.seen[k])
                                \/ \E l \in 1 .. Len(batch) : seen[k] = batch[l]
  BY <1>3, <1>6, Joined
<1> HIDE DEF seen
<1>8. DOMAIN wmRound.seen = 1 .. before
  BY <1>3
<1>9. /\ \A i \in Listed(since) : /\ i \in Published /\ i \in Items /\ wmDate[i] \in Nat /\ since <= wmDate[i]
                                  /\ Place(since, i) \in Nat
                                  /\ Place(since, i) < Cardinality(Listed(since))
      /\ Cardinality(Listed(since)) \in Nat
  <2>1. \A i \in Listed(since) : i \in Published /\ i \in Items /\ wmDate[i] \in Nat /\ since <= wmDate[i]
    BY <1>2, <1>3 DEF Listed, Published
  <2> QED
    BY <1>2, <1>3, <2>1, ListingIs
<1>10. \A k \in 1 .. Len(batch) : /\ batch[k].id \in Listed(since) /\ batch[k].date = wmDate[batch[k].id]
                                  /\ Place(since, batch[k].id) = before + k - 1
  BY <1>5 DEF PageIs
\* What the round now has fetched is as it was published.
<1>11. ASSUME NEW k \in DOMAIN seen
       PROVE  /\ seen[k].id \in Published /\ since <= seen[k].date
              /\ seen[k].date <= wmDate[seen[k].id]
  <2>1. CASE k \in 1 .. before /\ seen[k] = wmRound.seen[k]
    BY <1>1, <1>8, <2>1 DEF WatermarkInv, SeenFits
  <2>2. CASE \E l \in 1 .. Len(batch) : seen[k] = batch[l]
    <3>1. PICK l \in 1 .. Len(batch) : seen[k] = batch[l]
      BY <2>2
    <3>2. batch[l].id \in Listed(since) /\ batch[l].date = wmDate[batch[l].id]
      BY <1>10
    <3>3. /\ batch[l].id \in Published /\ since <= wmDate[batch[l].id]
          /\ wmDate[batch[l].id] \in Nat
      BY <1>9, <3>2
    <3> QED
      BY <3>1, <3>2, <3>3
  <2> QED
    BY <1>7, <2>1, <2>2
\* What is still missed lies on the pages to come or is newer than all of it.
<1>12. ASSUME NEW i \in Listed(since), i \notin ids, i \notin wmLate
       PROVE  \/ before + Len(batch) <= Place(since, i)
              \/ wmKind # "bugs" /\ \A k \in DOMAIN seen : seen[k].date <= wmDate[i]
  <2>1. i \in Missed
    <3>1. \A k \in DOMAIN wmRound.seen : wmRound.seen[k].id # i
      BY <1>7, <1>8, <1>12
    <3> QED
      BY <1>12, <3>1 DEF Missed, SeenIds
  <2>2. CASE before <= Place(since, i)
    <3>1. ~ (Place(since, i) < before + Len(batch))
      <4>1. SUFFICES ASSUME Place(since, i) < before + Len(batch) PROVE FALSE
        OBVIOUS
      <4>2. PICK k \in 1 .. Len(batch) : batch[k].id = i
        BY <1>5, <2>2, <4>1 DEF PageIs
      <4>3. before + k \in DOMAIN seen /\ seen[before + k].id = i
        BY <1>7, <4>2
      <4> QED
        BY <1>12, <4>3
    <3> QED
      BY <1>3, <1>6, <1>9, <3>1
  <2>3. CASE ~ (before <= Place(since, i))
    <3>1. wmKind # "bugs" /\ NotPassed(i)
      BY <1>4, <2>1, <2>3
    <3>2. ASSUME NEW l \in 1 .. Len(batch) PROVE batch[l].date <= wmDate[i]
      <4>1. PICK j \in Listed(since) : j = batch[l].id
        BY <1>10
      <4>2. Place(since, j) = before + l - 1 /\ batch[l].date = wmDate[j]
        BY <1>10, <4>1
      <4>3. Place(since, i) < Place(since, j)
        BY <1>3, <1>6, <1>9, <2>3, <4>2
      <4>4. wmDate[j] <= wmDate[i]
        BY <1>2, <1>3, <3>1, <4>3, PlaceOrders
      <4> QED
        BY <4>2, <4>4
    <3>3. ASSUME NEW k \in DOMAIN seen PROVE seen[k].date <= wmDate[i]
      BY <1>7, <1>8, <3>1, <3>2 DEF NotPassed
    <3> QED
      BY <3>1, <3>3
  <2> QED
    BY <2>2, <2>3
<1>13. /\ WorkOrder(seen) \in Seq(SeenItem)
       /\ \A k \in DOMAIN seen : \E n \in DOMAIN WorkOrder(seen) : WorkOrder(seen)[n] = seen[k]
  BY <1>7, WorkOrderIs
<1> HIDE DEF ended, frontier, cut, ids
<1>14. wmLate \subseteq wmLate' /\ Covered \subseteq Covered'
  BY <1>1 DEF Covered
<1>15. /\ wmRound' \in WmRounds /\ wmRound'.seen = seen /\ wmRound'.since = since
       /\ wmRound'.start = wmRound.start /\ wmRound'.at # "idle"
       /\ wmRound'.at = "page" => wmRound'.page = page + 1 /\ ~ (ended \/ cut)
       /\ wmRound'.at = "store" => wmRound'.cut = cut /\ wmRound'.todo = WorkOrder(seen) /\ (ended \/ cut)
  <2>1. cut \in BOOLEAN /\ page + 1 \in Nat \ {0}
    BY <1>3 DEF cut
  <2>2. CASE ended \/ cut
    <3>1. wmRound' = [wmRound EXCEPT !.at = "store", !.seen = seen, !.cut = cut, !.todo = WorkOrder(seen)]
      BY <1>1, <2>2
    <3> QED
      BY <1>2, <1>7, <1>13, <2>1, <2>2, <3>1 DEF WmRounds
  <2>3. CASE ~ (ended \/ cut)
    <3>1. wmRound' = [wmRound EXCEPT !.seen = seen, !.page = @ + 1]
      BY <1>1, <2>3
    <3> QED
      BY <1>1, <1>2, <1>3, <1>7, <2>1, <2>3, <3>1 DEF WmRounds
  <2> QED
    BY <2>2, <2>3
<1>16. UpstreamFits'
  BY <1>1, <1>2 DEF UpstreamFits, Published
<1>17. StateFits'
  BY <1>1, <1>15 DEF WatermarkInv, StateFits
<1>18. SeenFits'
  BY <1>1, <1>11, <1>15 DEF SeenFits, Published
<1>19. ASSUME NEW i \in Missed'
       PROVE  /\ i \in Listed(since) /\ i \notin ids /\ i \notin wmLate /\ i \notin wmLate'
              /\ (\A k \in DOMAIN seen : seen[k].date <= wmDate[i]) => NotPassed(i)'
  BY <1>1, <1>14, <1>15 DEF Missed, SeenIds, NotPassed, Listed, Published, ids
<1>20. PageFits'
  <2> SUFFICES ASSUME wmRound'.at = "page" PROVE PageFits'
    BY DEF PageFits
  <2>1. wmRound'.page = page + 1 /\ ~ (Len(batch) < PageSize)
    BY <1>15 DEF ended
  <2>2. Len(seen) = (page + 1 - 1) * PageSize
    BY <1>2, <1>3, <1>4, <1>6, <1>7, <2>1, NextPage
  <2>3. Len(seen) <= Cardinality(Listed(since))
    BY <1>4, <1>5, <1>7 DEF PageIs
  <2>4. Listed(since)' = Listed(since) /\ ListOrder(since)' = ListOrder(since)
    BY <1>1, <1>15 DEF Listed, Published, ListOrder, Precedes
  <2>5. \A i \in Missed' : Len(seen) <= Place(since, i) \/ (wmKind # "bugs" /\ NotPassed(i)')
    BY <1>7, <1>12, <1>19
  <2>6. \A i \in Missed' : Place(since, i)' = Place(since, i)
    BY <2>4 DEF Place
  <2>7. (Len(wmRound.seen) = (wmRound.page - 1) * PageSize)'
    <3>1. PICK q \in Nat \ {0} : q = page + 1
      BY <1>3
    <3>2. wmRound'.page = q /\ wmRound'.seen = seen
      BY <1>15, <2>1, <3>1
    <3>3. Len(seen) = (q - 1) * PageSize
      BY <1>3, <2>2, <3>1
    <3> QED
      BY <3>2, <3>3
  <2>8. (Len(wmRound.seen) <= Cardinality(Listed(wmRound.since)))'
    BY <1>15, <2>3, <2>4
  <2>9. (\A i \in Missed : Len(wmRound.seen) <= Place(wmRound.since, i) \/ (wmKind # "bugs" /\ NotPassed(i)))'
    BY <1>1, <1>15, <2>5, <2>6
  <2> QED
    BY <2>7, <2>8, <2>9 DEF PageFits
<1>21. StoreFits'
  <2> SUFFICES ASSUME wmRound'.at = "store" PROVE StoreFits'
    BY DEF StoreFits
  <2>1. ASSUME ~ cut, NEW i \in Missed' PROVE NotPassed(i)'
    <3>1. ended
      BY <1>15, <2>1
    <3>2. SUFFICES ASSUME before + Len(batch) <= Place(since, i) PROVE FALSE
      BY <1>12, <1>19
    <3>3. i \in Listed(since)
      BY <1>19
    <3>4. CASE Len(batch) < PageSize
      BY <1>3, <1>5, <1>6, <1>9, <3>2, <3>3, <3>4 DEF PageIs
    <3>5. CASE frontier
      <4>1. wmKind # "bugs" /\ 1 \in 1 .. Len(batch) /\ batch[1].date <= since
        BY <1>6, <3>5 DEF frontier
      <4>2. PICK j \in Listed(since) : j = batch[1].id
        BY <1>10, <4>1
      <4>3. Place(since, j) = before + 1 - 1 /\ batch[1].date = wmDate[j]
        BY <1>10, <4>1, <4>2
      <4>4. Place(since, j) < Place(since, i)
        BY <1>3, <1>6, <1>9, <3>2, <3>3, <4>1, <4>3
      <4>5. wmDate[i] <= wmDate[j]
        BY <1>2, <1>3, <3>3, <4>1, <4>4, PlaceOrders
      <4>6. wmDate[i] = since
        BY <1>3, <1>9, <3>3, <4>1, <4>2, <4>3, <4>5
      <4>7. i \in wmLate'
        BY <1>1, <1>9, <1>19, <3>3, <3>5, <4>6
      <4> QED
        BY <1>19, <4>7
    <3> QED
      BY <3>1, <3>4, <3>5 DEF ended
  <2>2. ASSUME NEW k \in DOMAIN seen
        PROVE  \E n \in DOMAIN WorkOrder(seen) : WorkOrder(seen)[n].id = seen[k].id
    BY <1>13
  <2> QED
    BY <1>15, <2>1, <2>2 DEF StoreFits
<1>22. BehindFits' /\ WatermarkCovers'
  <2>1. BehindFits'
    BY <1>1, <1>14, <1>15 DEF WatermarkInv, BehindFits, Published
  <2>2. WatermarkCovers'
    BY <1>1, <1>14 DEF WatermarkInv, WatermarkCovers, Window, Published, Covered
  <2> QED
    BY <2>1, <2>2
<1> QED
  BY <1>16, <1>17, <1>18, <1>20, <1>21, <1>22 DEF WatermarkInv

LEMMA IdleRound ==
    ASSUME wmRound = Asleep
    PROVE  SeenFits /\ PageFits /\ StoreFits /\ BehindFits /\ wmRound.at = "idle" /\ wmRound \in WmRounds
<1>1. wmRound.at = "idle"
  BY DEF Asleep
<1>2. <<>> \in Seq(SeenItem)
  OBVIOUS
<1>3. wmRound \in WmRounds
  BY <1>2 DEF Asleep, WmRounds
<1> QED
  BY <1>1, <1>3 DEF SeenFits, PageFits, StoreFits, BehindFits

LEMMA SameUpstream ==
    ASSUME UpstreamFits, UNCHANGED <<wmNow, wmDate>>
    PROVE  UpstreamFits' /\ Published' = Published
BY DEF UpstreamFits, Published

LEMMA ListedNow ==
    UpstreamFits /\ wmRound.since \in Nat
      => /\ Cardinality(Listed(wmRound.since)) \in Nat
         /\ \A i \in Listed(wmRound.since) : Place(wmRound.since, i) \in Nat
BY ListingIs

LEMMA BeginKeeps ==
    ASSUME WatermarkInv, NEW since \in {Resolved, wmNow}, NEW limit \in Limits, BeginRound(since, limit)
    PROVE  WatermarkInv'
<1>1. /\ wmRound.at = "idle"
      /\ wmRound' = [Asleep EXCEPT !.at = "page", !.since = since, !.limit = limit, !.start = Loaded.start]
      /\ wmLate' = wmLate \cup {i \in Published : Resolved <= wmDate[i] /\ wmDate[i] < since}
      /\ UNCHANGED <<wmKind, wmNow, wmDate, wmStored, wmState, wmCut>>
  BY DEF BeginRound
<1>2. /\ wmState \in WmStates /\ wmNow \in Nat /\ wmDate \in [Items -> Nat]
      /\ wmState.watermark <= wmNow /\ wmState.start <= wmNow
      /\ ~ wmState.saved => wmState.watermark = 0 /\ wmState.start = 0
  BY DEF WatermarkInv, UpstreamFits, StateFits
<1>3. /\ wmState.watermark \in Nat /\ wmState.start \in Nat /\ wmState.saved \in BOOLEAN
      /\ Interval \in Nat /\ limit \in Nat
  BY <1>2, WatermarkAssumption DEF WmStates
<1>4. /\ Loaded.start \in Nat /\ Loaded.start <= wmNow /\ Loaded.watermark = wmState.watermark
      /\ wmState.saved => Loaded.start = wmState.start
  <2>1. CASE wmState.saved
    BY <1>2, <1>3, <2>1 DEF Loaded
  <2>2. CASE ~ wmState.saved
    <3>1. PICK e : e = Max({0, wmNow - Interval})
      OBVIOUS
    <3>2. e = (IF 0 >= wmNow - Interval THEN 0 ELSE wmNow - Interval)
      BY <1>2, <1>3, <3>1, MaxOfTwo
    <3>3. e \in Nat /\ e <= wmNow
      BY <1>2, <1>3, <3>2
    <3>4. Loaded = [wmState EXCEPT !.start = e]
      BY <2>2, <3>1 DEF Loaded
    <3> QED
      BY <1>2, <2>2, <3>3, <3>4 DEF WmStates
  <2> QED
    BY <2>1, <2>2
<1>5. Resolved = IF wmState.watermark > 0 THEN wmState.watermark ELSE Loaded.start
  BY <1>4 DEF Resolved
<1>6. Resolved \in Nat /\ since \in Nat /\ since <= wmNow
  BY <1>2, <1>3, <1>4, <1>5
<1>7. /\ wmRound' \in WmRounds /\ wmRound'.at = "page" /\ wmRound'.since = since /\ wmRound'.start = Loaded.start
      /\ wmRound'.seen = <<>> /\ wmRound'.page = 1
  <2>1. <<>> \in Seq(SeenItem)
    OBVIOUS
  <2>2. wmRound' = [at |-> "page", since |-> since, page |-> 1, seen |-> <<>>, cut |-> FALSE, todo |-> <<>>,
                    limit |-> limit, start |-> Loaded.start]
    BY <1>1 DEF Asleep
  <2> QED
    BY <1>3, <1>4, <1>6, <2>1, <2>2 DEF WmRounds
<1>8. UpstreamFits' /\ Published' = Published
  BY <1>1, SameUpstream DEF WatermarkInv
<1>9. StateFits'
  BY <1>1, <1>2, <1>4, <1>6, <1>7 DEF StateFits
<1>10. SeenFits' /\ StoreFits'
  BY <1>7 DEF SeenFits, StoreFits
<1>11. PageFits'
  <2>1. /\ Cardinality(Listed(wmRound.since)') \in Nat
        /\ \A i \in Listed(wmRound.since)' : Place(wmRound.since, i)' \in Nat
    <3>1. (UpstreamFits /\ wmRound.since \in Nat
             => /\ Cardinality(Listed(wmRound.since)) \in Nat
                /\ \A i \in Listed(wmRound.since) : Place(wmRound.since, i) \in Nat)'
      BY ListedNow, PTL
    <3> QED
      BY <1>6, <1>7, <1>8, <3>1
  <2>2. (1 - 1) * PageSize = 0
    BY WatermarkAssumption
  <2>3. \A i \in Missed' : i \in Listed(wmRound.since)'
    BY DEF Missed
  <2> QED
    BY <1>7, <2>1, <2>2, <2>3 DEF PageFits
<1>12. Covered \subseteq Covered'
  BY <1>1 DEF Covered
<1>13. BehindFits'
  <2> SUFFICES ASSUME NEW i \in Published, Loaded.start <= wmDate[i], wmDate[i] < since PROVE i \in Covered'
    BY <1>1, <1>7, <1>8 DEF BehindFits
  <2>1. i \in Items /\ wmDate[i] \in Nat
    BY <1>2 DEF Published
  <2>2. CASE Resolved <= wmDate[i]
    BY <1>1, <2>2 DEF Covered
  <2>3. CASE wmDate[i] < Resolved
    <3>1. wmState.watermark > 0 /\ wmDate[i] < wmState.watermark
      BY <1>3, <1>4, <1>5, <2>1, <2>3
    <3>2. wmState.saved /\ wmState.start <= wmDate[i]
      BY <1>2, <1>3, <1>4, <3>1
    <3>3. i \in Covered
      BY <3>1, <3>2 DEF WatermarkInv, WatermarkCovers, Window, Covered
    <3> QED
      BY <1>12, <3>3
  <2> QED
    BY <1>6, <2>1, <2>2, <2>3
<1>14. WatermarkCovers'
  BY <1>1, <1>12 DEF WatermarkInv, WatermarkCovers, Window, Published, Covered
<1> QED
  BY <1>8, <1>9, <1>10, <1>11, <1>13, <1>14 DEF WatermarkInv

LEMMA StoreKeeps ==
    ASSUME WatermarkInv, StoreNext
    PROVE  WatermarkInv'
<1>1. /\ wmRound.at = "store" /\ wmRound.todo # <<>>
      /\ wmStored' = wmStored \cup {Head(wmRound.todo).id}
      /\ wmRound' = [wmRound EXCEPT !.todo = Tail(@)]
      /\ UNCHANGED <<wmKind, wmNow, wmDate, wmState, wmLate, wmCut>>
  BY DEF StoreNext
<1>2. wmRound \in WmRounds /\ wmState \in WmStates
  BY DEF WatermarkInv, StateFits
<1>3. wmRound.todo \in Seq(SeenItem)
  BY <1>2 DEF WmRounds
<1>4. /\ Tail(wmRound.todo) \in Seq(SeenItem) /\ Head(wmRound.todo) = wmRound.todo[1]
      /\ \A n \in DOMAIN wmRound.todo :
           n = 1 \/ \E m \in DOMAIN Tail(wmRound.todo) : Tail(wmRound.todo)[m] = wmRound.todo[n]
  <2>1. /\ Tail(wmRound.todo) \in Seq(SeenItem) /\ Head(wmRound.todo) = wmRound.todo[1]
        /\ Len(wmRound.todo) \in Nat /\ DOMAIN wmRound.todo = 1 .. Len(wmRound.todo)
        /\ DOMAIN Tail(wmRound.todo) = 1 .. Len(wmRound.todo) - 1
        /\ \A m \in 1 .. Len(wmRound.todo) - 1 : Tail(wmRound.todo)[m] = wmRound.todo[m + 1]
    BY <1>1, <1>3
  <2>2. ASSUME NEW n \in DOMAIN wmRound.todo, n # 1
        PROVE  \E m \in DOMAIN Tail(wmRound.todo) : Tail(wmRound.todo)[m] = wmRound.todo[n]
    <3>1. n - 1 \in 1 .. Len(wmRound.todo) - 1 /\ n - 1 + 1 = n
      BY <2>1, <2>2
    <3> QED
      BY <2>1, <3>1
  <2> QED
    BY <2>1, <2>2
<1>5. /\ wmRound' \in WmRounds /\ wmRound'.at = "store" /\ wmRound'.seen = wmRound.seen /\ wmRound'.cut = wmRound.cut
      /\ wmRound'.since = wmRound.since /\ wmRound'.start = wmRound.start /\ wmRound'.todo = Tail(wmRound.todo)
  BY <1>1, <1>2, <1>4 DEF WmRounds
<1>6. UpstreamFits' /\ Published' = Published
  BY <1>1, SameUpstream DEF WatermarkInv
<1>7. StateFits' /\ SeenFits' /\ PageFits'
  <2>1. StateFits'
    BY <1>1, <1>5 DEF WatermarkInv, StateFits
  <2>2. SeenFits'
    BY <1>1, <1>5, <1>6 DEF WatermarkInv, SeenFits
  <2>3. PageFits'
    BY <1>5 DEF PageFits
  <2> QED
    BY <2>1, <2>2, <2>3
<1>8. StoreFits'
  <2>1. ~ wmRound.cut => \A i \in Missed' : NotPassed(i)'
    <3>1. \A i \in Missed' : i \in Missed /\ (NotPassed(i) => NotPassed(i)')
      BY <1>1, <1>5 DEF Missed, Listed, Published, SeenIds, NotPassed
    <3> QED
      BY <1>1, <3>1 DEF WatermarkInv, StoreFits
  <2>2. ASSUME NEW k \in DOMAIN wmRound.seen
        PROVE  \/ wmRound.seen[k].id \in wmStored'
               \/ \E n \in DOMAIN wmRound'.todo : wmRound'.todo[n].id = wmRound.seen[k].id
    <3>1. CASE wmRound.seen[k].id \in wmStored
      BY <1>1, <3>1
    <3>2. CASE \E n \in DOMAIN wmRound.todo : wmRound.todo[n].id = wmRound.seen[k].id
      <4>1. PICK n \in DOMAIN wmRound.todo : wmRound.todo[n].id = wmRound.seen[k].id
        BY <3>2
      <4> QED
        BY <1>1, <1>4, <1>5, <4>1
    <3> QED
      BY <1>1, <3>1, <3>2 DEF WatermarkInv, StoreFits
  <2> QED
    BY <1>5, <2>1, <2>2 DEF StoreFits
<1>9. Covered \subseteq Covered'
  BY <1>1 DEF Covered
<1>10. BehindFits' /\ WatermarkCovers'
  <2>1. BehindFits'
    BY <1>1, <1>5, <1>6, <1>9 DEF WatermarkInv, BehindFits
  <2>2. WatermarkCovers'
    BY <1>1, <1>9 DEF WatermarkInv, WatermarkCovers, Window, Published, Covered
  <2> QED
    BY <2>1, <2>2
<1> QED
  BY <1>6, <1>7, <1>8, <1>10 DEF WatermarkInv

\* However a round ends, what is left to show is that the state it saves keeps
\* its promise.
LEMMA RoundEnds ==
    ASSUME WatermarkInv, wmRound' = Asleep, UNCHANGED <<wmKind, wmNow, wmDate>>,
           wmState' \in WmStates, wmState'.watermark <= wmNow, wmState'.start <= wmNow,
           ~ wmState'.saved => wmState'.watermark = 0 /\ wmState'.start = 0,
           WatermarkCovers'
    PROVE  WatermarkInv'
<1>1. SeenFits' /\ PageFits' /\ StoreFits' /\ BehindFits' /\ wmRound'.at = "idle" /\ wmRound' \in WmRounds
  <2>1. (wmRound = Asleep => SeenFits /\ PageFits /\ StoreFits /\ BehindFits /\ wmRound.at = "idle" /\ wmRound \in WmRounds)'
    BY IdleRound, PTL
  <2>2. (wmRound = Asleep)'
    BY DEF Asleep
  <2> QED
    BY <2>1, <2>2
<1>2. UpstreamFits'
  BY SameUpstream DEF WatermarkInv
<1>3. StateFits'
  BY <1>1 DEF StateFits
<1> QED
  BY <1>1, <1>2, <1>3 DEF WatermarkInv

LEMMA FailKeepsState ==
    ASSUME WatermarkInv, FailRound
    PROVE  WatermarkInv'
<1>1. /\ wmRound.at # "idle" /\ wmState' = [saved |-> TRUE, watermark |-> wmState.watermark, start |-> wmRound.start]
      /\ wmRound' = Asleep
      /\ UNCHANGED <<wmKind, wmNow, wmDate, wmStored, wmLate, wmCut>>
  BY DEF FailRound, FailedState
<1>2. /\ wmState \in WmStates /\ wmRound \in WmRounds
      /\ wmState.watermark <= wmNow /\ wmRound.start <= wmNow
      /\ ~ wmState.saved => wmState.watermark = 0
      /\ wmState.saved => wmState.start = wmRound.start
      /\ wmDate \in [Items -> Nat]
  BY <1>1 DEF WatermarkInv, StateFits, UpstreamFits
<1>3. /\ wmState.watermark \in Nat /\ wmRound.start \in Nat /\ wmState.saved \in BOOLEAN
  BY <1>2 DEF WmStates, WmRounds
<1>4. /\ wmState' \in WmStates /\ wmState'.saved
      /\ wmState'.watermark = wmState.watermark /\ wmState'.start = wmRound.start
  BY <1>1, <1>3 DEF WmStates
<1>5. WatermarkCovers'
  <2> SUFFICES ASSUME NEW i \in Published, wmRound.start <= wmDate[i], wmDate[i] < wmState.watermark
               PROVE  i \in Covered
    BY <1>1, <1>4 DEF WatermarkCovers, Window, Published, Covered
  <2>1. wmState.saved
    BY <1>2, <1>3 DEF Published
  <2> QED
    BY <1>2, <2>1 DEF WatermarkInv, WatermarkCovers, Window, Covered
<1> QED
  BY <1>1, <1>2, <1>4, <1>5, RoundEnds

LEMMA CrashKeeps ==
    ASSUME WatermarkInv, CrashRound
    PROVE  WatermarkInv'
<1>1. wmRound' = Asleep /\ UNCHANGED <<wmKind, wmNow, wmDate, wmStored, wmState, wmLate, wmCut>>
  BY DEF CrashRound
<1>2. /\ wmState \in WmStates /\ wmState.watermark <= wmNow /\ wmState.start <= wmNow
      /\ ~ wmState.saved => wmState.watermark = 0 /\ wmState.start = 0
  BY DEF WatermarkInv, StateFits
<1>3. WatermarkCovers'
  BY <1>1 DEF WatermarkInv, WatermarkCovers, Window, Published
<1> QED
  BY <1>1, <1>2, <1>3, RoundEnds

\* The watermark goes to the newest date that was fetched, or to the oldest one
\* when the round was truncated or kept to its limit.
LEMMA EndKeeps ==
    ASSUME WatermarkInv, EndRound
    PROVE  WatermarkInv'
<1>1. /\ wmRound.at = "store" /\ (wmRound.todo = <<>> \/ Limited)
      /\ wmState' = [saved |-> TRUE, watermark |-> NewWatermark, start |-> wmRound.start]
      /\ wmCut' = IF wmRound.cut THEN wmCut \cup (Published \ SeenIds) ELSE wmCut
      /\ wmRound' = Asleep
      /\ UNCHANGED <<wmKind, wmNow, wmDate, wmStored, wmLate>>
  BY DEF EndRound, SeenIds
<1>2. /\ wmState \in WmStates /\ wmRound \in WmRounds /\ wmNow \in Nat /\ wmDate \in [Items -> Nat]
      /\ \A i \in Items : wmDate[i] <= wmNow
      /\ wmState.watermark <= wmNow /\ wmRound.start <= wmNow
      /\ ~ wmState.saved => wmState.watermark = 0
      /\ wmState.saved => wmState.start = wmRound.start
  BY <1>1 DEF WatermarkInv, StateFits, UpstreamFits
<1>3. /\ wmState.watermark \in Nat /\ wmRound.start \in Nat /\ wmState.saved \in BOOLEAN
      /\ wmRound.since \in Nat /\ wmRound.cut \in BOOLEAN
      /\ \A k \in DOMAIN wmRound.seen : wmRound.seen[k].id \in Items /\ wmRound.seen[k].date \in Nat
  BY <1>2, SeenIs DEF WmStates, WmRounds
<1>4. \A k \in DOMAIN wmRound.seen : /\ wmRound.seen[k].date <= wmDate[wmRound.seen[k].id]
                                      /\ wmRound.seen[k].date <= wmNow
  <2> SUFFICES ASSUME NEW k \in DOMAIN wmRound.seen
               PROVE  /\ wmRound.seen[k].date <= wmDate[wmRound.seen[k].id]
                      /\ wmRound.seen[k].date <= wmNow
    OBVIOUS
  <2>1. wmRound.seen[k].date <= wmDate[wmRound.seen[k].id]
    BY <1>1 DEF WatermarkInv, SeenFits
  <2>2. wmDate[wmRound.seen[k].id] \in Nat /\ wmDate[wmRound.seen[k].id] <= wmNow
    BY <1>2, <1>3
  <2> QED
    BY <1>2, <1>3, <2>1, <2>2
<1>5. /\ Dates \in SUBSET Nat /\ \A d \in Dates : d <= wmNow
      /\ \A k \in DOMAIN wmRound.seen : wmRound.seen[k].date \in Dates
      /\ \A d \in Dates : \E k \in DOMAIN wmRound.seen : d = wmRound.seen[k].date
  BY <1>3, <1>4 DEF Dates
<1>6. CASE Dates = {}
  <2>1. NewWatermark = wmState.watermark
    BY <1>6 DEF NewWatermark
  <2>2. wmState' \in WmStates /\ wmState'.saved /\ wmState'.watermark = wmState.watermark /\ wmState'.start = wmRound.start
    BY <1>1, <1>3, <2>1 DEF WmStates
  <2>3. WatermarkCovers'
    <3> SUFFICES ASSUME NEW i \in Published, wmRound.start <= wmDate[i], wmDate[i] < wmState.watermark
                 PROVE  i \in Covered'
      BY <1>1, <2>2 DEF WatermarkCovers, Window, Published, Covered
    <3>1. wmState.saved
      BY <1>2, <1>3 DEF Published
    <3>2. i \in Covered
      BY <1>2, <3>1 DEF WatermarkInv, WatermarkCovers, Window, Covered
    <3> QED
      BY <1>1, <3>2 DEF Covered
  <2> QED
    BY <1>1, <1>2, <2>2, <2>3, RoundEnds
<1>7. CASE Dates # {}
  <2>1. /\ Max(Dates) \in Dates /\ \A d \in Dates : d <= Max(Dates)
        /\ Min(Dates) \in Dates /\ \A d \in Dates : Min(Dates) <= d
    BY <1>2, <1>5, <1>7, BoundedMax
  <2>2. NewWatermark = IF wmRound.cut \/ Limited THEN Min(Dates) ELSE Max(Dates)
    BY <1>7 DEF NewWatermark
  <2>3. NewWatermark \in Dates /\ NewWatermark \in Nat /\ NewWatermark <= wmNow
    BY <1>5, <2>1, <2>2
  <2> HIDE DEF NewWatermark
  <2>4. /\ wmState' \in WmStates /\ wmState'.saved /\ wmState'.watermark = NewWatermark
        /\ wmState'.start = wmRound.start
    BY <1>1, <1>3, <2>3 DEF WmStates
  <2>5. WatermarkCovers'
    <3> SUFFICES ASSUME NEW i \in Published, wmRound.start <= wmDate[i], wmDate[i] < NewWatermark,
                        i \notin Covered'
                 PROVE  FALSE
      BY <1>1, <2>4 DEF WatermarkCovers, Window, Published, Covered
    <3>1. i \in Items /\ wmDate[i] \in Nat /\ i \notin Covered
      BY <1>1, <1>2 DEF Published, Covered
    <3>2. wmRound.since <= wmDate[i]
      <4>1. ~ (wmDate[i] < wmRound.since)
        BY <1>1, <3>1 DEF WatermarkInv, BehindFits
      <4> QED
        BY <1>3, <3>1, <4>1
    <3>3. i \in Listed(wmRound.since) /\ i \notin wmLate /\ i \notin wmStored
      BY <3>1, <3>2 DEF Listed, Covered
    <3>4. CASE i \in SeenIds
      <4>1. PICK k \in DOMAIN wmRound.seen : wmRound.seen[k].id = i
        BY <3>4 DEF SeenIds
      <4>2. wmRound.seen[k].date <= wmDate[i] /\ wmRound.seen[k].date \in Dates
        BY <1>4, <1>5, <4>1
      <4>3. CASE wmRound.cut \/ Limited
        <5>1. NewWatermark = Min(Dates)
          BY <2>2, <4>3
        <5>2. NewWatermark <= wmRound.seen[k].date
          BY <2>1, <4>2, <5>1
        <5> QED
          BY <1>3, <2>3, <3>1, <4>2, <5>2
      <4>4. CASE ~ (wmRound.cut \/ Limited)
        <5>1. wmRound.todo = <<>>
          BY <1>1, <4>4
        <5>2. DOMAIN wmRound.todo = {}
          BY <5>1
        <5> QED
          BY <1>1, <3>3, <4>1, <5>2 DEF WatermarkInv, StoreFits
      <4> QED
        BY <4>3, <4>4
    <3>5. CASE i \notin SeenIds
      <4>1. ~ wmRound.cut
        BY <1>1, <3>5 DEF Covered
      <4>2. i \in Missed
        BY <3>3, <3>5 DEF Missed
      <4>3. NotPassed(i)
        BY <1>1, <4>1, <4>2 DEF WatermarkInv, StoreFits
      <4>4. \A d \in Dates : d <= wmDate[i]
        BY <1>5, <4>3 DEF NotPassed
      <4> QED
        BY <2>3, <3>1, <4>4
    <3> QED
      BY <3>4, <3>5
  <2> QED
    BY <1>1, <1>2, <2>3, <2>4, <2>5, RoundEnds
<1> QED
  BY <1>6, <1>7

LEMMA TickKeeps ==
    ASSUME WatermarkInv, WmTick
    PROVE  WatermarkInv'
<1>1. wmNow' = wmNow + 1 /\ UNCHANGED <<wmBegun, wmKind, wmDate, wmStored, wmState, wmRound, wmLate, wmCut>>
  BY DEF WmTick
<1>2. wmNow \in Nat /\ wmDate \in [Items -> Nat] /\ wmState \in WmStates /\ wmRound \in WmRounds
  BY DEF WatermarkInv, UpstreamFits, StateFits
<1>3. UpstreamFits'
  BY <1>1, <1>2 DEF WatermarkInv, UpstreamFits, Published
<1>4. StateFits'
  <2>1. wmState.watermark \in Nat /\ wmState.start \in Nat /\ wmRound.since \in Nat /\ wmRound.start \in Nat
    BY <1>2 DEF WmStates, WmRounds
  <2> QED
    BY <1>1, <1>2, <2>1 DEF WatermarkInv, StateFits
<1>5. SeenFits' /\ StoreFits' /\ BehindFits' /\ WatermarkCovers'
  BY <1>1 DEF WatermarkInv, SeenFits, StoreFits, BehindFits, WatermarkCovers, Window, Missed, SeenIds, NotPassed,
              Listed, Published, Covered
<1>6. PageFits'
  BY <1>1 DEF WatermarkInv, PageFits, Missed, SeenIds, NotPassed, Place, Rank, ListOrder, Precedes, Listed, Published
<1> QED
  BY <1>3, <1>4, <1>5, <1>6 DEF WatermarkInv

LEMMA WatermarkStep == WatermarkInv /\ [WmNext]_wmVars => WatermarkInv'
<1> SUFFICES ASSUME WatermarkInv, [WmNext]_wmVars PROVE WatermarkInv'
  OBVIOUS
<1>1. ASSUME NEW i \in Items, NEW d \in 1 .. wmNow, Publish(i, d) PROVE WatermarkInv'
  <2>1. /\ wmDate[i] = 0 /\ (\A j \in Items : j < i => wmDate[j] > 0)
        /\ wmDate' = [wmDate EXCEPT ![i] = d]
        /\ wmLate' = IF d < wmNow THEN wmLate \cup {i} ELSE wmLate
        /\ UNCHANGED <<wmKind, wmNow, wmStored, wmState, wmRound, wmCut>>
    BY <1>1 DEF Publish
  <2>2. wmDate[i] < d /\ (d = wmNow \/ i \in wmLate') /\ wmLate \subseteq wmLate' /\ ~ (wmDate[i] > 0)
    BY <2>1 DEF WatermarkInv, UpstreamFits
  <2> QED
    BY <2>1, <2>2, DateGrows
<1>2. ASSUME NEW i \in Items, Touch(i) PROVE WatermarkInv'
  <2>1. /\ wmKind # "commits" /\ wmDate[i] \in 1..(wmNow - 1)
        /\ wmDate' = [wmDate EXCEPT ![i] = wmNow]
        /\ wmLate' = IF wmKind = "bugs" /\ wmRound.at # "idle" THEN wmLate \cup {i} ELSE wmLate
        /\ UNCHANGED <<wmKind, wmNow, wmStored, wmState, wmRound, wmCut>>
    BY <1>2 DEF Touch
  <2>2. wmNow \in Nat
    BY DEF WatermarkInv, UpstreamFits
  <2>3. /\ wmNow \in 1 .. wmNow /\ wmDate[i] < wmNow /\ wmDate[i] # 0 /\ wmLate \subseteq wmLate'
        /\ (wmKind = "bugs" /\ wmRound.at # "idle" => i \in wmLate')
    BY <2>1, <2>2
  <2> QED
    BY <2>1, <2>3, DateGrows
<1>3. ASSUME NEW since \in {Resolved, wmNow}, NEW limit \in Limits, BeginRound(since, limit) PROVE WatermarkInv'
  BY <1>3, BeginKeeps
<1>4. ASSUME NEW low \in BOOLEAN, FetchPage(low) PROVE WatermarkInv'
  BY <1>4, FetchKeeps
<1>5. CASE UNCHANGED wmVars
  BY <1>5 DEF wmVars, WatermarkInv, UpstreamFits, StateFits, SeenFits, PageFits, StoreFits, BehindFits, WatermarkCovers,
              Window, Missed, SeenIds, NotPassed, Place, Rank, ListOrder, Precedes, Listed, Published, Covered
<1> QED
  BY <1>1, <1>2, <1>3, <1>4, <1>5, TickKeeps, StoreKeeps, EndKeeps, FailKeepsState, CrashKeeps DEF WmNext

LEMMA WatermarkStart == WmInit => WatermarkInv
<1> SUFFICES ASSUME WmInit PROVE WatermarkInv
  OBVIOUS
<1>1. SeenFits /\ PageFits /\ StoreFits /\ BehindFits /\ wmRound.at = "idle" /\ wmRound \in WmRounds
  BY IdleRound DEF WmInit
<1>2. wmDate = [i \in Items |-> 0] /\ wmNow = 1 /\ Published = {}
  BY DEF WmInit, Published
<1>3. UpstreamFits
  BY <1>2, FS_EmptySet DEF UpstreamFits
<1>4. StateFits
  BY <1>1, <1>2 DEF WmInit, StateFits, WmStates
<1>5. WatermarkCovers
  BY DEF WmInit, WatermarkCovers
<1> QED
  BY <1>1, <1>3, <1>4, <1>5 DEF WatermarkInv

\* An item dated in the window the dataset started with and before the watermark
\* has its file, whatever order pages are read, items turn up and change, and
\* rounds fail, are truncated or die in, with the exceptions the two histories
\* name: for any number of items, dates, pages and rounds.
THEOREM WatermarkKeepsCovering == WmInit /\ [][WmNext]_wmVars => []WatermarkCovers
<1>1. WatermarkInv => WatermarkCovers
  BY DEF WatermarkInv
<1> QED
  BY <1>1, WatermarkStart, WatermarkStep, PTL


-----------------------------------------------------------------------------
(* The mailing list dataset.                                                 *)

Pages == Parts \X Nat
BatchType == [made : BOOLEAN, raw : SUBSET Pages, lines : SUBSET Pages, done : SUBSET Parts, failed : SUBSET Pages]

\* How many records the batch has only decides when it is full.
RoundType(n) ==
    [at : {"idle", "part", "page"}, active : Nat, files : {n}, growing : Nat, targets : SUBSET Parts,
     owners : [Parts -> Nat], index : SUBSET Pages, fresh : SUBSET Pages, known : SUBSET Pages, records : SUBSET Pages]
EmType ==
    /\ emUp \in [Parts -> Nat]
    /\ emDisk \in [1 .. Batches -> BatchType]
    /\ \E n : emRound \in RoundType(n)

\* The parts there are upstream are the oldest ones.
UpTo(n) == \A p \in Parts : emUp[p] > 0 <=> p <= n
UpFits == \E n \in Parts : UpTo(n)

\* A round writes to a batch there is, and visits no part that is not upstream.
RoundFits ==
    emRound.at # "idle" =>
      /\ emRound.active \in Made
      /\ emRound.growing \in Parts /\ emRound.growing <= Newest
      /\ \A p \in emRound.targets : p <= emRound.growing
      /\ \A p \in Parts : emRound.owners[p] \in Made \cup {0}

\* Of the part being fetched, the pages that need no fetching any more are on
\* disk or recorded as gone, and the index is whole unless the part still grows.
OnDisk(page) == \E c \in Made : page \in emDisk[c].raw \cup emDisk[c].failed
PartFits ==
    emRound.at = "page" =>
      /\ emRound.targets # {}
      /\ \A page \in emRound.known : OnDisk(page)
      /\ NextPart # emRound.growing => \A n \in 1 .. emUp[NextPart] : <<NextPart, n>> \in emRound.index

\* Only the active batch has pages that are still to be listed.
Unlisted(b) == IF b = emRound.active THEN emRound.records ELSE {}
ListingFits ==
    /\ emRound.at # "page" => emRound.records = {}
    /\ \A b \in Made : emDisk[b].raw \ emDisk[b].lines \subseteq emOrphans \cup Unlisted(b)

\* A part that is done is whole, and no longer the one that grows.
DoneFits ==
    \A b \in Made : \A p \in emDisk[b].done :
      p < Newest /\ \A n \in 1 .. emUp[p] : OnDisk(<<p, n>>)

\* A batch whose directory was never made has no files.
UnmadeFits == \A b \in (1 .. Batches) \ Made : emDisk[b].raw = {} /\ emDisk[b].done = {}

EmailInv == EmType /\ UnmadeFits /\ UpFits /\ RoundFits /\ PartFits /\ ListingFits /\ DoneFits

LEMMA InvIsListed == EmailInv => BatchesAreListed
BY DEF EmailInv, DoneFits, ListingFits, BatchesAreListed, DoneIsWhole, PagesAreListed, OnDisk, Unlisted

LEMMA NewestIs ==
    ASSUME EmType, NEW n \in Parts, UpTo(n)
    PROVE  Newest = n
<1> DEFINE T == {p \in Parts : emUp[p] > 0}
<1>1. MaxParts \in Nat
  BY EmailAssumption
<1>2. T \in SUBSET Nat /\ n \in T /\ \A p \in T : p <= n
  BY DEF UpTo, Parts
<1>3. Max(T) \in T /\ \A p \in T : p <= Max(T)
  BY <1>1, <1>2, BoundedMax DEF Parts
<1>4. Newest = Max(T)
  BY DEF Newest
<1>5. Max(T) <= n /\ n <= Max(T) /\ n \in Nat /\ Max(T) \in Nat
  BY <1>1, <1>2, <1>3 DEF Parts
<1> QED
  BY <1>4, <1>5

LEMMA NewestFits ==
    ASSUME EmType, UpFits
    PROVE  /\ Newest \in Parts /\ Newest \in Nat /\ UpTo(Newest) /\ MaxParts \in Nat
           /\ \A p \in Parts : p \in Nat
<1>1. PICK n \in Parts : UpTo(n)
  BY DEF UpFits
<1>2. Newest = n
  BY <1>1, NewestIs
<1> QED
  BY <1>1, <1>2, EmailAssumption DEF Parts

LEMMA MadeIs ==
    ASSUME EmType
    PROVE  /\ Batches \in Nat /\ 1 \in 1 .. Batches
           /\ \A b \in Made : b \in 1 .. Batches /\ b \in Nat /\ emDisk[b] \in BatchType
           /\ Made # {} => Max(Made) \in Made
           /\ \A T \in SUBSET (0 .. Batches) : T # {} => Max(T) \in T /\ \A d \in T : d <= Max(T)
<1>1. Batches \in Nat /\ 1 \in 1 .. Batches
  BY EmailAssumption
<1>2. \A b \in Made : b \in 1 .. Batches /\ b \in Nat /\ emDisk[b] \in BatchType
  <2>1. \A b \in 1 .. Batches : b \in Nat /\ emDisk[b] \in BatchType
    BY <1>1 DEF EmType
  <2> QED
    BY <2>1 DEF Made
<1>3. ASSUME NEW T \in SUBSET (0 .. Batches), T # {} PROVE Max(T) \in T /\ \A d \in T : d <= Max(T)
  <2>1. T \in SUBSET Nat /\ \A d \in T : d <= Batches
    BY <1>1
  <2> QED
    BY <1>1, <1>3, <2>1, BoundedMax
<1>4. Made \in SUBSET (0 .. Batches)
  BY <1>1, <1>2
<1> QED
  BY <1>1, <1>2, <1>3, <1>4

LEMMA NextPartIs ==
    ASSUME EmType, emRound.targets # {}
    PROVE  NextPart \in emRound.targets /\ NextPart \in Parts /\ NextPart \in Nat
<1>1. emRound.targets \in SUBSET Parts
  BY DEF EmType, RoundType
<1>2. MaxParts \in Nat
  BY EmailAssumption
<1>3. emRound.targets \in SUBSET Nat /\ \A p \in emRound.targets : p <= MaxParts
  BY <1>1, <1>2 DEF Parts
<1>4. Min(emRound.targets) \in emRound.targets
  BY <1>2, <1>3, BoundedMax
<1> QED
  BY <1>1, <1>3, <1>4 DEF NextPart

LEMMA FirstIs ==
    ASSUME NEW S \in SUBSET Pages, S # {}
    PROVE  FirstOf(S) \in S
<1> DEFINE T == {page[2] : page \in S}
<1>1. T \in SUBSET Nat /\ T # {}
  BY DEF Pages
<1>2. PICK m \in T : \A k \in T : m <= k
  BY <1>1, LeastOf
<1>3. \E page \in S : \A other \in S : page[2] <= other[2]
  BY <1>2
<1> QED
  BY <1>3 DEF FirstOf

LEMMA UpToIs ==
    ASSUME NEW n \in Parts
    PROVE  Max({p \in Parts : p <= n}) = n
<1> DEFINE T == {p \in Parts : p <= n}
<1>1. MaxParts \in Nat /\ n \in Nat
  BY EmailAssumption DEF Parts
<1>2. T \in SUBSET Nat /\ n \in T /\ \A p \in T : p <= n
  BY <1>1 DEF Parts
<1>3. Max(T) \in T /\ \A p \in T : p <= Max(T)
  BY <1>1, <1>2, BoundedMax
<1>4. Max(T) <= n /\ n <= Max(T) /\ Max(T) \in Nat
  BY <1>2, <1>3
<1> QED
  BY <1>1, <1>4

\* Mail arrives and parts are opened: the parts that are done do not grow.
LEMMA UpGrows ==
    ASSUME EmailInv, emUp' \in [Parts -> Nat], NEW n \in Parts, UpTo(n)', Newest <= n,
           \A p \in Parts : p < Newest => emUp'[p] = emUp[p],
           UNCHANGED <<emDisk, emRound, emOrphans>>
    PROVE  EmailInv'
<1>1. EmType /\ UpFits /\ EmType'
  BY DEF EmailInv, EmType
<1>2. Newest \in Parts /\ Newest \in Nat /\ \A p \in Parts : p \in Nat
  BY <1>1, NewestFits
<1>3. UpFits' /\ UnmadeFits'
  BY DEF UpFits, EmailInv, UnmadeFits, Made
<1>4. Newest' = n
  <2>1. \A p \in Parts : emUp'[p] > 0 <=> p <= n
    BY DEF UpTo
  <2>2. {p \in Parts : emUp'[p] > 0} = {p \in Parts : p <= n}
    BY <2>1
  <2>3. Newest' = Max({p \in Parts : p <= n})
    BY <2>2 DEF Newest
  <2> QED
    BY <2>3, UpToIs
<1>5. RoundFits'
  <2> SUFFICES ASSUME emRound.at # "idle" PROVE RoundFits'
    BY DEF RoundFits
  <2>0. emRound.growing \in Parts /\ emRound.growing <= Newest
    BY DEF EmailInv, RoundFits
  <2>1. emRound.growing \in Nat /\ emRound.growing <= Newest'
    <3>1. emRound.growing \in Nat /\ n \in Nat
      BY <1>2, <2>0
    <3> QED
      BY <1>2, <1>4, <2>0, <3>1
  <2> QED
    BY <2>1 DEF EmailInv, RoundFits, Made
<1>6. PartFits'
  <2> SUFFICES ASSUME emRound.at = "page" PROVE PartFits'
    BY DEF PartFits
  <2>1. emRound.targets # {} /\ \A page \in emRound.known : OnDisk(page)
    BY DEF EmailInv, PartFits
  <2>2. NextPart' = NextPart /\ NextPart \in emRound.targets /\ NextPart \in Parts
    BY <1>1, <2>1, NextPartIs DEF NextPart
  <2>3. ASSUME NextPart # emRound.growing PROVE emUp'[NextPart] = emUp[NextPart]
    <3>1. NextPart <= emRound.growing /\ emRound.growing <= Newest /\ emRound.growing \in Parts
      BY <2>2 DEF EmailInv, RoundFits
    <3>2. NextPart < Newest
      <4>1. NextPart \in Nat /\ emRound.growing \in Nat /\ Newest \in Nat
        BY <1>2, <2>2, <3>1
      <4> QED
        BY <2>3, <3>1, <4>1
    <3> QED
      BY <2>2, <3>2
  <2>4. \A page \in emRound.known : OnDisk(page)'
    BY <2>1 DEF OnDisk, Made
  <2>5. NextPart # emRound.growing => \A k \in 1 .. emUp'[NextPart] : <<NextPart, k>> \in emRound.index
    BY <2>3 DEF EmailInv, PartFits
  <2> QED
    BY <2>1, <2>2, <2>4, <2>5 DEF PartFits
<1>7. ListingFits'
  BY DEF EmailInv, ListingFits, Made, Unlisted
<1>8. DoneFits'
  <2> SUFFICES ASSUME NEW b \in Made, NEW p \in emDisk[b].done
               PROVE  p < Newest' /\ \A k \in 1 .. emUp'[p] : OnDisk(<<p, k>>)'
    BY DEF DoneFits, Made
  <2>1. p < Newest /\ \A k \in 1 .. emUp[p] : OnDisk(<<p, k>>)
    BY DEF EmailInv, DoneFits
  <2>2. p \in Parts
    BY <1>1 DEF Made, EmType, BatchType
  <2>3. emUp'[p] = emUp[p] /\ p < Newest'
    <3>1. p \in Nat /\ n \in Nat /\ Newest \in Nat /\ Newest <= n
      BY <1>2, <2>2
    <3>2. emUp'[p] = emUp[p]
      BY <2>1, <2>2
    <3>3. p < n
      BY <2>1, <3>1
    <3> QED
      BY <1>4, <3>2, <3>3
  <2>4. \A k \in 1 .. emUp[p] : OnDisk(<<p, k>>)'
    BY <2>1 DEF OnDisk, Made
  <2> QED
    BY <2>3, <2>4
<1> QED
  BY <1>1, <1>3, <1>5, <1>6, <1>7, <1>8 DEF EmailInv

LEMMA MailKeeps ==
    ASSUME EmailInv, Mail
    PROVE  EmailInv'
<1>1. /\ EmType /\ UpFits
      /\ Newest \in Parts /\ Newest \in Nat /\ UpTo(Newest) /\ \A p \in Parts : p \in Nat
  BY NewestFits DEF EmailInv
<1>2. PICK n \in Parts : n = Newest
  BY <1>1
<1>3. emUp \in [Parts -> Nat] /\ emUp' = [emUp EXCEPT ![n] = @ + 1]
  BY <1>1, <1>2 DEF Mail, EmType
<1>4. emUp' \in [Parts -> Nat] /\ (\A p \in Parts : p # n => emUp'[p] = emUp[p]) /\ emUp'[n] > 0
  BY <1>3
<1>5. UpTo(n)'
  BY <1>1, <1>2, <1>4 DEF UpTo
<1>6. \A p \in Parts : p < n => emUp'[p] = emUp[p]
  BY <1>1, <1>4
<1> QED
  BY <1>1, <1>2, <1>4, <1>5, <1>6, UpGrows DEF Mail

LEMMA OpenKeeps ==
    ASSUME EmailInv, OpenNextPart
    PROVE  EmailInv'
<1>1. /\ EmType /\ UpFits
      /\ Newest \in Parts /\ Newest \in Nat /\ UpTo(Newest) /\ MaxParts \in Nat /\ \A p \in Parts : p \in Nat
  BY NewestFits DEF EmailInv
<1>2. PICK n \in Parts : n = Newest + 1
  BY <1>1 DEF OpenNextPart, Parts
<1>3. emUp \in [Parts -> Nat] /\ emUp' = [emUp EXCEPT ![n] = 1]
  BY <1>1, <1>2 DEF OpenNextPart, EmType
<1>4. emUp' \in [Parts -> Nat] /\ (\A p \in Parts : p # n => emUp'[p] = emUp[p]) /\ emUp'[n] > 0
  BY <1>3
<1>5. UpTo(n)'
  <2>1. ASSUME NEW p \in Parts PROVE emUp'[p] > 0 <=> p <= n
    <3>1. CASE p = n
      BY <1>1, <1>4, <3>1
    <3>2. CASE p # n
      <4>1. emUp[p] > 0 <=> p <= Newest
        BY <1>1 DEF UpTo
      <4>2. p \in Nat /\ (p <= Newest <=> p <= n)
        BY <1>1, <1>2, <3>2
      <4> QED
        BY <1>4, <3>2, <4>1, <4>2
    <3> QED
      BY <3>1, <3>2
  <2> QED
    BY <2>1 DEF UpTo
<1>6. \A p \in Parts : p < Newest => emUp'[p] = emUp[p]
  BY <1>1, <1>2, <1>4
<1> QED
  BY <1>1, <1>2, <1>4, <1>5, <1>6, UpGrows DEF OpenNextPart

\* What a step of a round owes: upstream is left alone, files stay, and the parts
\* that became done are whole.
LEMMA DiskGrows ==
    ASSUME EmailInv, EmType', UNCHANGED emUp,
           \A b \in Made : /\ b \in Made' /\ emDisk[b].raw \subseteq emDisk'[b].raw
                           /\ emDisk[b].failed \subseteq emDisk'[b].failed
    PROVE  /\ UpFits' /\ Newest' = Newest
           /\ \A page : OnDisk(page) => OnDisk(page)'
           /\ (\A b \in Made' : \A p \in emDisk'[b].done :
                 \/ b \in Made /\ p \in emDisk[b].done
                 \/ p < Newest /\ \A k \in 1 .. emUp[p] : OnDisk(<<p, k>>)') => DoneFits'
<1>1. UpFits' /\ Newest' = Newest
  BY DEF EmailInv, UpFits, UpTo, Newest
<1>3. ASSUME NEW page, OnDisk(page) PROVE OnDisk(page)'
  BY <1>3 DEF OnDisk
<1>4. ASSUME \A b \in Made' : \A p \in emDisk'[b].done :
                 \/ b \in Made /\ p \in emDisk[b].done
                 \/ p < Newest /\ \A k \in 1 .. emUp[p] : OnDisk(<<p, k>>)'
      PROVE  DoneFits'
  <2> SUFFICES ASSUME NEW b \in Made', NEW p \in emDisk'[b].done
               PROVE  p < Newest /\ \A k \in 1 .. emUp[p] : OnDisk(<<p, k>>)'
    BY <1>1 DEF DoneFits
  <2>1. CASE b \in Made /\ p \in emDisk[b].done
    <3>1. p < Newest /\ \A k \in 1 .. emUp[p] : OnDisk(<<p, k>>)
      BY <2>1 DEF EmailInv, DoneFits
    <3> QED
      BY <1>3, <3>1
  <2>2. CASE ~ (b \in Made /\ p \in emDisk[b].done)
    BY <1>4, <2>2
  <2> QED
    BY <2>1, <2>2
<1> QED
  BY <1>1, <1>3, <1>4

\* The parts of a round are there upstream, the newest one among them at most.
LEMMA TargetsAre ==
    ASSUME EmailInv, NEW active, NEW owners
    PROVE  Targets(active, owners) \in SUBSET Parts /\ \A p \in Targets(active, owners) : p <= Newest
<1>1. /\ Newest \in Parts /\ Newest \in Nat /\ MaxParts \in Nat
  BY NewestFits DEF EmailInv
<1>2. \A p \in 1 .. Newest : p \in Parts /\ p <= Newest
  BY <1>1 DEF Parts
<1> DEFINE covered == {p \in Parts : owners[p] # 0}
           here    == PartsOf(active)
           floor   == IF here # {} THEN Min(here) ELSE IF covered # {} THEN Max(covered) ELSE Recent
           wanted  == {p \in 1..Newest : (p \notin covered \/ p = Newest) /\ p >= floor}
           first   == {p \in wanted : Cardinality({q \in wanted : q < p}) < PartsPerCycle}
<1>3. Targets(active, owners) = (IF Newest \in first \/ Newest \notin wanted THEN first ELSE (first \ {Max(first)}) \cup {Newest})
  BY DEF Targets
<1>4. first \subseteq 1 .. Newest
  OBVIOUS
<1> HIDE DEF first, wanted
<1>5. \A p \in Targets(active, owners) : p \in 1 .. Newest \/ p = Newest
  BY <1>3, <1>4
<1>6. \A p \in Targets(active, owners) : p \in Parts /\ p <= Newest
  BY <1>1, <1>2, <1>5
<1> QED
  BY <1>6

\* An owner is a batch there is, or none.
LEMMA OwnersAre ==
    ASSUME EmType
    PROVE  \A p \in Parts : OwnerOf(p) \in Made \cup {0}
<1>1. Batches \in Nat /\ \A b \in Made : b \in 1 .. Batches
  BY MadeIs
<1> SUFFICES ASSUME NEW p \in Parts PROVE OwnerOf(p) \in Made \cup {0}
  OBVIOUS
<1> DEFINE T == {0} \cup {b \in Made : p \in PartsOf(b)}
<1>2. T \in SUBSET (0 .. Batches) /\ T # {} /\ T \subseteq Made \cup {0}
  BY <1>1
<1>3. OwnerOf(p) = Max(T)
  BY DEF OwnerOf
<1> HIDE DEF T
<1>4. Max(T) \in T
  BY <1>2, MadeIs
<1> QED
  BY <1>2, <1>3, <1>4

LEMMA StartKeeps ==
    ASSUME EmailInv, NEW reached \in BOOLEAN, StartCycle(reached)
    PROVE  EmailInv'
<1> DEFINE first  == IF Made = {} THEN [emDisk EXCEPT ![1].made = TRUE] ELSE emDisk
           active == IF emState.batch \in Made THEN emState.batch ELSE Max(Made \cup {1})
           owners == [p \in Parts |-> OwnerOf(p)]
<1>0. EmType /\ emRound.at = "idle" /\ UNCHANGED <<emUp, emState, emOrphans>>
  BY DEF EmailInv, StartCycle
<1>1. /\ Batches \in Nat /\ 1 \in 1 .. Batches
      /\ \A b \in Made : b \in 1 .. Batches /\ b \in Nat
      /\ \A T \in SUBSET (0 .. Batches) : T # {} => Max(T) \in T /\ \A d \in T : d <= Max(T)
  BY <1>0, MadeIs
<1>2. Newest \in Parts /\ Newest \in Nat
  BY NewestFits DEF EmailInv
<1>3. emDisk' = first
  BY DEF StartCycle
<1>4. /\ emDisk' \in [1 .. Batches -> BatchType]
      /\ \A b \in 1 .. Batches :
           /\ emDisk'[b].raw = emDisk[b].raw /\ emDisk'[b].lines = emDisk[b].lines
           /\ emDisk'[b].done = emDisk[b].done /\ emDisk'[b].failed = emDisk[b].failed
           /\ emDisk'[b].made <=> (emDisk[b].made \/ (Made = {} /\ b = 1))
  <2>0. emDisk \in [1 .. Batches -> BatchType]
    BY <1>0 DEF EmType
  <2>1. CASE Made = {}
    <3>1. PICK rec : rec = [emDisk[1] EXCEPT !.made = TRUE]
      OBVIOUS
    <3>2. /\ rec \in BatchType /\ rec.made /\ rec.raw = emDisk[1].raw
          /\ rec.failed = emDisk[1].failed /\ rec.done = emDisk[1].done /\ rec.lines = emDisk[1].lines
      BY <1>1, <2>0, <3>1 DEF BatchType
    <3>3. emDisk' = [emDisk EXCEPT ![1] = rec]
      BY <1>3, <2>1, <3>1
    <3> QED
      BY <1>1, <2>0, <2>1, <3>2, <3>3
  <2>2. CASE Made # {}
    BY <1>3, <2>0, <2>2
  <2> QED
    BY <2>1, <2>2
<1>5. /\ \A b \in Made : b \in Made'
      /\ \A b \in Made' : b \in 1 .. Batches /\ (b \notin Made => Made = {} /\ b = 1)
      /\ Made = {} => 1 \in Made'
  BY <1>1, <1>4 DEF Made
<1>6. active \in Made' /\ active \in Nat
  <2>1. CASE emState.batch \in Made
    BY <1>1, <1>5, <2>1
  <2>2. CASE emState.batch \notin Made
    <3> DEFINE T == Made \cup {1}
    <3>1. T \in SUBSET (0 .. Batches) /\ T # {}
      BY <1>1
    <3>2. Max(T) \in T /\ \A d \in T : d <= Max(T)
      BY <1>1, <3>1
    <3>3. Max(T) \in Made \/ Made = {}
      <4> SUFFICES ASSUME Max(T) \notin Made, NEW b \in Made PROVE FALSE
        OBVIOUS
      <4>1. Max(T) = 1 /\ b <= 1 /\ b \in 1 .. Batches
        BY <1>1, <3>2
      <4>2. b = 1
        BY <1>1, <4>1
      <4> QED
        BY <4>1, <4>2
    <3>4. Max(T) \in Made'
      BY <1>5, <3>2, <3>3
    <3>5. active = Max(T)
      BY <2>2
    <3> HIDE DEF T
    <3> QED
      BY <1>1, <1>5, <3>4, <3>5
  <2> QED
    BY <2>1, <2>2
<1>7. owners \in [Parts -> Nat] /\ \A p \in Parts : owners[p] \in Made \cup {0}
  <2>1. \A p \in Parts : OwnerOf(p) \in Made \cup {0}
    BY <1>0, OwnersAre
  <2> QED
    BY <1>1, <2>1
<1>8. Targets(active, owners) \in SUBSET Parts /\ \A p \in Targets(active, owners) : p <= Newest
  BY TargetsAre
<1> DEFINE files == IF emState.batch = active THEN emState.files ELSE Counted(Cardinality(emDisk[active].lines))
<1>9. emRound' = IF ~reached THEN NoRound
                 ELSE [NoRound EXCEPT !.at = "part", !.active = active, !.growing = Newest, !.owners = owners,
                         !.files = files, !.targets = Targets(active, owners)]
  BY DEF StartCycle
<1> HIDE DEF active, owners, files
<1>10. emRound' \in RoundType(emRound'.files) /\ emRound'.at # "page" /\ emRound'.records = {}
  BY <1>2, <1>6, <1>7, <1>8, <1>9 DEF RoundType, NoRound
<1>11. EmType'
  BY <1>0, <1>4, <1>10 DEF EmType
<1>12. /\ UpFits' /\ Newest' = Newest /\ DoneFits'
  <2>1. \A b \in Made' : \A p \in emDisk'[b].done : b \in Made /\ p \in emDisk[b].done
    BY <1>4, <1>5 DEF EmailInv, UnmadeFits
  <2>2. \A b \in Made : /\ b \in Made' /\ emDisk[b].raw \subseteq emDisk'[b].raw
                        /\ emDisk[b].failed \subseteq emDisk'[b].failed
    BY <1>1, <1>4, <1>5
  <2> QED
    BY <1>0, <1>11, <2>1, <2>2, DiskGrows
<1>13. RoundFits'
  <2> SUFFICES ASSUME reached PROVE RoundFits'
    BY <1>9 DEF RoundFits, NoRound
  <2>1. /\ emRound'.active = active /\ emRound'.growing = Newest /\ emRound'.owners = owners
        /\ emRound'.targets = Targets(active, owners)
    BY <1>9 DEF NoRound
  <2>2. \A p \in Parts : emRound'.owners[p] \in Made' \cup {0}
    BY <1>5, <1>7, <2>1
  <2>3. emRound'.growing \in Parts /\ emRound'.growing <= Newest'
    BY <1>2, <1>12, <2>1
  <2> QED
    BY <1>6, <1>8, <2>1, <2>2, <2>3 DEF RoundFits
<1>14. PartFits'
  BY <1>10 DEF PartFits
<1>15. ListingFits'
  <2> SUFFICES ASSUME NEW b \in Made' PROVE emDisk'[b].raw \ emDisk'[b].lines \subseteq emOrphans
    BY <1>0, <1>10 DEF ListingFits, Unlisted
  <2>1. CASE b \in Made
    <3>1. emDisk[b].raw \ emDisk[b].lines \subseteq emOrphans
      BY <1>0, <2>1 DEF EmailInv, ListingFits, Unlisted
    <3> QED
      BY <1>4, <1>5, <3>1
  <2>2. CASE b \notin Made
    BY <1>4, <1>5, <2>2 DEF EmailInv, UnmadeFits
  <2> QED
    BY <2>1, <2>2
<1>16. UnmadeFits'
  BY <1>4, <1>5 DEF EmailInv, UnmadeFits
<1> QED
  BY <1>11, <1>12, <1>13, <1>14, <1>15, <1>16 DEF EmailInv

LEMMA OpenPartKeeps ==
    ASSUME EmailInv, NEW reached \in BOOLEAN, OpenPart(reached)
    PROVE  EmailInv'
<1> DEFINE p == NextPart
           index == {<<p, n>> : n \in 1..emUp[p]}
           known == PagesOf(Owner(p), p) \cup {page \in emDisk[emRound.active].failed : page[1] = p}
<1>0. /\ EmType /\ emRound.at = "part" /\ emRound.targets # {} /\ emRound.records = {}
      /\ UNCHANGED <<emUp, emDisk, emState, emOrphans>>
  BY DEF EmailInv, OpenPart, ListingFits
<1>1. p \in emRound.targets /\ p \in Parts /\ p \in Nat
  BY <1>0, NextPartIs
<1>2. emRound' = IF ~reached THEN [emRound EXCEPT !.targets = @ \ {p}]
                 ELSE [emRound EXCEPT !.at = "page", !.index = index, !.known = known, !.records = {},
                         !.fresh = index \ known]
  BY DEF OpenPart
<1>3. index \in SUBSET Pages
  BY <1>0, <1>1 DEF EmType, Pages
<1>4. /\ emRound.active \in Made /\ emRound.owners[p] \in Made \cup {0}
      /\ \A b \in Made : emDisk[b] \in BatchType
  BY <1>0, <1>1, MadeIs DEF EmailInv, RoundFits
<1>5. known \in SUBSET Pages /\ \A page \in known : OnDisk(page)
  <2>1. Owner(p) \in Made
    BY <1>4 DEF Owner
  <2>2. PagesOf(Owner(p), p) \subseteq emDisk[Owner(p)].raw
    BY DEF PagesOf
  <2>3. emDisk[Owner(p)].raw \in SUBSET Pages /\ emDisk[emRound.active].failed \in SUBSET Pages
    BY <1>4, <2>1 DEF BatchType
  <2>4. ASSUME NEW page \in known PROVE page \in Pages /\ OnDisk(page)
    <3>1. page \in emDisk[Owner(p)].raw \/ page \in emDisk[emRound.active].failed
      BY <2>2, <2>4
    <3> HIDE DEF known
    <3> QED
      BY <1>4, <2>1, <2>3, <3>1 DEF OnDisk
  <2> QED
    BY <2>4
<1>5a. \A n \in 1 .. emUp[p] : <<p, n>> \in index
  OBVIOUS
<1>5b. p = NextPart
  OBVIOUS
<1> HIDE DEF index, known, p
<1>6. PICK n : emRound \in RoundType(n)
  BY <1>0 DEF EmType
<1>7. /\ emRound' \in RoundType(n) /\ emRound'.records = {}
      /\ emRound'.active = emRound.active /\ emRound'.growing = emRound.growing
      /\ emRound'.owners = emRound.owners /\ emRound'.targets \subseteq emRound.targets
      /\ emRound'.at = "page" => reached /\ emRound'.targets = emRound.targets /\ emRound'.index = index /\ emRound'.known = known
      /\ emRound'.at # "idle"
  BY <1>0, <1>2, <1>3, <1>5, <1>6 DEF RoundType
<1>8. EmType'
  BY <1>0, <1>7 DEF EmType
<1>9. Made' = Made /\ (\A b : Unlisted(b) = {} /\ Unlisted(b)' = {})
  BY <1>0, <1>7 DEF Made, Unlisted
<1>10. UpFits' /\ Newest' = Newest /\ DoneFits' /\ \A page : OnDisk(page) => OnDisk(page)'
  BY <1>0, <1>8, <1>9, DiskGrows
<1>11. RoundFits'
  BY <1>0, <1>7, <1>9, <1>10 DEF EmailInv, RoundFits
<1>12. PartFits'
  <2> SUFFICES ASSUME emRound'.at = "page" PROVE PartFits'
    BY DEF PartFits
  <2>1. emRound'.targets = emRound.targets /\ emRound'.index = index /\ emRound'.known = known
    BY <1>7
  <2>2. NextPart' = p
    BY <2>1, <1>5b DEF NextPart
  <2>3. \A page \in emRound'.known : OnDisk(page)'
    BY <1>5, <1>10, <2>1
  <2> QED
    BY <1>0, <1>5a, <2>1, <2>2, <2>3 DEF PartFits
<1>13. ListingFits' /\ UnmadeFits'
  BY <1>0, <1>7, <1>9 DEF EmailInv, ListingFits, UnmadeFits
<1> QED
  BY <1>8, <1>10, <1>11, <1>12, <1>13 DEF EmailInv

\* The page is on disk, known to be gone upstream, or left for another round.
LEMMA FetchMailKeeps ==
    ASSUME EmailInv, FetchMail
    PROVE  EmailInv'
<1>0. EmType /\ emRound.at = "page" /\ emRound.fresh # {} /\ UNCHANGED <<emUp, emState, emOrphans>>
  BY DEF EmailInv, FetchMail
<1>1. PICK n : emRound \in RoundType(n)
  BY <1>0 DEF EmType
<1>2. PICK page \in Pages : Fetched(page) \/ PageGone(page) \/ PageLost(page)
  <2>1. emRound.fresh \in SUBSET Pages
    BY <1>1 DEF RoundType
  <2>2. FirstOf(emRound.fresh) \in Pages
    BY <1>0, <2>1, FirstIs
  <2> QED
    BY <2>2 DEF FetchMail
<1>3. emRound.active \in Made /\ emRound.active \in 1 .. Batches /\ emDisk[emRound.active] \in BatchType
  BY <1>0, MadeIs DEF EmailInv, RoundFits
<1>4. PICK a \in 1 .. Batches : a = emRound.active
  BY <1>3
<1>5. PICK raw, gone \in SUBSET {page} :
        /\ emDisk' = [emDisk EXCEPT ![a].raw = @ \cup raw, ![a].failed = @ \cup gone]
        /\ emRound'.known = emRound.known \cup raw \cup gone
        /\ emRound'.records = emRound.records \cup raw
  <2>1. emDisk \in [1 .. Batches -> BatchType]
    BY <1>0 DEF EmType
  <2>2. CASE Fetched(page)
    <3>0. PICK r, g \in SUBSET {page} : r = {page} /\ g = {}
      OBVIOUS
    <3>1. emDisk' = [emDisk EXCEPT ![a].raw = @ \cup r, ![a].failed = @ \cup g]
      BY <1>4, <2>1, <2>2, <3>0 DEF Fetched, BatchType
    <3>2. emRound'.known = emRound.known \cup r \cup g /\ emRound'.records = emRound.records \cup r
      BY <1>1, <2>2, <3>0 DEF Fetched, RoundType
    <3> QED
      BY <3>1, <3>2
  <2>3. CASE PageGone(page)
    <3>0. PICK r, g \in SUBSET {page} : r = {} /\ g = {page}
      OBVIOUS
    <3>1. emDisk' = [emDisk EXCEPT ![a].raw = @ \cup r, ![a].failed = @ \cup g]
      BY <1>4, <2>1, <2>3, <3>0 DEF PageGone, BatchType
    <3>2. emRound'.known = emRound.known \cup r \cup g /\ emRound'.records = emRound.records \cup r
      BY <1>1, <2>3, <3>0 DEF PageGone, RoundType
    <3> QED
      BY <3>1, <3>2
  <2>4. CASE PageLost(page)
    <3>0. PICK r, g \in SUBSET {page} : r = {} /\ g = {}
      OBVIOUS
    <3>1. emDisk' = [emDisk EXCEPT ![a].raw = @ \cup r, ![a].failed = @ \cup g]
      BY <1>4, <2>1, <2>4, <3>0 DEF PageLost, BatchType
    <3>2. emRound'.known = emRound.known \cup r \cup g /\ emRound'.records = emRound.records \cup r
      BY <1>1, <2>4, <3>0 DEF PageLost, RoundType
    <3> QED
      BY <3>1, <3>2
  <2> QED
    BY <1>2, <2>2, <2>3, <2>4
<1>6. /\ emRound' \in RoundType(n) /\ emRound'.at = "page"
      /\ emRound'.active = emRound.active /\ emRound'.growing = emRound.growing
      /\ emRound'.owners = emRound.owners /\ emRound'.targets = emRound.targets /\ emRound'.index = emRound.index
  <2>1. CASE Fetched(page)
    BY <1>0, <1>1, <2>1 DEF RoundType, Fetched
  <2>2. CASE PageGone(page)
    BY <1>0, <1>1, <2>2 DEF RoundType, PageGone
  <2>3. CASE PageLost(page)
    BY <1>0, <1>1, <2>3 DEF RoundType, PageLost
  <2> QED
    BY <1>2, <2>1, <2>2, <2>3
<1>7. /\ emDisk' \in [1 .. Batches -> BatchType]
      /\ \A b \in 1 .. Batches :
           /\ emDisk'[b].made <=> emDisk[b].made
           /\ emDisk'[b].lines = emDisk[b].lines /\ emDisk'[b].done = emDisk[b].done
           /\ emDisk'[b].raw = (IF b = a THEN emDisk[b].raw \cup raw ELSE emDisk[b].raw)
           /\ emDisk'[b].failed = (IF b = a THEN emDisk[b].failed \cup gone ELSE emDisk[b].failed)
  <2>1. PICK rec : rec = [emDisk[a] EXCEPT !.raw = @ \cup raw, !.failed = @ \cup gone]
    OBVIOUS
  <2>2. emDisk \in [1 .. Batches -> BatchType] /\ emDisk[a] \in BatchType
    BY <1>0 DEF EmType
  <2>3. /\ rec \in BatchType /\ (rec.made <=> emDisk[a].made) /\ rec.lines = emDisk[a].lines
        /\ rec.done = emDisk[a].done /\ rec.raw = emDisk[a].raw \cup raw /\ rec.failed = emDisk[a].failed \cup gone
    BY <1>2, <2>1, <2>2 DEF BatchType
  <2>4. emDisk' = [emDisk EXCEPT ![a] = rec]
    BY <1>5, <2>1, <2>2 DEF BatchType
  <2> QED
    BY <2>2, <2>3, <2>4
<1>8. EmType'
  BY <1>0, <1>6, <1>7 DEF EmType
<1>9. Made' = Made
  BY <1>7 DEF Made
<1>10. UpFits' /\ Newest' = Newest /\ DoneFits' /\ \A other : OnDisk(other) => OnDisk(other)'
  <2>1. \A b \in Made : b \in 1 .. Batches
    BY DEF Made
  <2>2. \A b \in Made : emDisk[b].raw \subseteq emDisk'[b].raw /\ emDisk[b].failed \subseteq emDisk'[b].failed
    BY <1>7, <2>1
  <2>3. \A b \in Made' : \A p \in emDisk'[b].done : b \in Made /\ p \in emDisk[b].done
    BY <1>7, <1>9, <2>1
  <2> QED
    BY <1>0, <1>8, <1>9, <2>2, <2>3, DiskGrows
<1>11. RoundFits'
  BY <1>0, <1>6, <1>9, <1>10 DEF EmailInv, RoundFits
<1>12. PartFits'
  <2>1. \A other \in emRound'.known : OnDisk(other)'
    <3> SUFFICES ASSUME NEW other \in emRound'.known PROVE OnDisk(other)'
      OBVIOUS
    <3>1. CASE other \in emRound.known
      BY <1>0, <1>10, <3>1 DEF EmailInv, PartFits
    <3>2. CASE other \in raw \cup gone
      <4>1. other \in emDisk'[a].raw \cup emDisk'[a].failed /\ a \in Made'
        BY <1>3, <1>4, <1>7, <1>9, <3>2
      <4> QED
        BY <4>1 DEF OnDisk
    <3> QED
      BY <1>5, <3>1, <3>2
  <2>2. NextPart' = NextPart
    BY <1>6 DEF NextPart
  <2> QED
    BY <1>0, <1>6, <2>1, <2>2 DEF EmailInv, PartFits
<1>13. ListingFits'
  <2> SUFFICES ASSUME NEW b \in Made
               PROVE  emDisk'[b].raw \ emDisk'[b].lines \subseteq emOrphans \cup Unlisted(b)'
    BY <1>0, <1>6, <1>9 DEF ListingFits
  <2>1. emDisk[b].raw \ emDisk[b].lines \subseteq emOrphans \cup Unlisted(b) /\ b \in 1 .. Batches
    BY DEF EmailInv, ListingFits, Made
  <2>2. Unlisted(b)' = (IF b = a THEN emRound.records \cup raw ELSE {}) /\ Unlisted(b) = (IF b = a THEN emRound.records ELSE {})
    BY <1>4, <1>5, <1>6 DEF Unlisted
  <2>3. /\ emDisk'[b].lines = emDisk[b].lines
        /\ emDisk'[b].raw = (IF b = a THEN emDisk[b].raw \cup raw ELSE emDisk[b].raw)
    BY <1>7, <2>1
  <2> QED
    BY <2>1, <2>2, <2>3
<1>14. UnmadeFits'
  <2>1. \A b \in (1 .. Batches) \ Made : b # a
    BY <1>3, <1>4
  <2> QED
    BY <1>7, <1>9, <2>1 DEF EmailInv, UnmadeFits
<1> QED
  BY <1>8, <1>10, <1>11, <1>12, <1>13, <1>14 DEF EmailInv

\* A part is done when every page of its index is on disk or gone, and it is not
\* the one that grows: its manifest lines are there, and the next batch is a new one.
LEMMA ClosePartKeeps ==
    ASSUME EmailInv, ClosePart
    PROVE  EmailInv'
<1> DEFINE p     == NextPart
           files == Counted(emRound.files + Cardinality(emRound.records))
           done  == emRound.index \subseteq emRound.known /\ p # emRound.growing
           full  == done /\ files >= MaxBatchFiles
           next  == Max(Made) + 1
           disk  == IF done THEN [Appended(emDisk) EXCEPT ![emRound.active].done = @ \cup {p}] ELSE Appended(emDisk)
<1>0. EmType /\ emRound.at = "page" /\ (full => next <= Batches) /\ UNCHANGED <<emUp, emState, emOrphans>>
  BY DEF EmailInv, ClosePart
<1>1. /\ emDisk' = (IF full THEN [disk EXCEPT ![next].made = TRUE] ELSE disk)
      /\ emRound' = [emRound EXCEPT !.at = "part", !.targets = @ \ {p}, !.index = {}, !.known = {}, !.records = {},
                       !.active = IF full THEN next ELSE @, !.files = IF full THEN 0 ELSE files]
  BY DEF ClosePart
<1>2. /\ emRound.active \in Made /\ emRound.targets # {}
      /\ emRound.growing \in Parts /\ emRound.growing <= Newest /\ \A q \in emRound.targets : q <= emRound.growing
  BY <1>0 DEF EmailInv, RoundFits, PartFits
<1>3. p \in emRound.targets /\ p \in Parts /\ p \in Nat
  BY <1>0, <1>2, NextPartIs
<1>4. Batches \in Nat /\ (\A b \in Made : b \in 1 .. Batches /\ b \in Nat) /\ Max(Made) \in Made
  BY <1>0, <1>2, MadeIs
<1>5. /\ full => next \in 1 .. Batches
      /\ next \in Nat
  BY <1>0, <1>4
<1>6. PICK a \in 1 .. Batches : a = emRound.active
  BY <1>2, <1>4
<1>7. ASSUME done PROVE p < Newest /\ \A k \in 1 .. emUp[p] : OnDisk(<<p, k>>)
  <2>1. p < Newest
    <3>1. Newest \in Nat /\ emRound.growing \in Nat
      BY <1>2, NewestFits DEF EmailInv
    <3>2. p <= emRound.growing /\ p # emRound.growing
      BY <1>2, <1>3, <1>7
    <3> HIDE DEF p
    <3> QED
      BY <1>2, <1>3, <3>1, <3>2
  <2>2. \A k \in 1 .. emUp[p] : <<p, k>> \in emRound.index
    BY <1>0, <1>7 DEF EmailInv, PartFits
  <2>3. \A page \in emRound.known : OnDisk(page)
    BY <1>0 DEF EmailInv, PartFits
  <2> QED
    BY <1>7, <2>1, <2>2, <2>3
<1> HIDE DEF p, files, done, full, next
<1>8. disk \in [1 .. Batches -> BatchType] /\ \A b \in 1 .. Batches :
        /\ disk[b].made <=> emDisk[b].made
        /\ disk[b].raw = emDisk[b].raw /\ disk[b].failed = emDisk[b].failed
        /\ disk[b].lines = (IF b = a THEN emDisk[b].lines \cup emRound.records ELSE emDisk[b].lines)
        /\ disk[b].done = (IF b = a /\ done THEN emDisk[b].done \cup {p} ELSE emDisk[b].done)
  <2>1. emDisk \in [1 .. Batches -> BatchType] /\ emRound.records \in SUBSET Pages
    BY <1>0 DEF EmType, RoundType
  <2>2. Appended(emDisk) = [emDisk EXCEPT ![a].lines = @ \cup emRound.records]
    BY <1>6 DEF Appended
  <2>3. Appended(emDisk) \in [1 .. Batches -> BatchType] /\ \A b \in 1 .. Batches :
          /\ Appended(emDisk)[b].made <=> emDisk[b].made
          /\ Appended(emDisk)[b].raw = emDisk[b].raw /\ Appended(emDisk)[b].failed = emDisk[b].failed
          /\ Appended(emDisk)[b].lines = (IF b = a THEN emDisk[b].lines \cup emRound.records ELSE emDisk[b].lines)
          /\ Appended(emDisk)[b].done = emDisk[b].done
    <3>1. PICK rec : rec = [emDisk[a] EXCEPT !.lines = @ \cup emRound.records]
      OBVIOUS
    <3>2. emDisk[a] \in BatchType
      BY <2>1
    <3>3. /\ rec \in BatchType /\ (rec.made <=> emDisk[a].made) /\ rec.raw = emDisk[a].raw
          /\ rec.failed = emDisk[a].failed /\ rec.done = emDisk[a].done /\ rec.lines = emDisk[a].lines \cup emRound.records
      BY <2>1, <3>1, <3>2 DEF BatchType
    <3>4. Appended(emDisk) = [emDisk EXCEPT ![a] = rec]
      BY <2>2, <3>1
    <3> QED
      BY <2>1, <3>3, <3>4
  <2>4. CASE done
    <3>1. disk = [Appended(emDisk) EXCEPT ![a].done = @ \cup {p}]
      BY <1>6, <2>4
    <3>2. PICK rec : rec = [Appended(emDisk)[a] EXCEPT !.done = @ \cup {p}]
      OBVIOUS
    <3> HIDE DEF disk
    <3>3. Appended(emDisk)[a] \in BatchType
      BY <2>3
    <3>4. /\ rec \in BatchType /\ (rec.made <=> Appended(emDisk)[a].made) /\ rec.raw = Appended(emDisk)[a].raw
          /\ rec.failed = Appended(emDisk)[a].failed /\ rec.lines = Appended(emDisk)[a].lines
          /\ rec.done = Appended(emDisk)[a].done \cup {p}
      BY <1>3, <3>2, <3>3 DEF BatchType
    <3>5. disk = [Appended(emDisk) EXCEPT ![a] = rec]
      BY <3>1, <3>2
    <3> QED
      BY <2>3, <2>4, <3>4, <3>5
  <2>5. CASE ~ done
    BY <2>3, <2>5
  <2> QED
    BY <2>4, <2>5
<1> HIDE DEF disk
<1>9. emDisk' \in [1 .. Batches -> BatchType] /\ \A b \in 1 .. Batches :
        /\ emDisk'[b].made <=> (emDisk[b].made \/ (full /\ b = next))
        /\ emDisk'[b].raw = emDisk[b].raw /\ emDisk'[b].failed = emDisk[b].failed
        /\ emDisk'[b].lines = (IF b = a THEN emDisk[b].lines \cup emRound.records ELSE emDisk[b].lines)
        /\ emDisk'[b].done = (IF b = a /\ done THEN emDisk[b].done \cup {p} ELSE emDisk[b].done)
  <2>1. CASE full
    <3>1. emDisk' = [disk EXCEPT ![next].made = TRUE]
      BY <1>1, <2>1
    <3>2. PICK rec : rec = [disk[next] EXCEPT !.made = TRUE]
      OBVIOUS
    <3>3. next \in 1 .. Batches /\ disk[next] \in BatchType
      BY <1>5, <1>8, <2>1
    <3>4. /\ rec \in BatchType /\ rec.made /\ rec.raw = disk[next].raw
          /\ rec.failed = disk[next].failed /\ rec.done = disk[next].done /\ rec.lines = disk[next].lines
      BY <3>2, <3>3 DEF BatchType
    <3>5. emDisk' = [disk EXCEPT ![next] = rec]
      BY <3>1, <3>2
    <3> QED
      BY <1>8, <2>1, <3>3, <3>4, <3>5
  <2>2. CASE ~ full
    BY <1>1, <1>8, <2>2
  <2> QED
    BY <2>1, <2>2
<1>10. /\ \A b \in Made : b \in Made'
       /\ \A b \in Made' : b \in 1 .. Batches /\ (b \in Made \/ (full /\ b = next))
       /\ full => next \in Made'
  BY <1>4, <1>5, <1>9 DEF Made
<1>11. PICK n : emRound \in RoundType(n)
  BY <1>0 DEF EmType
<1>12. /\ emRound' \in RoundType(IF full THEN 0 ELSE files)
       /\ emRound'.at = "part" /\ emRound'.records = {} /\ emRound'.growing = emRound.growing
       /\ emRound'.owners = emRound.owners /\ emRound'.targets \subseteq emRound.targets
       /\ emRound'.active = (IF full THEN next ELSE a)
  BY <1>1, <1>5, <1>6, <1>11 DEF RoundType
<1>13. EmType'
  BY <1>0, <1>9, <1>12 DEF EmType
<1>14. \A b \in Made : emDisk[b].raw \subseteq emDisk'[b].raw /\ emDisk[b].failed \subseteq emDisk'[b].failed
  BY <1>4, <1>9
<1>15. UpFits' /\ Newest' = Newest /\ \A page : OnDisk(page) => OnDisk(page)'
  BY <1>0, <1>10, <1>13, <1>14, DiskGrows
<1>16. DoneFits'
  <2>1. ASSUME NEW b \in Made', NEW q \in emDisk'[b].done
        PROVE  \/ b \in Made /\ q \in emDisk[b].done
               \/ q < Newest /\ \A k \in 1 .. emUp[q] : OnDisk(<<q, k>>)'
    <3>1. CASE q \in emDisk[b].done
      BY <1>10, <3>1 DEF EmailInv, UnmadeFits
    <3>2. CASE q \notin emDisk[b].done
      <4>1. done /\ q = p
        BY <1>9, <1>10, <3>2
      <4> QED
        BY <1>7, <1>15, <4>1
    <3> QED
      BY <3>1, <3>2
  <2> QED
    BY <1>0, <1>10, <1>13, <1>14, <2>1, DiskGrows
<1>17. RoundFits'
  <2>1. emRound'.active \in Made'
    BY <1>2, <1>6, <1>10, <1>12
  <2>2. \A q \in Parts : emRound'.owners[q] \in Made' \cup {0}
    BY <1>0, <1>10, <1>12 DEF EmailInv, RoundFits
  <2> QED
    BY <1>2, <1>12, <1>15, <2>1, <2>2 DEF RoundFits
<1>18. PartFits'
  BY <1>12 DEF PartFits
<1>19. ListingFits'
  <2> SUFFICES ASSUME NEW b \in Made' PROVE emDisk'[b].raw \ emDisk'[b].lines \subseteq emOrphans
    BY <1>0, <1>12 DEF ListingFits, Unlisted
  <2>1. CASE b \in Made
    <3>1. emDisk[b].raw \ emDisk[b].lines \subseteq emOrphans \cup (IF b = a THEN emRound.records ELSE {})
      BY <1>6, <2>1 DEF EmailInv, ListingFits, Unlisted
    <3> QED
      BY <1>9, <1>10, <3>1
  <2>2. CASE b \notin Made
    <3>1. emDisk[b].raw = {}
      BY <1>10, <2>2 DEF EmailInv, UnmadeFits
    <3> QED
      BY <1>9, <1>10, <3>1
  <2> QED
    BY <2>1, <2>2
<1>20. UnmadeFits'
  <2>1. \A b \in (1 .. Batches) \ Made' : b \notin Made /\ b # a
    BY <1>2, <1>6, <1>10
  <2> QED
    BY <1>9, <2>1 DEF EmailInv, UnmadeFits
<1> QED
  BY <1>13, <1>15, <1>16, <1>17, <1>18, <1>19, <1>20 DEF EmailInv

\* A round that ends or dies leaves its files; what it had not listed is orphaned.
LEMMA CycleEnds ==
    ASSUME EmailInv, EndCycle \/ CrashCycle
    PROVE  EmailInv'
<1>0. /\ emRound' = NoRound /\ UNCHANGED <<emUp, emDisk>> /\ emOrphans \cup emRound.records \subseteq emOrphans'
  BY DEF EmailInv, ListingFits, EndCycle, CrashCycle
<1>1. emRound' \in RoundType(0) /\ emRound'.at = "idle" /\ emRound'.records = {}
  BY <1>0 DEF RoundType, NoRound
<1>2. EmType' /\ Made' = Made
  BY <1>0, <1>1 DEF EmailInv, EmType, Made
<1>3. UpFits' /\ DoneFits'
  BY <1>0, <1>2, DiskGrows
<1>4. RoundFits' /\ PartFits' /\ UnmadeFits'
  BY <1>0, <1>1, <1>2 DEF EmailInv, RoundFits, PartFits, UnmadeFits
<1>5. ListingFits'
  <2>1. \A b \in Made : emDisk[b].raw \ emDisk[b].lines \subseteq emOrphans \cup emRound.records
    BY DEF EmailInv, ListingFits, Unlisted
  <2> QED
    BY <1>0, <1>1, <1>2, <2>1 DEF ListingFits, Unlisted
<1> QED
  BY <1>2, <1>3, <1>4, <1>5 DEF EmailInv

LEMMA EmailInit == EmInit => EmailInv
<1> SUFFICES ASSUME EmInit PROVE EmailInv
  OBVIOUS
<1>1. MaxParts \in Nat \ {0} /\ 1 \in Parts /\ \A p \in Parts : p \in Nat /\ p >= 1
  BY EmailAssumption DEF Parts
<1>2. emRound \in RoundType(0) /\ emRound.at = "idle" /\ emRound.records = {}
  BY DEF EmInit, RoundType, NoRound
<1>3. emDisk \in [1 .. Batches -> BatchType] /\ Made = {} /\ \A b \in 1 .. Batches : emDisk[b] = NoBatch
  BY DEF EmInit, Made, NoBatch, BatchType
<1>4. emUp \in [Parts -> Nat] /\ UpTo(1)
  BY <1>1 DEF EmInit, UpTo
<1>5. EmType
  BY <1>2, <1>3, <1>4 DEF EmType
<1>6. RoundFits /\ PartFits /\ ListingFits /\ DoneFits
  BY <1>2, <1>3 DEF RoundFits, PartFits, ListingFits, DoneFits
<1>7. UpFits /\ UnmadeFits
  BY <1>1, <1>3, <1>4 DEF UpFits, UnmadeFits, NoBatch
<1> QED
  BY <1>5, <1>6, <1>7 DEF EmailInv

LEMMA EmailStep == EmailInv /\ [EmNext]_emVars => EmailInv'
<1> SUFFICES ASSUME EmailInv, [EmNext]_emVars PROVE EmailInv'
  OBVIOUS
<1>1. CASE Mail
  BY <1>1, MailKeeps
<1>2. CASE OpenNextPart
  BY <1>2, OpenKeeps
<1>3. CASE FetchMail
  BY <1>3, FetchMailKeeps
<1>4. CASE ClosePart
  BY <1>4, ClosePartKeeps
<1>5. CASE EndCycle \/ CrashCycle
  BY <1>5, CycleEnds
<1>6. ASSUME NEW reached \in BOOLEAN, StartCycle(reached) PROVE EmailInv'
  BY <1>6, StartKeeps
<1>7. ASSUME NEW reached \in BOOLEAN, OpenPart(reached) PROVE EmailInv'
  BY <1>7, OpenPartKeeps
<1>8. CASE UNCHANGED emVars
  <2>1. UNCHANGED <<emUp, emDisk, emRound, emOrphans>>
    BY <1>8 DEF emVars
  <2>2. EmType' /\ Made' = Made /\ Newest' = Newest /\ NextPart' = NextPart
    BY <2>1 DEF EmailInv, EmType, Made, Newest, NextPart
  <2>3. UpFits' /\ DoneFits' /\ \A page : OnDisk(page) => OnDisk(page)'
    BY <2>1, <2>2, DiskGrows
  <2>4. UnmadeFits' /\ RoundFits' /\ ListingFits'
    BY <2>1, <2>2 DEF EmailInv, UnmadeFits, RoundFits, ListingFits, Unlisted
  <2>5. PartFits'
    BY <2>1, <2>2, <2>3 DEF EmailInv, PartFits
  <2> QED
    BY <2>2, <2>3, <2>4, <2>5 DEF EmailInv
<1> QED
  BY <1>1, <1>2, <1>3, <1>4, <1>5, <1>6, <1>7, <1>8 DEF EmNext

\* What the batches of the mailing list dataset say of their files is so, for
\* every archive, batch size and number of parts per round
\* (collectors/linux-email.mjs): a part that is recorded as done has each of its
\* pages on disk or recorded as gone, and a page without a manifest line belongs
\* to the part being fetched or to a round that died before its append.
THEOREM BatchesStayListed == EmInit /\ [][EmNext]_emVars => []BatchesAreListed
<1>1. EmInit => EmailInv
  BY EmailInit
<1>2. EmailInv /\ [EmNext]_emVars => EmailInv'
  BY EmailStep
<1>3. EmailInv => BatchesAreListed
  BY InvIsListed
<1> QED
  BY <1>1, <1>2, <1>3, PTL
=============================================================================
