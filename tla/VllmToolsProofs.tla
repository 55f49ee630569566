---------------------------- MODULE VllmToolsProofs ----------------------------
(***************************************************************************)
(* Proofs about the tools of the vLLM benchmark agent that MCVllmTools     *)
(* checks on small instances: the device locks (DeviceLocks), the start of *)
(* a service that a probe must not find twice (ServiceProbe), the clients  *)
(* of a round (RoundMeasure), the latency quantiles of its report          *)
(* (LatencyHistogram) and the commands that find their run by the pointer  *)
(* (RunPointer), for every number of runs, devices, processes, attempts,   *)
(* requests, buckets and shells.                                           *)
(***************************************************************************)
EXTENDS DeviceLocks, ServiceProbe, RoundMeasure, LatencyHistogram, RunPointer, RecursionLemmas

-----------------------------------------------------------------------------
(* The device locks: what the commands of the runs keep true.               *)

Pcs == {"idle", "probe", "check", "cut", "fill", "decided", "launch", "health", "stop",
        "release"}
Views == [decision : {"none", "already_running", "loading", "need_start"},
          match : BOOLEAN, busy : SUBSET Devices]
Commands == [pc : Pcs, todo : SUBSET Devices, view : Views, holders : BOOLEAN]
Files == [run : Runs \cup {NoRun, CutFile}, devices : SUBSET Devices]

LocksType ==
    /\ state \in [Runs -> States]
    /\ want \in [Runs -> Wishes] /\ own \in [Runs -> SUBSET Devices]
    /\ known \in [Runs -> BOOLEAN] /\ started \in [Runs -> BOOLEAN]
    /\ file \in [Devices -> Files]
    /\ cmd \in [Runs -> Commands]
    /\ service \in [Runs -> SUBSET Wishes]

\* What a command is about to do fits the state that its run has saved.
Fits(r) ==
    /\ cmd[r].pc \in {"probe", "check", "cut", "fill", "decided"} => state[r] = "PROBE_SERVICE"
    /\ cmd[r].pc = "launch" => state[r] = "START_SERVICE"
    /\ cmd[r].pc = "health" => state[r] = "HEALTH"
    /\ state[r] = "NEW" => own[r] = {} /\ cmd[r].pc = "idle"
    /\ Acquiring(r) => cmd[r].todo \subseteq want[r]
    /\ cmd[r].pc \in {"cut", "fill"} => ~cmd[r].holders
    /\ cmd[r].pc = "fill" => cmd[r].todo # {}
    /\ cmd[r].pc \in {"decided", "launch"} => own[r] = want[r]
    /\ cmd[r].pc = "launch" => cmd[r].view.decision = "need_start"

\* The file of a device names the run, or is being written by it.
Holds(r, d) ==
    \/ file[d].run = r
    \/ file[d] = Cut /\ cmd[r].pc = "fill" /\ d = Least(cmd[r].todo)

\* The devices whose files an acquisition has read and found free.
Seen(r) == IF cmd[r].pc = "check" THEN want[r] \ cmd[r].todo ELSE want[r]

\* Two acquisitions at the same time want different devices.
Apart == \A r, s \in Runs :
    r # s /\ Acquiring(r) /\ Acquiring(s) => want[r] \cap want[s] = {}

\* An unfinished run holds what it has acquired.
OwnedIsHeld == \A r \in Runs : \A d \in own[r] : Unfinished(r) => Holds(r, d)

\* What has been read and found free no unfinished run has acquired.
SeenIsFree == \A r, s \in Runs :
    r # s /\ Acquiring(s) /\ ~cmd[s].holders /\ Unfinished(r) => own[r] \cap Seen(s) = {}

\* What an acquisition has written names its run.
WrittenIsHeld == \A r \in Runs :
    cmd[r].pc \in {"cut", "fill"} => \A d \in want[r] \ cmd[r].todo : file[d].run = r

Clean == causes \cap {"overlap", "stop", "torn"} = {}

FilesFit == Apart /\ OwnedIsHeld /\ SeenIsFree /\ WrittenIsHeld

LocksInv == /\ LocksType
            /\ \A r \in Runs : Fits(r)
            /\ Clean => FilesFit

-----------------------------------------------------------------------------
(* The services and the files of their devices.                             *)

\* A service that a run launched has the devices the run has acquired.
ServiceIsOwned == \A r \in Runs :
    /\ service[r] \subseteq {want[r]}
    /\ service[r] # {} => own[r] = want[r] /\ cmd[r].pc # "release"

\* No two services share a device.
ServicesApart == \A r, s \in Runs : \A v \in service[r], w \in service[s] :
    v \cap w # {} => r = s

\* A run that found its devices idle finds them idle until it launches.
Launching(r) == cmd[r].pc \in {"cut", "fill", "decided", "launch"}
                /\ cmd[r].view.decision = "need_start"
IdleUntilLaunch == \A r \in Runs :
    /\ Launching(r) => want[r] \cap Busy = {}
    /\ cmd[r].pc = "check" /\ cmd[r].view.decision = "need_start"
          => want[r] \cap cmd[r].view.busy = {}

\* A file that names a run, which then exists, names its own device.
FileNamesDevice == \A d \in Devices :
    file[d].run \in Runs => d \in file[d].devices /\ state[file[d].run] # "NEW"

\* Nothing outside its container touches the devices of a service that an
\* acquisition has matched.
MatchedIsBeside == \A r, s \in Runs :
    Acquiring(s) /\ cmd[s].view.match /\ Container[r] # Container[s] =>
        /\ \A w \in service[r] : w \cap want[s] = {}
        /\ cmd[r].pc \in {"decided", "launch"} /\ cmd[r].view.decision = "need_start"
              => want[r] \cap want[s] = {}

\* The services on devices that an acquisition has found free are in its own
\* container, or were launched since its probe, which Checked finds out.
SeenIsBeside == \A r, s \in Runs :
    Acquiring(s) /\ ~cmd[s].holders /\ known[r] /\ Container[r] # Container[s] =>
        \A w \in service[r] : \A d \in w \cap Seen(s) :
            cmd[s].pc = "check" /\ d \notin cmd[s].view.busy

\* The files of a known service belong to a run in its container that knows of
\* it, or is about to.
Knows(t) == known[t] \/ /\ cmd[t].pc \in {"cut", "fill", "decided"}
                        /\ cmd[t].view.decision # "need_start"
KnownIsHeld == \A r \in Runs : known[r] => \A w \in service[r] : \A d \in w :
    \E t \in Runs : Holds(t, d) /\ Container[t] = Container[r] /\ Knows(t)

\* What is launched in a container after a stop and before its release is held
\* by another run.
ReleaseIsLate == \A r, s \in Runs :
    cmd[s].pc = "release" /\ Container[r] = Container[s] =>
        \A w \in service[r] : \A d \in w : file[d].run # s

ServicesFit == /\ ServiceIsOwned /\ ServicesApart /\ IdleUntilLaunch /\ FileNamesDevice
               /\ MatchedIsBeside /\ SeenIsBeside /\ KnownIsHeld /\ ReleaseIsLate

ServicesInv == causes = {} => ServicesFit

-----------------------------------------------------------------------------
(* What a step of a run leaves alone, and the types.                         *)

LEMMA LeastIsMember ==
    ASSUME NEW S, S \subseteq Nat, S # {}
    PROVE  Least(S) \in S
<1>1. PICK x \in S : \A y \in S : ~(<<y, x>> \in OpToRel(<, Nat))
      BY NatLessThanWellFounded, WFMin
<1>2. ASSUME NEW y \in S PROVE x <= y
      <2>1. <<y, x>> \in Nat \X Nat /\ <<y, x>>[1] = y /\ <<y, x>>[2] = x OBVIOUS
      <2>2. ~(y < x) BY <1>1, <2>1, Zenon DEF OpToRel
      <2> QED BY <2>2
<1> QED BY <1>2 DEF Least

\* A step of a run changes no other run's state, wishes, locks or command.
LEMMA StepIsOwn ==
    ASSUME LocksType, NEW r \in Runs, Step(r), NEW q \in Runs, q # r
    PROVE  /\ state'[q] = state[q] /\ want'[q] = want[q] /\ own'[q] = own[q]
           /\ known'[q] = known[q] /\ cmd'[q] = cmd[q]
BY DEF LocksType, Step, StartRun, Recheck, Resume, Probe, Check, Checked, CutNext, Fill,
       Acquired, Decided, LaunchRun, Health, Done, BenchFails, Stop, StopContainer, ReleaseAll,
       Cancel, Crash, ServiceDies, Begin, Goto, End, Become, Commands, meta

\* What has happened is not forgotten.
LEMMA CausesGrow ==
    ASSUME NEW r \in Runs, Step(r)
    PROVE  causes \subseteq causes'
BY DEF Step, StartRun, Recheck, Resume, Probe, Check, Checked, CutNext, Fill,
       Acquired, Decided, LaunchRun, Health, Done, BenchFails, Stop, StopContainer, ReleaseAll,
       Cancel, Crash, ServiceDies

LEMMA BusyType ==
    ASSUME LocksType PROVE Busy \subseteq Devices
BY DeviceLocksAssumption DEF LocksType, Busy, Services

LEMMA LocksTypeInit == LocksInit => LocksType
<1> SUFFICES ASSUME LocksInit PROVE LocksType OBVIOUS
<1>1. NoCommand \in Commands BY DEF NoCommand, NoView, Commands, Views, Pcs
<1>2. Unlocked \in Files BY DEF Unlocked, Files
<1> QED BY <1>1, <1>2 DEF LocksInit, LocksType, States

\* The ways in which a command changes.
LEMMA CommandType ==
    ASSUME LocksType, NEW r \in Runs
    PROVE  /\ \A p \in Pcs : [cmd EXCEPT ![r].pc = p] \in [Runs -> Commands]
           /\ \A p \in Pcs : \A T \in SUBSET Devices :
                 [cmd EXCEPT ![r].pc = p, ![r].todo = T] \in [Runs -> Commands]
           /\ \A b \in BOOLEAN : \A T \in SUBSET Devices :
                 [cmd EXCEPT ![r].todo = T, ![r].holders = b] \in [Runs -> Commands]
           /\ [cmd EXCEPT ![r] = NoCommand] \in [Runs -> Commands]
           /\ \A v \in Views : \A T \in SUBSET Devices :
                 [cmd EXCEPT ![r] = [pc |-> "check", todo |-> T, holders |-> FALSE, view |-> v]]
                    \in [Runs -> Commands]
<1>1. cmd \in [Runs -> Commands] BY DEF LocksType
<1>2. cmd[r] \in [pc : Pcs, todo : SUBSET Devices, view : Views, holders : BOOLEAN]
      BY <1>1 DEF Commands
<1>3. \A p \in Pcs : [cmd EXCEPT ![r].pc = p] \in [Runs -> Commands]
      BY <1>1, <1>2 DEF Commands
<1>4. \A p \in Pcs : \A T \in SUBSET Devices :
         [cmd EXCEPT ![r].pc = p, ![r].todo = T] \in [Runs -> Commands]
      BY <1>1, <1>2 DEF Commands
<1>5. \A b \in BOOLEAN : \A T \in SUBSET Devices :
         [cmd EXCEPT ![r].todo = T, ![r].holders = b] \in [Runs -> Commands]
      BY <1>1, <1>2 DEF Commands
<1>6. NoCommand \in Commands BY DEF NoCommand, NoView, Commands, Views, Pcs
<1>7. "check" \in Pcs BY DEF Pcs
<1>8. \A v \in Views : \A T \in SUBSET Devices :
         [pc |-> "check", todo |-> T, holders |-> FALSE, view |-> v] \in Commands
      BY <1>7 DEF Commands
<1> QED BY <1>1, <1>3, <1>4, <1>5, <1>6, <1>8

LEMMA DecisionType ==
    ASSUME NEW r \in Runs, NEW k \in LockDecisions(r)
    PROVE  /\ k.match \in BOOLEAN
           /\ k.decision \in {"already_running", "loading", "need_start", "blocked"}
<1> DEFINE K(d, m) == k = [decision |-> d, match |-> m]
<1>1. K("already_running", TRUE) \/ K("loading", TRUE) \/ K("loading", FALSE)
      \/ K("blocked", FALSE) \/ K("need_start", FALSE)
      BY DEF LockDecisions
<1>2. k.match = TRUE \/ k.match = FALSE BY <1>1
<1>3. k.match \in BOOLEAN BY <1>2, Zenon
<1> QED BY <1>1, <1>3

LEMMA LocksTypeStep ==
    ASSUME LocksType, NEW r \in Runs, Step(r) PROVE LocksType'
<1>0. /\ \A p \in Pcs : [cmd EXCEPT ![r].pc = p] \in [Runs -> Commands]
      /\ [cmd EXCEPT ![r] = NoCommand] \in [Runs -> Commands]
      BY CommandType
<1>00. /\ cmd \in [Runs -> Commands] /\ cmd[r].todo \in SUBSET Devices
       /\ cmd[r].holders \in BOOLEAN /\ want[r] \in Wishes /\ want[r] \in SUBSET Devices
       BY DeviceLocksAssumption DEF LocksType, Commands
<1>000. "probe" \in Pcs /\ "health" \in Pcs /\ "fill" \in Pcs /\ "cut" \in Pcs
        /\ "decided" \in Pcs /\ "launch" \in Pcs /\ "stop" \in Pcs /\ "release" \in Pcs
        /\ "check" \in Pcs
        BY DEF Pcs
<1> USE <1>0, <1>00, <1>000 DEF LocksType, Begin, Goto, End, Become, AtPc, meta
<1>1. CASE StartRun(r) BY <1>1 DEF StartRun, States
<1>2. CASE Recheck(r) BY <1>2 DEF Recheck
<1>3. CASE Resume(r) BY <1>3 DEF Resume, States
<1>4. CASE Probe(r)
      <2>1. CASE cmd' = [cmd EXCEPT ![r] = NoCommand]
            BY <1>4, <2>1 DEF Probe, States
      <2>2. CASE cmd' # [cmd EXCEPT ![r] = NoCommand]
            <3>1. PICK k \in LockDecisions(r) : k.decision # "blocked" /\ cmd' = [cmd EXCEPT ![r] =
                        [pc |-> "check", todo |-> want[r], holders |-> FALSE,
                         view |-> [decision |-> k.decision, match |-> k.match,
                                   busy |-> Busy]]]
                  BY <1>4, <2>2 DEF Probe
            <3>2. [decision |-> k.decision, match |-> k.match, busy |-> Busy] \in Views
                  BY <3>1, DecisionType, BusyType DEF Views
            <3>3. cmd' \in [Runs -> Commands] BY <3>1, <3>2, CommandType
            <3>4. UNCHANGED <<state, want, own, known, started, file, service>>
                  BY <1>4, <2>2 DEF Probe
            <3> QED BY <3>3, <3>4
      <2> QED BY <2>1, <2>2
<1>5. CASE Check(r) BY <1>5, CommandType DEF Check
<1>6. CASE Checked(r)
      <2>1. CASE cmd[r].holders BY <1>6, <2>1 DEF Checked, States
      <2>2. CASE ~cmd[r].holders
            <3>1. cmd' = [cmd EXCEPT ![r].pc = "cut", ![r].todo = want[r]]
                  BY <1>6, <2>2 DEF Checked
            <3>2. cmd' \in [Runs -> Commands] BY <3>1, CommandType
            <3> QED BY <1>6, <2>2, <3>2 DEF Checked
      <2> QED BY <2>1, <2>2
<1>7. CASE CutNext(r)
      <2>1. Cut \in Files BY DEF Cut, Files
      <2> QED BY <1>7, <2>1 DEF CutNext
<1>8. CASE Fill(r)
      <2>1. [run |-> r, devices |-> want[r]] \in Files BY DEF Files
      <2> QED BY <1>8, <2>1, CommandType DEF Fill
<1>9. CASE Acquired(r) BY <1>9 DEF Acquired
<1>10. CASE Decided(r)
       <2>1. CASE cmd[r].view.decision = "need_start" BY <1>10, <2>1 DEF Decided, States
       <2>2. CASE cmd[r].view.decision # "need_start"
             <3>1. [known EXCEPT ![r] = TRUE] \in [Runs -> BOOLEAN] OBVIOUS
             <3>2. known' \in [Runs -> BOOLEAN] BY <1>10, <2>2, <3>1, Zenon DEF Decided
             <3> QED BY <1>10, <2>2, <3>2 DEF Decided, States
       <2> QED BY <2>1, <2>2
<1>11. CASE LaunchRun(r)
       <2>1. [service EXCEPT ![r] = @ \cup {want[r]}] \in [Runs -> SUBSET Wishes] OBVIOUS
       <2>2. service' \in [Runs -> SUBSET Wishes] BY <1>11, <2>1 DEF LaunchRun
       <2>3. started' \in [Runs -> BOOLEAN] BY <1>11 DEF LaunchRun
       <2>4. state' \in [Runs -> States] BY <1>11 DEF LaunchRun, States
       <2>5. cmd' \in [Runs -> Commands] BY <1>11 DEF LaunchRun
       <2>6. UNCHANGED <<want, own, known, file>> BY <1>11 DEF LaunchRun
       <2> QED BY <2>2, <2>3, <2>4, <2>5, <2>6
<1>12. CASE Health(r) BY <1>12 DEF Health, States
<1>13. CASE Done(r) BY <1>13 DEF Done, States, Terminal
<1>14. CASE BenchFails(r) BY <1>14 DEF BenchFails, States
<1>15. CASE Stop(r) BY <1>15 DEF Stop
<1>16. CASE StopContainer(r) BY <1>16 DEF StopContainer, Finish, States, Terminal
<1>17. CASE ReleaseAll(r)
       <2>1. Unlocked \in Files BY DEF Unlocked, Files
       <2> QED BY <1>17, <2>1 DEF ReleaseAll, Finish, States, Terminal
<1>18. CASE Cancel(r)
       <2>1. Unlocked \in Files BY DEF Unlocked, Files
       <2> QED BY <1>18, <2>1 DEF Cancel, Released, States, Terminal
<1>19. CASE Crash(r) BY <1>19 DEF Crash
<1>20. CASE ServiceDies(r) BY <1>20 DEF ServiceDies
<1> QED BY <1>1, <1>2, <1>3, <1>4, <1>5, <1>6, <1>7, <1>8, <1>9, <1>10, <1>11, <1>12, <1>13,
           <1>14, <1>15, <1>16, <1>17, <1>18, <1>19, <1>20 DEF Step

LEMMA FitsStep ==
    ASSUME LocksType, \A q \in Runs : Fits(q), NEW r \in Runs, Step(r), NEW q \in Runs
    PROVE  Fits(q)'
<1>1. CASE q # r BY <1>1, StepIsOwn DEF Fits, Acquiring
<1>2. CASE q = r
      <2>0. Fits(r) OBVIOUS
      <2> USE <2>0 DEF LocksType, Begin, Goto, End, Become, NoCommand, Commands, Fits, Acquiring,
              AtPc, Idle, meta, Terminal, Finish, States
      <2>1. CASE StartRun(r) BY <2>1 DEF StartRun
      <2>2. CASE Recheck(r) BY <2>2 DEF Recheck
      <2>3. CASE Resume(r) BY <2>3 DEF Resume
      <2>4. CASE Probe(r) BY <2>4 DEF Probe
      <2>5. CASE Check(r) BY <2>5 DEF Check
      <2>6. CASE Checked(r)
            <3>1. CASE cmd[r].holders BY <2>6, <3>1 DEF Checked
            <3>2. CASE ~cmd[r].holders BY <2>6, <3>2, SMTT(30) DEF Checked
            <3> QED BY <3>1, <3>2
      <2>7. CASE CutNext(r) BY <2>7 DEF CutNext
      <2>8. CASE Fill(r) BY <2>8 DEF Fill
      <2>9. CASE Acquired(r) BY <2>9 DEF Acquired
      <2>10. CASE Decided(r)
             <3>1. CASE cmd[r].view.decision = "need_start" BY <1>2, <2>10, <3>1 DEF Decided
             <3>2. CASE cmd[r].view.decision # "need_start" BY <1>2, <2>10, <3>2 DEF Decided
             <3> QED BY <3>1, <3>2
      <2>11. CASE LaunchRun(r) BY <2>11, SMTT(30) DEF LaunchRun
      <2>12. CASE Health(r) BY <2>12 DEF Health
      <2>13. CASE Done(r) BY <2>13 DEF Done
      <2>14. CASE BenchFails(r) BY <2>14 DEF BenchFails
      <2>15. CASE Stop(r) BY <2>15 DEF Stop
      <2>16. CASE StopContainer(r)
            <3>1. cmd[r].pc = "stop" /\ state[r] # "NEW" BY <2>16 DEF StopContainer
            <3>2. /\ own' = own /\ want' = want /\ state'[r] \in {state[r], "DONE"}
                  /\ cmd'[r].pc \in {"release", "idle"}
                  BY <2>16 DEF StopContainer
            <3>3. state'[r] # "NEW" /\ own'[r] = own[r] BY <3>1, <3>2
            <3> QED BY <1>2, <3>2, <3>3
      <2>17. CASE ReleaseAll(r) BY <2>17 DEF ReleaseAll
      <2>18. CASE Cancel(r) BY <2>18 DEF Cancel
      <2>19. CASE Crash(r) BY <2>19 DEF Crash
      <2>20. CASE ServiceDies(r) BY <2>20 DEF ServiceDies
      <2> QED BY <1>2, <2>1, <2>2, <2>3, <2>4, <2>5, <2>6, <2>7, <2>8, <2>9, <2>10, <2>11, <2>12,
                 <2>13, <2>14, <2>15, <2>16, <2>17, <2>18, <2>19, <2>20 DEF Step
<1> QED BY <1>1, <1>2

-----------------------------------------------------------------------------
(* No two unfinished runs have acquired the same device.                     *)

\* A step that leaves the files and what is acquired alone, and that is not, or
\* ends, an acquisition.
LEMMA QuietFiles ==
    ASSUME LocksType, NEW r \in Runs, Step(r), FilesFit,
           file' = file, own' = own, cmd[r].pc # "fill", ~Acquiring(r)',
           Unfinished(r)' => Unfinished(r) \/ own[r] = {}
    PROVE  FilesFit'
<1> USE DEF FilesFit
<1>1. \A q \in Runs : q # r => /\ state'[q] = state[q] /\ want'[q] = want[q]
                               /\ cmd'[q] = cmd[q] /\ (Acquiring(q)' <=> Acquiring(q))
                               /\ (Unfinished(q)' <=> Unfinished(q))
      BY StepIsOwn DEF Acquiring, Unfinished
<1>2. Apart' BY <1>1 DEF Apart
<1>3. OwnedIsHeld'
      <2> SUFFICES ASSUME NEW q \in Runs, NEW d \in own[q], Unfinished(q)'
                   PROVE  Holds(q, d)'
          BY DEF OwnedIsHeld
      <2>1. Holds(q, d) BY <1>1 DEF OwnedIsHeld
      <2>2. CASE q = r BY <2>1, <2>2 DEF Holds
      <2>3. CASE q # r BY <2>1, <2>3, <1>1 DEF Holds, Cut
      <2> QED BY <2>2, <2>3
<1>4. SeenIsFree' BY <1>1 DEF SeenIsFree, Seen
<1>5. WrittenIsHeld' BY <1>1 DEF WrittenIsHeld, Acquiring
<1> QED BY <1>2, <1>3, <1>4, <1>5

\* The devices of two runs that both hold a device are never the same.
LEMMA HoldsOne ==
    ASSUME LocksType, \A q \in Runs : Fits(q), Apart,
           NEW r \in Runs, NEW s \in Runs, NEW d \in Devices, Holds(r, d), Holds(s, d)
    PROVE  r = s
<1>1. CASE file[d] = Cut
      <2>1. file[d].run \notin Runs BY <1>1, DeviceLocksAssumption DEF Cut
      <2>2. \A q \in {r, s} : Acquiring(q) /\ d \in cmd[q].todo /\ d \in want[q]
            <3> TAKE q \in {r, s}
            <3>1. q \in Runs /\ cmd[q].pc = "fill" /\ d = Least(cmd[q].todo)
                  BY <2>1 DEF Holds
            <3>2. cmd[q].todo # {} /\ cmd[q].todo \subseteq want[q] /\ Acquiring(q)
                  BY <3>1 DEF Fits, Acquiring
            <3>3. cmd[q].todo \subseteq Nat
                  BY <3>1, DeviceLocksAssumption DEF LocksType, Commands
            <3> QED BY <3>1, <3>2, <3>3, LeastIsMember
      <2> QED BY <2>2 DEF Apart
<1>2. CASE file[d] # Cut BY <1>2 DEF Holds
<1> QED BY <1>1, <1>2

\* try_acquire starts.
LEMMA ProbeFiles ==
    ASSUME LocksType, \A q \in Runs : Fits(q), NEW r \in Runs, Probe(r), FilesFit, Clean'
    PROVE  FilesFit'
<1> USE DEF FilesFit
<1>0. Step(r) BY DEF Step
<1>a. file' = file /\ own' = own /\ cmd[r].pc = "probe" /\ state[r] = "PROBE_SERVICE"
      BY DEF Probe, AtPc, Fits, meta
<1>1. CASE cmd' = [cmd EXCEPT ![r] = NoCommand]
      <2>1. ~Acquiring(r)' BY <1>1 DEF LocksType, NoCommand, Acquiring
      <2> QED BY <1>0, <1>a, <2>1, QuietFiles DEF Unfinished, Terminal
<1>2. CASE cmd' # [cmd EXCEPT ![r] = NoCommand]
      <2>1. /\ cmd'[r].pc = "check" /\ cmd'[r].todo = want[r]
            /\ state' = state /\ want' = want
            /\ \A q \in Runs : q # r => cmd'[q] = cmd[q]
            BY <1>2 DEF Probe, LocksType, End, meta
      <2>2. \A s \in Runs \ {r} : Acquiring(s) => want[s] \cap want[r] = {}
            BY <1>2 DEF Probe, Clean, End
      <2>3. Apart' BY <2>1, <2>2 DEF Apart, Acquiring
      <2>4. OwnedIsHeld' BY <2>1, <1>a DEF OwnedIsHeld, Holds, Unfinished, Cut
      <2>5. SeenIsFree'
            BY <2>1, <1>a DEF SeenIsFree, Seen, Acquiring, Unfinished
      <2>6. WrittenIsHeld' BY <2>1, <1>a DEF WrittenIsHeld
      <2> QED BY <2>3, <2>4, <2>5, <2>6
<1> QED BY <1>1, <1>2

\* The read of a file finds a run that has acquired the device.
LEMMA CheckFiles ==
    ASSUME LocksType, \A q \in Runs : Fits(q), NEW r \in Runs, Check(r), FilesFit
    PROVE  FilesFit'
<1> USE DEF FilesFit
<1> DEFINE d == Least(cmd[r].todo)
<1>1. /\ file' = file /\ own' = own /\ want' = want /\ state' = state
      /\ cmd[r].pc = "check" /\ cmd'[r].pc = "check"
      /\ cmd'[r].todo = cmd[r].todo \ {d}
      /\ \A q \in Runs : q # r => cmd'[q] = cmd[q]
      BY DEF Check, LocksType, AtPc, Commands, meta
<1>2. \A q \in Runs : (Acquiring(q)' <=> Acquiring(q)) /\ (Unfinished(q)' <=> Unfinished(q))
      BY <1>1 DEF Acquiring, Unfinished
<1>3. Apart' BY <1>1, <1>2 DEF Apart
<1>4. OwnedIsHeld' BY <1>1, <1>2 DEF OwnedIsHeld, Holds, Cut
<1>5. WrittenIsHeld' BY <1>1 DEF WrittenIsHeld
<1>6. SeenIsFree'
      <2> SUFFICES ASSUME NEW q \in Runs, q # r, Unfinished(q), ~cmd'[r].holders
                   PROVE  own[q] \cap Seen(r)' = {}
          BY <1>1, <1>2 DEF SeenIsFree, Seen
      <2>1. /\ ~cmd[r].holders
            /\ ~(Owner(d) \notin {NoRun, r} /\ LockIsActive(file[d], cmd[r].view))
            BY DEF Check, LocksType, Commands
      <2>2. own[q] \cap Seen(r) = {} BY <1>1, <2>1 DEF SeenIsFree, Acquiring
      <2>3. d \in cmd[r].todo /\ d \in want[r] /\ d \in Devices
            <3>1. cmd[r].todo # {} /\ cmd[r].todo \subseteq want[r] BY <1>1 DEF Check, Fits, Acquiring
            <3>2. cmd[r].todo \subseteq Devices BY DEF LocksType, Commands
            <3>3. cmd[r].todo \subseteq Nat BY <3>2, DeviceLocksAssumption
            <3> QED BY <3>1, <3>2, <3>3, LeastIsMember
      <2>4. d \notin own[q]
            <3> SUFFICES ASSUME d \in own[q] PROVE FALSE OBVIOUS
            <3>1. Holds(q, d) BY DEF OwnedIsHeld
            <3>2. CASE file[d].run = q
                  <4>1. Owner(d) = q BY <3>2, DeviceLocksAssumption DEF Owner, Unlocked, Cut
                  <4>2. LockIsActive(file[d], cmd[r].view)
                        BY <3>2 DEF LockIsActive, Unfinished
                  <4> QED BY <2>1, <4>1, <4>2, DeviceLocksAssumption
            <3>3. CASE cmd[q].pc = "fill" /\ d = Least(cmd[q].todo)
                  <4>1. cmd[q].todo # {} /\ cmd[q].todo \subseteq want[q] /\ Acquiring(q)
                        BY <3>3 DEF Fits, Acquiring
                  <4>2. cmd[q].todo \subseteq Nat BY DeviceLocksAssumption DEF LocksType, Commands
                  <4>3. d \in want[q] BY <3>3, <4>1, <4>2, LeastIsMember
                  <4> QED BY <1>1, <2>3, <4>1, <4>3 DEF Apart, Acquiring
            <3> QED BY <3>1, <3>2, <3>3 DEF Holds
      <2> QED BY <1>1, <2>2, <2>4 DEF Seen
<1> QED BY <1>3, <1>4, <1>5, <1>6

LEMMA CheckedFiles ==
    ASSUME LocksType, \A q \in Runs : Fits(q), NEW r \in Runs, Checked(r), FilesFit
    PROVE  FilesFit'
<1> USE DEF FilesFit
<1>0. Step(r) BY DEF Step
<1>a. file' = file /\ own' = own /\ want' = want /\ cmd[r].pc = "check" /\ cmd[r].todo = {}
      /\ state[r] = "PROBE_SERVICE"
      BY DEF Checked, AtPc, Fits, meta
<1>1. CASE cmd[r].holders
      <2>1. ~Acquiring(r)' BY <1>1 DEF Checked, End, LocksType, NoCommand, Acquiring
      <2> QED BY <1>0, <1>a, <2>1, QuietFiles DEF Unfinished, Terminal
<1>2. CASE ~cmd[r].holders
      <2>1. /\ cmd'[r].pc = "cut" /\ cmd'[r].todo = want[r] /\ state' = state
            /\ \A q \in Runs : q # r => cmd'[q] = cmd[q]
            BY <1>2 DEF Checked, LocksType, Commands
      <2>2. \A q \in Runs : (Acquiring(q)' <=> Acquiring(q)) /\ (Unfinished(q)' <=> Unfinished(q))
            BY <1>a, <2>1 DEF Acquiring, Unfinished
      <2>3. Apart' BY <1>a, <2>2 DEF Apart
      <2>4. OwnedIsHeld' BY <1>a, <2>1, <2>2 DEF OwnedIsHeld, Holds, Cut
      <2>5. Seen(r)' = Seen(r) BY <1>a, <2>1 DEF Seen
      <2>6. SeenIsFree'
            BY <1>a, <1>2, <2>1, <2>2, <2>5 DEF SeenIsFree, Seen
      <2>7. WrittenIsHeld' BY <1>a, <2>1 DEF WrittenIsHeld
      <2> QED BY <2>3, <2>4, <2>6, <2>7
<1> QED BY <1>1, <1>2

\* The devices of an acquisition that writes are held by no other run.
LEMMA WritesOwn ==
    ASSUME LocksType, \A q \in Runs : Fits(q), FilesFit, NEW r \in Runs,
           cmd[r].pc \in {"cut", "fill"}, cmd[r].todo # {}
    PROVE  LET d == Least(cmd[r].todo)
           IN /\ d \in cmd[r].todo /\ d \in want[r] /\ d \in Devices
              /\ \A q \in Runs : q # r /\ Unfinished(q) => d \notin own[q]
              /\ \A q \in Runs : q # r /\ Acquiring(q) => d \notin want[q]
<1> DEFINE d == Least(cmd[r].todo)
<1>1. Acquiring(r) /\ ~cmd[r].holders /\ cmd[r].todo \subseteq want[r] /\ Seen(r) = want[r]
      BY DEF Fits, Acquiring, Seen
<1>2. cmd[r].todo \subseteq Devices /\ Devices \subseteq Nat
      BY DeviceLocksAssumption DEF LocksType, Commands
<1>3. d \in cmd[r].todo BY <1>2, LeastIsMember
<1>4. \A q \in Runs : q # r /\ Unfinished(q) => d \notin own[q]
      BY <1>1, <1>3 DEF FilesFit, SeenIsFree
<1>5. \A q \in Runs : q # r /\ Acquiring(q) => d \notin want[q]
      BY <1>1, <1>3 DEF FilesFit, Apart
<1> QED BY <1>1, <1>2, <1>3, <1>4, <1>5

LEMMA CutFiles ==
    ASSUME LocksType, \A q \in Runs : Fits(q), NEW r \in Runs, CutNext(r), FilesFit
    PROVE  FilesFit'
<1> DEFINE d == Least(cmd[r].todo)
<1>1. /\ file' = [file EXCEPT ![d] = Cut] /\ own' = own /\ want' = want /\ state' = state
      /\ cmd[r].pc = "cut" /\ cmd'[r].pc = "fill" /\ cmd[r].todo # {}
      /\ cmd'[r].todo = cmd[r].todo /\ cmd'[r].holders = cmd[r].holders
      /\ \A q \in Runs : q # r => cmd'[q] = cmd[q]
      BY DEF CutNext, LocksType, AtPc, Commands, meta, Goto
<1>2. /\ d \in cmd[r].todo /\ d \in want[r] /\ d \in Devices
      /\ \A q \in Runs : q # r /\ Unfinished(q) => d \notin own[q]
      /\ \A q \in Runs : q # r /\ Acquiring(q) => d \notin want[q]
      BY <1>1, WritesOwn
<1>3. /\ file'[d] = Cut /\ \A e \in Devices \ {d} : file'[e] = file[e]
      BY <1>1, <1>2 DEF LocksType
<1> HIDE DEF d
<1>4. \A q \in Runs : (Acquiring(q)' <=> Acquiring(q)) /\ (Unfinished(q)' <=> Unfinished(q))
      BY <1>1 DEF Acquiring, Unfinished
<1>5. Apart' BY <1>1, <1>4 DEF Apart, FilesFit
<1>6. OwnedIsHeld'
      <2> SUFFICES ASSUME NEW q \in Runs, NEW e \in own[q], Unfinished(q)
                   PROVE  Holds(q, e)'
          BY <1>1, <1>4 DEF OwnedIsHeld
      <2>1. Holds(q, e) /\ e \in Devices BY DEF FilesFit, OwnedIsHeld, LocksType
      <2>2. CASE q = r /\ e = d BY <1>1, <1>3, <2>2 DEF Holds, Cut, d
      <2>3. CASE q = r /\ e # d BY <1>1, <1>3, <2>1, <2>3 DEF Holds, Cut
      <2>4. CASE q # r BY <1>1, <1>2, <1>3, <2>1, <2>4 DEF Holds, Cut
      <2> QED BY <2>2, <2>3, <2>4
<1>7. SeenIsFree' BY <1>1, <1>4 DEF SeenIsFree, FilesFit, Seen
<1>8. WrittenIsHeld'
      <2> SUFFICES ASSUME NEW q \in Runs, cmd'[q].pc \in {"cut", "fill"},
                          NEW e \in want[q] \ cmd'[q].todo
                   PROVE  file'[e].run = q
          BY <1>1 DEF WrittenIsHeld
      <2>1. e \in Devices /\ e \in want[q] \ cmd[q].todo /\ cmd[q].pc \in {"cut", "fill"}
            BY <1>1, DeviceLocksAssumption DEF LocksType
      <2>2. file[e].run = q BY <2>1 DEF FilesFit, WrittenIsHeld
      <2>3. e # d BY <1>2, <2>1 DEF Acquiring
      <2> QED BY <1>3, <2>1, <2>2, <2>3
<1> QED BY <1>5, <1>6, <1>7, <1>8 DEF FilesFit

LEMMA FillFiles ==
    ASSUME LocksType, \A q \in Runs : Fits(q), NEW r \in Runs, Fill(r), FilesFit
    PROVE  FilesFit'
<1> DEFINE d == Least(cmd[r].todo)
<1>1. /\ file' = [file EXCEPT ![d] = [run |-> r, devices |-> want[r]]]
      /\ own' = own /\ want' = want /\ state' = state
      /\ cmd[r].pc = "fill" /\ cmd'[r].pc = "cut" /\ cmd[r].todo # {}
      /\ cmd'[r].todo = cmd[r].todo \ {d} /\ cmd'[r].holders = cmd[r].holders
      /\ \A q \in Runs : q # r => cmd'[q] = cmd[q]
      BY DEF Fill, LocksType, AtPc, Commands, meta, Fits
<1>2. /\ d \in cmd[r].todo /\ d \in want[r] /\ d \in Devices
      /\ \A q \in Runs : q # r /\ Unfinished(q) => d \notin own[q]
      /\ \A q \in Runs : q # r /\ Acquiring(q) => d \notin want[q]
      BY <1>1, WritesOwn
<1>3. /\ file'[d].run = r /\ \A e \in Devices \ {d} : file'[e] = file[e]
      BY <1>1, <1>2 DEF LocksType
<1>a. \A e \in Devices : Holds(r, e) => file'[e].run = r
      BY <1>1, <1>3 DEF Holds
<1> HIDE DEF d
<1>4. \A q \in Runs : (Acquiring(q)' <=> Acquiring(q)) /\ (Unfinished(q)' <=> Unfinished(q))
      BY <1>1 DEF Acquiring, Unfinished
<1>5. Apart' BY <1>1, <1>4 DEF Apart, FilesFit
<1>6. OwnedIsHeld'
      <2> SUFFICES ASSUME NEW q \in Runs, NEW e \in own[q], Unfinished(q)
                   PROVE  Holds(q, e)'
          BY <1>1, <1>4 DEF OwnedIsHeld
      <2>1. Holds(q, e) /\ e \in Devices BY DEF FilesFit, OwnedIsHeld, LocksType
      <2>2. CASE q = r BY <1>a, <2>1, <2>2 DEF Holds
      <2>3. CASE q # r BY <1>1, <1>2, <1>3, <2>1, <2>3 DEF Holds, Cut
      <2> QED BY <2>2, <2>3
<1>7. SeenIsFree' BY <1>1, <1>4 DEF SeenIsFree, FilesFit, Seen
<1>8. WrittenIsHeld'
      <2> SUFFICES ASSUME NEW q \in Runs, cmd'[q].pc \in {"cut", "fill"},
                          NEW e \in want[q] \ cmd'[q].todo
                   PROVE  file'[e].run = q
          BY <1>1 DEF WrittenIsHeld
      <2>1. e \in Devices BY <1>1, DeviceLocksAssumption DEF LocksType
      <2>2. CASE q = r /\ e = d BY <1>3, <2>2
      <2>3. CASE q = r /\ e # d BY <1>1, <1>3, <2>1, <2>3 DEF FilesFit, WrittenIsHeld
      <2>4. CASE q # r
            <3>1. e # d BY <1>1, <1>2, <2>4 DEF Acquiring
            <3> QED BY <1>1, <1>3, <2>1, <2>4, <3>1 DEF FilesFit, WrittenIsHeld
      <2> QED BY <2>2, <2>3, <2>4
<1> QED BY <1>5, <1>6, <1>7, <1>8 DEF FilesFit

LEMMA AcquiredFiles ==
    ASSUME LocksType, \A q \in Runs : Fits(q), NEW r \in Runs, Acquired(r), FilesFit
    PROVE  FilesFit'
<1> USE DEF FilesFit
<1>1. /\ file' = file /\ own' = [own EXCEPT ![r] = want[r]] /\ want' = want /\ state' = state
      /\ cmd[r].pc = "cut" /\ cmd'[r].pc = "decided" /\ cmd[r].todo = {} /\ ~cmd[r].holders
      /\ \A q \in Runs : q # r => cmd'[q] = cmd[q]
      /\ own'[r] = want[r] /\ \A q \in Runs : q # r => own'[q] = own[q]
      BY DEF Acquired, LocksType, AtPc, Commands, meta, Goto, Fits
<1>2. \A q \in Runs : (Acquiring(q)' <=> q # r /\ Acquiring(q))
                      /\ (Unfinished(q)' <=> Unfinished(q))
      BY <1>1 DEF Acquiring, Unfinished
<1>3. Apart' BY <1>1, <1>2 DEF Apart
<1>4. OwnedIsHeld'
      <2> SUFFICES ASSUME NEW q \in Runs, NEW e \in own'[q], Unfinished(q)
                   PROVE  Holds(q, e)'
          BY <1>1, <1>2 DEF OwnedIsHeld
      <2>1. CASE q = r BY <1>1, <2>1 DEF WrittenIsHeld, Holds
      <2>2. CASE q # r
            <3>1. Holds(q, e) BY <1>1, <2>2 DEF OwnedIsHeld
            <3> QED BY <1>1, <2>2, <3>1 DEF Holds, Cut
      <2> QED BY <2>1, <2>2
<1>5. SeenIsFree'
      <2> SUFFICES ASSUME NEW q \in Runs, NEW s \in Runs, q # s, s # r, Acquiring(s),
                          ~cmd[s].holders, Unfinished(q)
                   PROVE  own'[q] \cap Seen(s) = {}
          BY <1>1, <1>2 DEF SeenIsFree, Seen
      <2>1. CASE q = r BY <1>1, <2>1 DEF Apart, Acquiring, Seen
      <2>2. CASE q # r BY <1>1, <2>2 DEF SeenIsFree
      <2> QED BY <2>1, <2>2
<1>6. WrittenIsHeld' BY <1>1 DEF WrittenIsHeld
<1> QED BY <1>3, <1>4, <1>5, <1>6

\* A run that gives its devices up, or ends, and no file that another one holds.
LEMMA GivenUpFiles ==
    ASSUME LocksType, NEW r \in Runs, Step(r), FilesFit, ~Acquiring(r)',
           own'[r] = {} \/ ~Unfinished(r)',
           \A q \in Runs : \A e \in Devices : q # r /\ Holds(q, e) => file'[e] = file[e]
    PROVE  FilesFit'
<1> USE DEF FilesFit
<1>1. \A q \in Runs : q # r => /\ state'[q] = state[q] /\ want'[q] = want[q]
                               /\ cmd'[q] = cmd[q] /\ (Acquiring(q)' <=> Acquiring(q))
                               /\ (Unfinished(q)' <=> Unfinished(q)) /\ own'[q] = own[q]
      BY StepIsOwn DEF Acquiring, Unfinished
<1>2. Apart' BY <1>1 DEF Apart
<1>3. OwnedIsHeld'
      <2> SUFFICES ASSUME NEW q \in Runs, q # r, NEW e \in own[q], Unfinished(q)
                   PROVE  Holds(q, e)'
          BY <1>1 DEF OwnedIsHeld
      <2>1. Holds(q, e) /\ e \in Devices BY DEF OwnedIsHeld, LocksType
      <2>2. file'[e] = file[e] BY <2>1
      <2> QED BY <1>1, <2>1, <2>2 DEF Holds, Cut
<1>4. SeenIsFree' BY <1>1 DEF SeenIsFree, Seen
<1>5. WrittenIsHeld'
      <2> SUFFICES ASSUME NEW q \in Runs, cmd'[q].pc \in {"cut", "fill"},
                          NEW e \in want'[q] \ cmd'[q].todo
                   PROVE  file'[e].run = q
          BY DEF WrittenIsHeld
      <2>1. q # r BY DEF Acquiring
      <2>2. file[e].run = q /\ e \in Devices
            BY <1>1, <2>1, DeviceLocksAssumption DEF WrittenIsHeld, LocksType
      <2> QED BY <2>1, <2>2 DEF Holds
<1> QED BY <1>2, <1>3, <1>4, <1>5

LEMMA ReleasedFiles ==
    ASSUME LocksType, NEW r \in Runs, ReleaseAll(r), FilesFit, Clean'
    PROVE  FilesFit'
<1>0. Step(r) BY DEF Step
<1>1. ~Acquiring(r)' /\ own'[r] = {}
      BY DEF ReleaseAll, End, LocksType, NoCommand, Acquiring
<1>2. \A e \in want[r] : file[e] # Cut /\ Owner(e) \in {NoRun, r}
      BY DEF ReleaseAll, Clean
<1>3. ASSUME NEW q \in Runs, NEW e \in Devices, q # r, Holds(q, e)
      PROVE  file'[e] = file[e]
      <2>1. CASE e \in want[r]
            <3>1. file[e].run = q /\ file[e] # Cut BY <1>2, <1>3, <2>1 DEF Holds
            <3>2. Owner(e) = q BY <3>1, DeviceLocksAssumption DEF Owner, Unlocked, Cut
            <3> QED BY <1>2, <1>3, <2>1, <3>2, DeviceLocksAssumption
      <2>2. CASE e \notin want[r] BY <2>2 DEF ReleaseAll
      <2> QED BY <2>1, <2>2
<1> QED BY <1>0, <1>1, <1>3, GivenUpFiles

LEMMA CancelledFiles ==
    ASSUME LocksType, NEW r \in Runs, Cancel(r), FilesFit
    PROVE  FilesFit'
<1>0. Step(r) BY DEF Step
<1>1. ~Acquiring(r)' /\ ~Unfinished(r)'
      BY DEF Cancel, End, Become, LocksType, NoCommand, Acquiring, Unfinished, Terminal
<1>2. file' \in {file, Released(r)} BY DEF Cancel
<1>3. ASSUME NEW q \in Runs, NEW e \in Devices, q # r, Holds(q, e)
      PROVE  file'[e] = file[e]
      <2>1. Owner(e) # r
            BY <1>3, DeviceLocksAssumption DEF Holds, Owner, Unlocked, Cut
      <2> QED BY <1>2, <2>1 DEF Released, LocksType
<1> QED BY <1>0, <1>1, <1>3, GivenUpFiles

LEMMA SameFiles ==
    ASSUME FilesFit, UNCHANGED <<file, own, state, cmd, want>>
    PROVE  FilesFit'
BY DEF FilesFit, Acquiring, Apart, OwnedIsHeld, SeenIsFree, WrittenIsHeld, Seen, Holds,
       Unfinished, Cut

LEMMA FilesFitStep ==
    ASSUME LocksType, \A q \in Runs : Fits(q), NEW r \in Runs, Step(r), FilesFit, Clean'
    PROVE  FilesFit'
<1>0. Fits(r)' BY FitsStep
<1> USE <1>0 DEF LocksType, Begin, Goto, End, Become, NoCommand, Commands, Fits, Acquiring,
        AtPc, Idle, meta, Terminal, Unfinished
<1>1. CASE StartRun(r) BY <1>1, QuietFiles DEF StartRun
<1>2. CASE Recheck(r) BY <1>2, QuietFiles DEF Recheck
<1>3. CASE Resume(r) BY <1>3, QuietFiles DEF Resume
<1>4. CASE Probe(r) BY <1>4, ProbeFiles
<1>5. CASE Check(r) BY <1>5, CheckFiles
<1>6. CASE Checked(r) BY <1>6, CheckedFiles
<1>7. CASE CutNext(r) BY <1>7, CutFiles
<1>8. CASE Fill(r) BY <1>8, FillFiles
<1>9. CASE Acquired(r) BY <1>9, AcquiredFiles
<1>10. CASE Decided(r) BY <1>10, QuietFiles DEF Decided
<1>11. CASE LaunchRun(r)
       <2>1. /\ file' = file /\ own' = own /\ cmd[r].pc = "launch"
             /\ cmd'[r].pc \in {"health", "idle"} /\ state[r] = "START_SERVICE"
             BY <1>11 DEF LaunchRun
       <2> QED BY <2>1, QuietFiles
<1>12. CASE Health(r) BY <1>12, QuietFiles DEF Health
<1>13. CASE Done(r) BY <1>13, QuietFiles DEF Done
<1>14. CASE BenchFails(r) BY <1>14, QuietFiles DEF BenchFails
<1>15. CASE Stop(r) BY <1>15, QuietFiles DEF Stop
<1>16. CASE StopContainer(r)
       <2>1. /\ file' = file /\ own' = own /\ cmd[r].pc = "stop"
             /\ cmd'[r].pc \in {"release", "idle"} /\ state[r] # "NEW"
             /\ state'[r] \in {state[r], "DONE"}
             BY <1>16 DEF StopContainer, Finish
       <2> QED BY <2>1, QuietFiles
<1>17. CASE ReleaseAll(r) BY <1>17, ReleasedFiles
<1>18. CASE Cancel(r) BY <1>18, CancelledFiles
<1>19. CASE Crash(r)
       <2>1. file' = file /\ own' = own /\ state' = state /\ cmd'[r].pc = "idle"
             BY <1>19 DEF Crash
       <2>2. cmd[r].pc # "fill" BY <1>19 DEF Crash, Torn, Clean
       <2> QED BY <2>1, <2>2, QuietFiles
<1>20. CASE ServiceDies(r)
       <2>1. file' = file /\ own' = own /\ state' = state /\ cmd' = cmd /\ want' = want
             BY <1>20 DEF ServiceDies
       <2> QED BY <2>1, SameFiles
<1> QED BY <1>1, <1>2, <1>3, <1>4, <1>5, <1>6, <1>7, <1>8, <1>9, <1>10, <1>11, <1>12, <1>13,
           <1>14, <1>15, <1>16, <1>17, <1>18, <1>19, <1>20 DEF Step

LEMMA LocksInvInit == LocksInit => LocksInv
<1> SUFFICES ASSUME LocksInit PROVE LocksInv OBVIOUS
<1>1. LocksType BY LocksTypeInit
<1>2. \A r \in Runs : cmd[r].pc = "idle" /\ own[r] = {} BY DEF LocksInit, NoCommand
<1>3. \A r \in Runs : Fits(r) BY <1>2 DEF LocksInit, Fits, Acquiring
<1>4. FilesFit
      BY <1>2 DEF FilesFit, Apart, OwnedIsHeld, SeenIsFree, WrittenIsHeld, Acquiring
<1> QED BY <1>1, <1>3, <1>4 DEF LocksInv

LEMMA LocksInvStep == LocksInv /\ [LocksNext]_locksVars => LocksInv'
<1> SUFFICES ASSUME LocksInv, [LocksNext]_locksVars PROVE LocksInv' OBVIOUS
<1>1. CASE UNCHANGED locksVars
      BY <1>1, ZenonT(60) DEF locksVars, meta, LocksInv, LocksType, Fits, Acquiring, Clean, FilesFit, Apart,
         OwnedIsHeld, SeenIsFree, WrittenIsHeld, Seen, Holds, Unfinished, Cut
<1>2. CASE LocksNext
      <2>1. PICK r \in Runs : Step(r) BY <1>2 DEF LocksNext
      <2>2. LocksType' BY <2>1, LocksTypeStep DEF LocksInv
      <2>3. \A q \in Runs : Fits(q)' BY <2>1, FitsStep DEF LocksInv
      <2>4. Clean' => Clean BY <2>1, CausesGrow DEF Clean
      <2>5. Clean' => FilesFit' BY <2>1, <2>4, FilesFitStep DEF LocksInv
      <2> QED BY <2>2, <2>3, <2>5 DEF LocksInv
<1> QED BY <1>1, <1>2

LEMMA LocksInvExclusive == LocksInv => Exclusive
<1> SUFFICES ASSUME LocksInv, causes \subseteq {"moved", "early", "stale", "freed"},
                    NEW r \in Runs, NEW s \in Runs, r # s, Unfinished(r), Unfinished(s),
                    NEW d \in own[r] \cap own[s]
             PROVE  FALSE
    BY DEF Exclusive
<1>1. FilesFit BY DEF LocksInv, Clean
<1>2. Holds(r, d) /\ Holds(s, d) BY <1>1 DEF FilesFit, OwnedIsHeld
<1>3. d \in Devices BY DEF LocksInv, LocksType
<1> QED BY <1>1, <1>2, <1>3, HoldsOne DEF LocksInv, FilesFit

\* Two unfinished runs never have acquired the same device (Exclusive, about
\* try_acquire of tools/lock.py), whatever the number of runs and devices, and in
\* whatever containers the services are.
THEOREM DevicesAreExclusive ==
    LocksInit /\ [][LocksNext]_locksVars => []Exclusive
<1>1. LocksInit /\ [][LocksNext]_locksVars => []LocksInv
      BY LocksInvInit, LocksInvStep, PTL
<1> QED BY <1>1, LocksInvExclusive, PTL

-----------------------------------------------------------------------------
(* A service that a run has seen healthy keeps its devices locked.            *)

\* A service appears only when its run launches it.
LEMMA ServiceSteps ==
    ASSUME LocksType, NEW r \in Runs, Step(r), NEW q \in Runs
    PROVE  \/ service'[q] \subseteq service[q]
           \/ /\ LaunchRun(r) /\ q = r
              /\ service'[q] \subseteq service[q] \cup {want[q]}
BY DEF LocksType, Step, StartRun, Recheck, Resume, Probe, Check, Checked, CutNext, Fill,
       Acquired, Decided, LaunchRun, Health, Done, BenchFails, Stop, StopContainer, ReleaseAll,
       Cancel, Crash, ServiceDies

LEMMA LaunchFrame ==
    ASSUME LocksType, NEW r \in Runs, Fits(r), LaunchRun(r)
    PROVE  /\ file' = file /\ own' = own /\ want' = want /\ known' = known
           /\ cmd[r].pc = "launch" /\ cmd'[r].pc \in {"health", "idle"} /\ own[r] = want[r]
           /\ cmd[r].view.decision = "need_start" /\ Unfinished(r) /\ Unfinished(r)'
BY DEF LaunchRun, AtPc, Fits, Goto, End, Become, LocksType, Commands, NoCommand, Unfinished,
       Terminal

\* Steps write no name but that of their run into a file.
LEMMA FileSteps ==
    ASSUME LocksType, NEW r \in Runs, Fits(r), Step(r), NEW d \in Devices
    PROVE  \/ file'[d] = file[d]
           \/ file'[d].run \in {NoRun, CutFile}
           \/ /\ file'[d].run = r /\ file'[d].devices = want[r] /\ Fill(r)
              /\ d = Least(cmd[r].todo)
<1> USE DEF LocksType, Unlocked, Cut
<1>1. CASE CutNext(r) BY <1>1 DEF CutNext
<1>2. CASE Fill(r) BY <1>2 DEF Fill
<1>3. CASE ReleaseAll(r) BY <1>3 DEF ReleaseAll
<1>4. CASE Cancel(r) BY <1>4 DEF Cancel, Released
<1>5. CASE ~CutNext(r) /\ ~Fill(r) /\ ~ReleaseAll(r) /\ ~Cancel(r)
      BY <1>5 DEF Step, StartRun, Recheck, Resume, Probe, Check, Checked, Acquired, Decided,
         LaunchRun, Health, Done, BenchFails, Stop, StopContainer, Crash, ServiceDies
<1> QED BY <1>1, <1>2, <1>3, <1>4, <1>5

\* What is known and what exists stays so.
LEMMA KnownSteps ==
    ASSUME LocksType, NEW r \in Runs, Step(r), NEW q \in Runs
    PROVE  /\ known[q] => known'[q]
           /\ state[q] # "NEW" => state'[q] # "NEW"
           /\ known'[q] # known[q] => q = r /\ (Decided(r) \/ Health(r))
<1>1. CASE Decided(r) \/ Health(r)
      BY <1>1 DEF Decided, Health, LocksType, Become, meta
<1>2. CASE ~(Decided(r) \/ Health(r))
      BY <1>2 DEF LocksType, Step, StartRun, Recheck, Resume, Probe, Check, Checked, CutNext,
         Fill, Acquired, LaunchRun, Done, BenchFails, Stop, StopContainer, ReleaseAll,
         Cancel, Crash, ServiceDies, Become, Finish, meta
<1> QED BY <1>1, <1>2

LEMMA OwnedStep ==
    ASSUME LocksInv, ServicesFit, NEW r \in Runs, Step(r), causes' = {}
    PROVE  ServiceIsOwned'
<1> USE DEF LocksInv, ServicesFit
<1> SUFFICES ASSUME NEW q \in Runs, NEW w \in service'[q]
             PROVE  w = want'[q] /\ own'[q] = want'[q] /\ cmd'[q].pc # "release"
    BY DEF ServiceIsOwned
<1>1. CASE LaunchRun(r) /\ q = r BY <1>1, LaunchFrame, ServiceSteps DEF ServiceIsOwned
<1>2. CASE w \in service[q]
      <2>1. w = want[q] /\ own[q] = want[q] /\ cmd[q].pc # "release" /\ own[q] # {}
            BY <1>2, DeviceLocksAssumption DEF ServiceIsOwned, LocksType
      <2>2. CASE q # r BY <2>1, <2>2, StepIsOwn
      <2>3. CASE q = r
            <3> USE <2>1, <2>3 DEF LocksType, Begin, Goto, End, AtPc, NoCommand, Commands, meta
            <3>1. CASE Resume(r)
                  <4>1. PICK x \in Wishes :
                           /\ want' = [want EXCEPT ![r] = x]
                           /\ causes' = IF x # want[r] /\ own[r] # {} THEN causes \cup {"moved"}
                                                                     ELSE causes
                        BY <3>1 DEF Resume
                  <4>2. x = want[r] BY <4>1
                  <4> QED BY <3>1, <4>1, <4>2 DEF Resume
            <3>2. CASE Acquired(r) BY <3>2 DEF Acquired
            <3>3. CASE StopContainer(r) BY <3>3, DeviceLocksAssumption DEF StopContainer
            <3>4. CASE ReleaseAll(r) BY <3>4 DEF ReleaseAll
            <3>5. CASE Cancel(r) BY <3>5 DEF Cancel
            <3>6. CASE Checked(r)
                  <4>1. CASE cmd[r].holders BY <3>6, <4>1 DEF Checked
                  <4>2. CASE ~cmd[r].holders BY <3>6, <4>2 DEF Checked
                  <4> QED BY <4>1, <4>2
            <3>7. CASE Decided(r) BY <3>7 DEF Decided
            <3>8. CASE ~Resume(r) /\ ~Acquired(r) /\ ~StopContainer(r) /\ ~ReleaseAll(r)
                       /\ ~Cancel(r) /\ ~Checked(r) /\ ~Decided(r)
                  BY <3>8 DEF Step, StartRun, Recheck, Probe, Check, CutNext, Fill,
                     LaunchRun, Health, Done, BenchFails, Stop, Crash, ServiceDies
            <3> QED BY <3>1, <3>2, <3>3, <3>4, <3>5, <3>6, <3>7, <3>8
      <2> QED BY <2>2, <2>3
<1> QED BY <1>1, <1>2, ServiceSteps

\* While a run is about to launch, no other that is committed to launch wants
\* its devices.
LEMMA LaunchIsApart ==
    ASSUME LocksInv, causes = {}, NEW r \in Runs, cmd[r].pc = "launch",
           NEW q \in Runs, q # r, cmd[q].pc \in {"cut", "fill", "decided", "launch"}
    PROVE  want[q] \cap want[r] = {}
<1>1. FilesFit BY DEF LocksInv, Clean
<1>2. own[r] = want[r] /\ Unfinished(r) BY DEF LocksInv, Fits, Unfinished, Terminal
<1>3. CASE cmd[q].pc \in {"cut", "fill"}
      BY <1>1, <1>2, <1>3 DEF FilesFit, SeenIsFree, Seen, Acquiring, LocksInv, Fits
<1>4. CASE cmd[q].pc \in {"decided", "launch"}
      <2>1. own[q] = want[q] /\ Unfinished(q) BY <1>4 DEF LocksInv, Fits, Unfinished, Terminal
      <2>2. Exclusive BY LocksInvExclusive
      <2> QED BY <1>2, <2>1, <2>2 DEF Exclusive
<1> QED BY <1>3, <1>4

LEMMA ApartStep ==
    ASSUME LocksInv, ServicesFit, NEW r \in Runs, Step(r)
    PROVE  ServicesApart'
<1> USE DEF LocksInv, ServicesFit
<1>1. CASE LaunchRun(r)
      <2>1. want[r] \cap Busy = {} BY <1>1, LaunchFrame DEF IdleUntilLaunch, Launching
      <2>2. \A q \in Runs : \A w \in service[q] : want[r] \cap w = {}
            BY <2>1 DEF Busy, Services
      <2>3. \A q \in Runs : \A w \in service'[q] : w \in service[q] \/ (q = r /\ w = want[r])
            BY ServiceSteps
      <2> SUFFICES ASSUME NEW a \in Runs, NEW b \in Runs, NEW v \in service'[a],
                          NEW w \in service'[b], v \cap w # {}
                   PROVE  a = b
          BY DEF ServicesApart
      <2>4. CASE v \in service[a] /\ w \in service[b] BY <2>4 DEF ServicesApart
      <2>5. CASE v \in service[a] /\ ~(w \in service[b]) BY <2>2, <2>3, <2>5
      <2>6. CASE ~(v \in service[a]) /\ w \in service[b] BY <2>2, <2>3, <2>6
      <2>7. CASE ~(v \in service[a]) /\ ~(w \in service[b]) BY <2>3, <2>7
      <2> QED BY <2>4, <2>5, <2>6, <2>7
<1>2. CASE ~LaunchRun(r)
      <2>1. \A q \in Runs : service'[q] \subseteq service[q] BY <1>2, ServiceSteps
      <2> QED BY <2>1 DEF ServicesApart
<1> QED BY <1>1, <1>2

LEMMA IdleStep ==
    ASSUME LocksInv, ServicesFit, NEW r \in Runs, Step(r), causes' = {}, causes = {}
    PROVE  IdleUntilLaunch'
<1> USE DEF LocksInv, ServicesFit
<1>1. Busy' \subseteq Busy \cup want[r] /\ (Busy' \subseteq Busy \/ LaunchRun(r))
      BY ServiceSteps DEF Busy, Services
<1> SUFFICES ASSUME NEW q \in Runs
             PROVE  /\ Launching(q)' => want'[q] \cap Busy' = {}
                    /\ cmd'[q].pc = "check" /\ cmd'[q].view.decision = "need_start"
                          => want'[q] \cap cmd'[q].view.busy = {}
    BY DEF IdleUntilLaunch
<1>2. /\ Launching(q) => want[q] \cap Busy = {}
      /\ cmd[q].pc = "check" /\ cmd[q].view.decision = "need_start"
            => want[q] \cap cmd[q].view.busy = {}
      BY DEF IdleUntilLaunch
<1>3. CASE q # r
      <2>1. cmd'[q] = cmd[q] /\ want'[q] = want[q] BY <1>3, StepIsOwn
      <2>2. LaunchRun(r) /\ Launching(q) => want[q] \cap want[r] = {}
            BY <1>3, LaunchIsApart, LaunchFrame DEF Launching
      <2> QED BY <1>1, <1>2, <2>1, <2>2 DEF Launching
<1>4. CASE q = r
      <2> USE <1>2, <1>4 DEF LocksType, Commands, Goto, AtPc, End, NoCommand, Launching, meta
      <2>1. CASE Probe(r)
            <3>1. CASE cmd' = [cmd EXCEPT ![r] = NoCommand] BY <2>1, <3>1
            <3>2. CASE cmd' # [cmd EXCEPT ![r] = NoCommand]
                  <4>1. PICK k \in LockDecisions(r) : cmd' = [cmd EXCEPT ![r] =
                              [pc |-> "check", todo |-> want[r], holders |-> FALSE,
                               view |-> [decision |-> k.decision, match |-> k.match,
                                         busy |-> Busy]]]
                        BY <2>1, <3>2 DEF Probe
                  <4>2. k.decision = "need_start" => Busy \cap want[r] = {}
                        BY DEF LockDecisions
                  <4>3. want' = want BY <2>1 DEF Probe
                  <4>4. cmd'[r].pc = "check" /\ cmd'[r].view.decision = k.decision
                        /\ cmd'[r].view.busy = Busy
                        BY <4>1
                  <4> QED BY <4>2, <4>3, <4>4
            <3> QED BY <3>1, <3>2
      <2>2. CASE Checked(r)
            <3>1. CASE cmd[r].holders BY <2>2, <3>1 DEF Checked
            <3>2. CASE ~cmd[r].holders
                  <4>1. cmd[r].pc = "check" /\ cmd'[r].pc = "cut" /\ cmd'[r].view = cmd[r].view
                        /\ want' = want /\ service' = service
                        BY <2>2, <3>2 DEF Checked
                  <4>2. want[r] \cap (Busy \ cmd[r].view.busy) = {}
                        BY <2>2, <3>2 DEF Checked
                  <4>3. Busy' = Busy BY <4>1 DEF Busy, Services
                  <4> QED BY <4>1, <4>2, <4>3
            <3> QED BY <3>1, <3>2
      <2>3. CASE LaunchRun(r) BY <2>3, LaunchFrame
      <2>4. CASE Check(r) \/ CutNext(r) \/ Fill(r) \/ Acquired(r)
            <3>1. /\ cmd'[r].view = cmd[r].view /\ want' = want /\ service' = service
                  /\ (Launching(r)' <=> Launching(r))
                  /\ (cmd'[r].pc = "check" <=> cmd[r].pc = "check")
                  BY <2>4 DEF Check, CutNext, Fill, Acquired
            <3> QED BY <1>1, <3>1, <2>4 DEF Busy, Services
      <2>5. CASE Decided(r)
            <3>1. cmd[r].pc = "decided" /\ cmd'[r].pc \in {"launch", "health"}
                  /\ cmd'[r].view = cmd[r].view /\ want' = want /\ service' = service
                  BY <2>5 DEF Decided
            <3> QED BY <3>1 DEF Busy, Services
      <2>6. CASE ServiceDies(r)
            <3>1. cmd' = cmd /\ want' = want /\ cmd[r].pc = cmd'[r].pc BY <2>6 DEF ServiceDies
            <3>2. Busy' \subseteq Busy BY <2>6, ServiceSteps, <1>1, LaunchFrame DEF ServiceDies, Busy, Services
            <3> QED BY <3>1, <3>2
      <2>7. CASE StartRun(r) \/ Recheck(r) \/ Resume(r) \/ Stop(r)
            BY <2>7 DEF StartRun, Recheck, Resume, Stop, Begin
      <2>8. CASE Done(r) \/ BenchFails(r)
            BY <2>8 DEF Done, BenchFails, Idle
      <2>9. CASE Health(r) \/ StopContainer(r) \/ ReleaseAll(r) \/ Cancel(r) \/ Crash(r)
            BY <2>9 DEF Health, StopContainer, ReleaseAll, Cancel, Crash
      <2> QED BY <2>1, <2>2, <2>3, <2>4, <2>5, <2>6, <2>7, <2>8, <2>9 DEF Step
<1> QED BY <1>3, <1>4

LEMMA NamesStep ==
    ASSUME LocksInv, ServicesFit, NEW r \in Runs, Step(r)
    PROVE  FileNamesDevice'
<1> USE DEF LocksInv, ServicesFit
<1> SUFFICES ASSUME NEW d \in Devices, file'[d].run \in Runs
             PROVE  d \in file'[d].devices /\ state'[file'[d].run] # "NEW"
    BY DEF FileNamesDevice
<1>1. CASE file'[d] = file[d] BY <1>1, KnownSteps DEF FileNamesDevice
<1>2. CASE file'[d].run \in {NoRun, CutFile} BY <1>2, DeviceLocksAssumption
<1>3. CASE file'[d].run = r /\ file'[d].devices = want[r] /\ Fill(r) /\ d = Least(cmd[r].todo)
      <2>1. cmd[r].pc = "fill" BY <1>3 DEF Fill, AtPc
      <2>2. cmd[r].todo # {} /\ cmd[r].todo \subseteq want[r] /\ state[r] = "PROBE_SERVICE"
            BY <2>1 DEF Fits, Acquiring
      <2>3. cmd[r].todo \subseteq Nat BY DeviceLocksAssumption DEF LocksType, Commands
      <2> QED BY <1>3, <2>2, <2>3, LeastIsMember, KnownSteps
<1> QED BY <1>1, <1>2, <1>3, FileSteps

\* A new or an old acquisition keeps its view, and what it wants.
LEMMA ViewSteps ==
    ASSUME LocksType, NEW r \in Runs, Step(r), Acquiring(r)'
    PROVE  /\ want'[r] = want[r] /\ \A q \in Runs : service'[q] \subseteq service[q]
           /\ known' = known
           /\ \/ Acquiring(r) /\ cmd'[r].view = cmd[r].view
                               /\ (~cmd'[r].holders => ~cmd[r].holders)
              \/ /\ cmd'[r].pc = "check" /\ cmd'[r].todo = want[r]
                 /\ \E k \in LockDecisions(r) :
                       /\ Probe(r) /\ cmd'[r].view.busy = Busy
                       /\ cmd'[r].view.match = k.match
                       /\ cmd'[r].view.decision = k.decision
<1> USE DEF LocksType, Commands, Goto, AtPc, End, NoCommand, meta, Acquiring
<1>1. CASE Probe(r)
      <2>1. CASE cmd' = [cmd EXCEPT ![r] = NoCommand] BY <2>1
      <2>2. CASE cmd' # [cmd EXCEPT ![r] = NoCommand]
            <3>1. PICK k \in LockDecisions(r) : cmd' = [cmd EXCEPT ![r] =
                        [pc |-> "check", todo |-> want[r], holders |-> FALSE,
                         view |-> [decision |-> k.decision, match |-> k.match,
                                   busy |-> Busy]]]
                  BY <1>1, <2>2 DEF Probe
            <3>2. want' = want /\ service' = service /\ known' = known BY <1>1 DEF Probe
            <3>3. /\ cmd'[r].pc = "check" /\ cmd'[r].todo = want[r]
                  /\ cmd'[r].view.busy = Busy /\ cmd'[r].view.match = k.match
                  /\ cmd'[r].view.decision = k.decision
                  BY <3>1
            <3> HIDE DEF AtPc, End, meta
            <3> QED BY <1>1, <3>2, <3>3
      <2> QED BY <2>1, <2>2
<1>2. CASE Checked(r)
      <2>1. CASE cmd[r].holders BY <1>2, <2>1 DEF Checked
      <2>2. CASE ~cmd[r].holders BY <1>2, <2>2 DEF Checked
      <2> QED BY <2>1, <2>2
<1>3. CASE Check(r) BY <1>3 DEF Check
<1>4. CASE CutNext(r) \/ Fill(r) \/ Acquired(r) BY <1>4 DEF CutNext, Fill, Acquired
<1>5. CASE ServiceDies(r) BY <1>5 DEF ServiceDies
<1>6. CASE StartRun(r) \/ Recheck(r) \/ Resume(r) \/ Stop(r) \/ Decided(r) \/ LaunchRun(r)
      <2>1. cmd'[r].pc \in {"probe", "health", "stop", "launch", "idle"}
            BY <1>6 DEF StartRun, Recheck, Resume, Stop, Begin, Decided, LaunchRun
      <2> QED BY <2>1
<1>7. CASE Done(r) \/ BenchFails(r) BY <1>7 DEF Done, BenchFails, Idle
<1>8. CASE Health(r) \/ StopContainer(r) \/ ReleaseAll(r) \/ Cancel(r) \/ Crash(r)
      <2>1. cmd'[r].pc \in {"release", "idle"}
            BY <1>8 DEF Health, StopContainer, ReleaseAll, Cancel, Crash
      <2> QED BY <2>1
<1> QED BY <1>1, <1>2, <1>3, <1>4, <1>5, <1>6, <1>7, <1>8 DEF Step

\* A run that is about to launch was already, or was acquiring.
LEMMA LaunchingSteps ==
    ASSUME LocksType, NEW r \in Runs, Step(r), cmd'[r].pc \in {"decided", "launch"},
           cmd'[r].view.decision = "need_start"
    PROVE  /\ want'[r] = want[r] /\ cmd[r].view.decision = "need_start"
           /\ Acquiring(r) \/ cmd[r].pc \in {"decided", "launch"}
<1> USE DEF LocksType, Commands, Goto, AtPc, End, NoCommand, meta, Acquiring
<1>1. CASE Acquired(r) BY <1>1 DEF Acquired
<1>2. CASE Decided(r) BY <1>2 DEF Decided
<1>3. CASE ServiceDies(r) BY <1>3 DEF ServiceDies
<1>4. CASE StartRun(r) \/ Recheck(r) \/ Resume(r) \/ Stop(r)
      BY <1>4 DEF StartRun, Recheck, Resume, Stop, Begin
<1>5. CASE Probe(r) BY <1>5 DEF Probe
<1>6. CASE Check(r) \/ CutNext(r) \/ Fill(r) BY <1>6 DEF Check, CutNext, Fill
<1>7. CASE Checked(r)
      <2>1. CASE cmd[r].holders BY <1>7, <2>1 DEF Checked
      <2>2. CASE ~cmd[r].holders BY <1>7, <2>2 DEF Checked
      <2> QED BY <2>1, <2>2
<1>8. CASE LaunchRun(r) BY <1>8 DEF LaunchRun
<1>9. CASE Done(r) \/ BenchFails(r) BY <1>9 DEF Done, BenchFails, Idle
<1>10. CASE Health(r) \/ StopContainer(r) \/ ReleaseAll(r) \/ Cancel(r) \/ Crash(r)
      <2>1. cmd'[r].pc \in {"release", "idle"}
            BY <1>10 DEF Health, StopContainer, ReleaseAll, Cancel, Crash
      <2> QED BY <2>1
<1> QED BY <1>1, <1>2, <1>3, <1>4, <1>5, <1>6, <1>7, <1>8, <1>9, <1>10 DEF Step

LEMMA MatchedStep ==
    ASSUME LocksInv, ServicesFit, NEW r \in Runs, Step(r), causes = {}
    PROVE  MatchedIsBeside'
<1> USE DEF LocksInv, ServicesFit
<1>0. FilesFit BY DEF Clean
<1> SUFFICES ASSUME NEW a \in Runs, NEW s \in Runs, Acquiring(s)', cmd'[s].view.match,
                    Container[a] # Container[s]
             PROVE  /\ \A w \in service'[a] : w \cap want'[s] = {}
                    /\ cmd'[a].pc \in {"decided", "launch"}
                          /\ cmd'[a].view.decision = "need_start"
                          => want'[a] \cap want'[s] = {}
    BY DEF MatchedIsBeside
<1>1. CASE s = r
      <2>1. cmd'[a] = cmd[a] /\ want'[a] = want[a] BY <1>1, StepIsOwn
      <2>2. want'[s] = want[s] /\ \A q \in Runs : service'[q] \subseteq service[q]
            BY <1>1, ViewSteps
      <2>3. CASE Acquiring(s) /\ cmd'[s].view = cmd[s].view
            BY <2>1, <2>2, <2>3 DEF MatchedIsBeside
      <2>4. CASE \E k \in LockDecisions(s) : k.match /\ Probe(s)
            <3>1. want[s] \in Beside(s)
                  <4> SUFFICES ASSUME want[s] \notin Beside(s), NEW k \in LockDecisions(s), k.match
                               PROVE  FALSE
                      BY <2>4
                  <4>1. k.match = FALSE BY DEF LockDecisions
                  <4> QED BY <4>1
            <3>2. PICK t \in Runs : Container[t] = Container[s] /\ want[s] \in service[t]
                  BY <3>1 DEF Beside
            <3>3. \A w \in service[a] : w \cap want[s] = {}
                  BY <3>2 DEF ServicesApart
            <3>4. want[s] \subseteq Busy BY <3>2 DEF Busy, Services
            <3> QED BY <2>1, <2>2, <3>3, <3>4 DEF IdleUntilLaunch, Launching
      <2> QED BY <1>1, <2>3, <2>4, ViewSteps
<1>2. CASE s # r
      <2>1. cmd'[s] = cmd[s] /\ want'[s] = want[s] /\ Acquiring(s)
            BY <1>2, StepIsOwn DEF Acquiring
      <2>2. \A w \in service'[a] : w \cap want[s] = {}
            BY <2>1, ServiceSteps, LaunchFrame DEF MatchedIsBeside
      <2>3. CASE a # r
            <3>1. cmd'[a] = cmd[a] /\ want'[a] = want[a] BY <2>3, StepIsOwn
            <3> QED BY <2>1, <2>2, <3>1 DEF MatchedIsBeside
      <2>4. CASE a = r
            BY <1>0, <1>2, <2>1, <2>2, <2>4, LaunchingSteps DEF MatchedIsBeside, FilesFit, Apart
      <2> QED BY <2>3, <2>4
<1> QED BY <1>1, <1>2

LEMMA SeenStep ==
    ASSUME LocksInv, ServicesFit, NEW r \in Runs, Step(r), causes' = {}, causes = {}
    PROVE  SeenIsBeside'
<1> USE DEF LocksInv, ServicesFit
<1>0. FilesFit BY DEF Clean
<1> SUFFICES ASSUME NEW a \in Runs, NEW s \in Runs, Acquiring(s)', ~cmd'[s].holders,
                    known'[a], Container[a] # Container[s],
                    NEW w \in service'[a], NEW d \in w, d \in Seen(s)'
             PROVE  cmd'[s].pc = "check" /\ d \notin cmd'[s].view.busy
    BY DEF SeenIsBeside
<1>1. CASE s = r
      <2>1. known[a] /\ w \in service[a] /\ want'[r] = want[r]
            BY <1>1, ViewSteps, StepIsOwn
      <2>2. d \in Devices /\ w \subseteq Devices
            BY <2>1, DeviceLocksAssumption DEF LocksType
      <2>3. CASE Check(r)
            <3> DEFINE e == Least(cmd[r].todo)
            <3>1. /\ cmd[r].pc = "check" /\ cmd'[r].pc = "check" /\ cmd'[r].view = cmd[r].view
                  /\ cmd'[r].todo = cmd[r].todo \ {e} /\ ~cmd[r].holders
                  /\ ~(Owner(e) \notin {NoRun, r} /\ LockIsActive(file[e], cmd[r].view))
                  BY <2>3, <1>1 DEF Check, AtPc, LocksType, Commands
            <3>2. CASE d \in Seen(r) BY <1>1, <2>1, <3>1, <3>2 DEF SeenIsBeside, Acquiring
            <3>3. CASE d \notin Seen(r)
                  <4>1. d = e /\ d \in want[r] BY <1>1, <2>1, <3>1, <3>3 DEF Seen
                  <4>2. PICK t \in Runs : Holds(t, d) /\ Container[t] = Container[a]
                        BY <2>1 DEF KnownIsHeld
                  <4>3. t # r BY <1>1, <4>2
                  <4>4. file[d].run = t
                        <5> SUFFICES ASSUME cmd[t].pc = "fill", d = Least(cmd[t].todo) PROVE FALSE
                            BY <4>2 DEF Holds
                        <5>1. cmd[t].todo # {} /\ cmd[t].todo \subseteq want[t] /\ Acquiring(t)
                              BY DEF Fits, Acquiring
                        <5>2. cmd[t].todo \subseteq Nat
                              BY DeviceLocksAssumption DEF LocksType, Commands
                        <5>3. d \in want[t] BY <5>1, <5>2, LeastIsMember
                        <5> QED BY <1>0, <3>1, <4>1, <4>3, <5>1, <5>3 DEF FilesFit, Apart, Acquiring
                  <4>5. Owner(d) = t BY <4>4, DeviceLocksAssumption DEF Owner, Unlocked, Cut
                  <4>6. ~LockIsActive(file[d], cmd[r].view)
                        BY <3>1, <4>1, <4>3, <4>5, DeviceLocksAssumption
                  <4>7. state[t] # "NEW" /\ d \in file[d].devices
                        BY <2>2, <4>4 DEF FileNamesDevice
                  <4>8. ~cmd[r].view.match
                        BY <1>1, <2>1, <3>1, <4>1 DEF MatchedIsBeside, Acquiring
                  <4>9. cmd[r].view.busy \cap file[d].devices = {}
                        BY <4>4, <4>6, <4>7, <4>8 DEF LockIsActive
                  <4> QED BY <1>1, <3>1, <4>7, <4>9
            <3> QED BY <3>2, <3>3
      <2>4. CASE Probe(r)
            <3>1. Seen(s)' = {}
                  <4>1. cmd[r].pc = "probe" BY <2>4 DEF Probe, AtPc
                  <4>2. cmd'[r].pc = "check" /\ cmd'[r].todo = want[r]
                        BY <1>1, <4>1, ViewSteps DEF Acquiring
                  <4> QED BY <1>1, <2>1, <4>2 DEF Seen
            <3> QED BY <3>1
      <2>5. CASE Checked(r)
            <3>1. ~cmd[r].holders
                  BY <1>1, <2>5 DEF Checked, End, NoCommand, Acquiring, LocksType
            <3>2. /\ cmd[r].pc = "check" /\ cmd[r].todo = {} /\ cmd'[r].pc = "cut"
                  /\ want[r] \cap (Busy \ cmd[r].view.busy) = {}
                  BY <2>5, <3>1 DEF Checked, AtPc, LocksType, Commands
            <3>3. d \in want[r] /\ d \in Seen(r)
                  BY <1>1, <2>1, <3>2 DEF Seen
            <3>4. d \notin cmd[r].view.busy
                  BY <1>1, <2>1, <3>1, <3>2, <3>3 DEF SeenIsBeside, Acquiring
            <3>5. d \in Busy BY <2>1 DEF Busy, Services
            <3> QED BY <3>2, <3>3, <3>4, <3>5
      <2>6. CASE CutNext(r) \/ Fill(r)
            <3>1. cmd[r].pc \in {"cut", "fill"} /\ cmd'[r].pc \in {"cut", "fill"}
                  /\ cmd'[r].holders = cmd[r].holders
                  BY <2>6 DEF CutNext, Fill, AtPc, Goto, LocksType, Commands
            <3>2. d \in Seen(r) BY <1>1, <2>1, <3>1 DEF Seen
            <3>3. FALSE BY <1>1, <2>1, <3>1, <3>2 DEF SeenIsBeside, Acquiring
            <3> QED BY <3>3
      <2>7. CASE ServiceDies(r)
            <3>1. cmd' = cmd /\ want' = want BY <2>7 DEF ServiceDies, meta
            <3> QED BY <1>1, <2>1, <3>1 DEF SeenIsBeside, Seen, Acquiring
      <2>8. CASE ~Check(r) /\ ~Probe(r) /\ ~Checked(r) /\ ~CutNext(r) /\ ~Fill(r) /\ ~ServiceDies(r)
            <3>1. cmd'[r].pc \notin {"check", "cut", "fill"}
                  <4> USE DEF LocksType, Commands, Goto, AtPc, End, NoCommand, meta
                  <4>1. CASE StartRun(r) \/ Recheck(r) \/ Resume(r) \/ Stop(r)
                        BY <4>1 DEF StartRun, Recheck, Resume, Stop, Begin
                  <4>2. CASE Acquired(r) \/ LaunchRun(r) \/ Health(r)
                        BY <4>2 DEF Acquired, LaunchRun, Health
                  <4>3. CASE Decided(r) BY <4>3 DEF Decided
                  <4>4. CASE Done(r) \/ BenchFails(r) BY <4>4 DEF Done, BenchFails, Idle
                  <4>5. CASE StopContainer(r) \/ ReleaseAll(r) \/ Cancel(r) \/ Crash(r)
                        BY <4>5 DEF StopContainer, ReleaseAll, Cancel, Crash
                  <4> QED BY <2>8, <4>1, <4>2, <4>3, <4>4, <4>5 DEF Step
            <3> QED BY <1>1, <3>1 DEF Acquiring
      <2> QED BY <2>3, <2>4, <2>5, <2>6, <2>7, <2>8
<1>2. CASE s # r
      <2>1. cmd'[s] = cmd[s] /\ want'[s] = want[s] /\ Acquiring(s) /\ ~cmd[s].holders
            /\ d \in Seen(s)
            BY <1>2, StepIsOwn DEF Acquiring, Seen
      <2>2. CASE known[a] /\ w \in service[a] BY <2>1, <2>2 DEF SeenIsBeside
      <2>3. CASE ~(known[a] /\ w \in service[a])
            <3>1. a = r /\ (LaunchRun(r) \/ Decided(r) \/ Health(r))
                  BY <2>3, KnownSteps, ServiceSteps
            <3>2. w = want[a] /\ own[a] = want[a]
                  BY <3>1, ServiceSteps, LaunchFrame DEF ServiceIsOwned
            <3>3. Unfinished(a)
                  BY <3>1, LaunchFrame DEF Decided, Health, AtPc, Fits, Unfinished, Terminal
            <3> QED BY <1>0, <1>2, <2>1, <3>1, <3>2, <3>3 DEF FilesFit, SeenIsFree
      <2> QED BY <2>2, <2>3
<1> QED BY <1>1, <1>2

\* A run that holds a file and knows why goes on to, unless it writes, or gives
\* the file up.
LEMMA HolderStays ==
    ASSUME LocksInv, NEW r \in Runs, Step(r), causes' = {},
           NEW t \in Runs, NEW d \in Devices, Holds(t, d), Knows(t), file'[d] = file[d],
           ~Fill(r)
    PROVE  Holds(t, d)' /\ Knows(t)'
<1> USE DEF LocksInv
<1>1. CASE t # r
      <2>1. cmd'[t] = cmd[t] /\ (known[t] => known'[t]) BY <1>1, StepIsOwn, KnownSteps
      <2> QED BY <2>1 DEF Holds, Knows, Cut
<1>2. CASE t = r
      <2> USE DEF LocksType, Commands, Goto, AtPc, End, NoCommand, meta
      <2>1. CASE cmd[r].pc \in {"cut", "fill", "decided"}
            <3>1. ~Cancel(r) /\ ~Crash(r) BY <2>1 DEF Cancel, Crash, Torn
            <3>2. CASE CutNext(r)
                  <4>1. cmd[r].pc = "cut" /\ cmd'[r].pc = "fill" /\ cmd'[r].view = cmd[r].view
                        BY <3>2 DEF CutNext
                  <4> QED BY <1>2, <4>1, KnownSteps DEF Holds, Knows
            <3>3. CASE Acquired(r)
                  <4>1. cmd[r].pc = "cut" /\ cmd'[r].pc = "decided" /\ cmd'[r].view = cmd[r].view
                        BY <3>3 DEF Acquired
                  <4> QED BY <1>2, <4>1, KnownSteps DEF Holds, Knows
            <3>4. CASE Decided(r)
                  <4>1. cmd[r].pc = "decided" BY <3>4 DEF Decided
                  <4>2. cmd[r].view.decision # "need_start" => known'[r] BY <3>4 DEF Decided
                  <4> QED BY <1>2, <4>1, <4>2, KnownSteps DEF Holds, Knows
            <3>5. CASE ServiceDies(r)
                  <4>1. cmd' = cmd BY <3>5 DEF ServiceDies
                  <4> QED BY <1>2, <4>1, KnownSteps DEF Holds, Knows, Cut
            <3>6. CASE ~CutNext(r) /\ ~Acquired(r) /\ ~Decided(r) /\ ~ServiceDies(r)
                  BY <2>1, <3>1, <3>6 DEF Step, StartRun, Recheck, Resume, Probe, Check, Checked,
                     LaunchRun, Health, Done, BenchFails, Stop, StopContainer, ReleaseAll,
                     Begin, Idle
            <3> QED BY <3>2, <3>3, <3>4, <3>5, <3>6
      <2>2. CASE cmd[r].pc \notin {"cut", "fill", "decided"}
            BY <1>2, <2>2, KnownSteps DEF Holds, Knows
      <2> QED BY <2>1, <2>2
<1> QED BY <1>1, <1>2

\* An acquisition writes the files of known services only in its own container,
\* and only when it found such a service.
LEMMA WriterKnows ==
    ASSUME LocksInv, ServicesFit, NEW r \in Runs, cmd[r].pc \in {"cut", "fill"},
           NEW a \in Runs, known[a], NEW w \in service[a], NEW d \in w, d \in want[r]
    PROVE  Container[r] = Container[a] /\ cmd[r].view.decision # "need_start"
<1> USE DEF LocksInv, ServicesFit
<1>1. Acquiring(r) /\ ~cmd[r].holders /\ d \in Seen(r)
      BY DEF Acquiring, Seen, Fits
<1>2. Container[r] = Container[a] BY <1>1 DEF SeenIsBeside
<1>3. d \in Busy BY DEF Busy, Services
<1>4. ~Launching(r) BY <1>3 DEF IdleUntilLaunch
<1> QED BY <1>2, <1>4 DEF Launching

LEMMA HeldStep ==
    ASSUME LocksInv, LocksInv', ServicesFit, NEW r \in Runs, Step(r), causes' = {}, causes = {}
    PROVE  KnownIsHeld'
<1> USE DEF LocksInv, ServicesFit
<1>0. FilesFit /\ FilesFit' BY DEF Clean
<1> SUFFICES ASSUME NEW a \in Runs, known'[a], NEW w \in service'[a], NEW d \in w
             PROVE  \E t \in Runs : Holds(t, d)' /\ Container[t] = Container[a] /\ Knows(t)'
    BY DEF KnownIsHeld
<1>1. d \in Devices BY DeviceLocksAssumption DEF LocksType
<1>2. CASE ~(known[a] /\ w \in service[a])
      <2>1. a = r /\ (LaunchRun(r) \/ Decided(r) \/ Health(r))
            BY <1>2, KnownSteps, ServiceSteps
      <2>2. w = want[a] /\ own[a] = want[a] /\ own' = own
            BY <2>1, ServiceSteps, LaunchFrame DEF ServiceIsOwned, Decided, Health, meta
      <2>3. Unfinished(a)'
            BY <2>1, LaunchFrame DEF Decided, Health, Unfinished, Terminal, Become, LocksType
      <2>4. Holds(a, d)' BY <1>0, <2>2, <2>3 DEF FilesFit, OwnedIsHeld
      <2> QED BY <2>4 DEF Knows
<1>3. CASE known[a] /\ w \in service[a]
      <2>0. PICK t \in Runs : Holds(t, d) /\ Container[t] = Container[a] /\ Knows(t)
            BY <1>3 DEF KnownIsHeld
      <2>1. CASE CutNext(r) /\ d = Least(cmd[r].todo)
            <3>1. cmd[r].pc = "cut" /\ cmd[r].todo # {} BY <2>1 DEF CutNext, AtPc
            <3>2. d \in want[r] BY <1>0, <2>1, <3>1, WritesOwn
            <3>3. Container[r] = Container[a] /\ cmd[r].view.decision # "need_start"
                  BY <1>3, <3>1, <3>2, WriterKnows
            <3>4. /\ file'[d] = Cut /\ cmd'[r].pc = "fill" /\ cmd'[r].todo = cmd[r].todo
                  /\ cmd'[r].view = cmd[r].view
                  BY <1>1, <2>1 DEF CutNext, LocksType, Commands, Goto
            <3> QED BY <2>1, <3>3, <3>4 DEF Holds, Knows, Cut
      <2>2. CASE Fill(r) /\ d = Least(cmd[r].todo)
            <3>1. cmd[r].pc = "fill" /\ cmd[r].todo # {} BY <2>2 DEF Fill, AtPc, Fits
            <3>2. d \in want[r] BY <1>0, <2>2, <3>1, WritesOwn
            <3>3. Container[r] = Container[a] /\ cmd[r].view.decision # "need_start"
                  BY <1>3, <3>1, <3>2, WriterKnows
            <3>4. /\ file'[d].run = r /\ cmd'[r].pc = "cut" /\ cmd'[r].view = cmd[r].view
                  BY <1>1, <2>2 DEF Fill, LocksType, Commands
            <3> QED BY <3>3, <3>4 DEF Holds, Knows
      <2>3. CASE Fill(r) /\ d # Least(cmd[r].todo)
            <3>1. /\ file'[d] = file[d] /\ cmd[r].pc = "fill" /\ cmd'[r].pc = "cut"
                  /\ cmd'[r].view = cmd[r].view
                  BY <1>1, <2>3 DEF Fill, LocksType, Commands, AtPc
            <3>2. CASE t = r
                  BY <2>0, <2>3, <3>1, <3>2, KnownSteps DEF Holds, Knows
            <3>3. CASE t # r
                  <4>1. cmd'[t] = cmd[t] /\ (known[t] => known'[t])
                        BY <3>3, StepIsOwn, KnownSteps
                  <4> QED BY <2>0, <3>1, <4>1 DEF Holds, Knows, Cut
            <3> QED BY <3>2, <3>3
      <2>4. CASE ~Fill(r) /\ file'[d] = file[d] BY <2>0, <1>1, <2>4, HolderStays
      <2>5. CASE file'[d] # file[d] /\ ReleaseAll(r)
            <3>1. d \in want[r] /\ cmd[r].pc = "release" BY <1>1, <2>5 DEF ReleaseAll, AtPc
            <3>2. file[d] # Cut /\ Owner(d) \in {NoRun, r} BY <2>5, <3>1 DEF ReleaseAll
            <3>3. file[d].run = t BY <2>0, <3>2 DEF Holds
            <3>4. Owner(d) = t BY <3>2, <3>3, DeviceLocksAssumption DEF Owner, Unlocked
            <3>5. t = r BY <3>2, <3>4, DeviceLocksAssumption
            <3> QED BY <1>3, <2>0, <3>1, <3>3, <3>5 DEF ReleaseIsLate
      <2>6. CASE file'[d] # file[d] /\ Cancel(r)
            <3>1. Owner(d) = r /\ ~known[r] BY <1>1, <2>6 DEF Cancel, Released, CancelReleases
            <3>2. file[d].run = r /\ file[d] # Cut
                  BY <3>1, DeviceLocksAssumption DEF Owner
            <3>3. t = r BY <2>0, <3>2 DEF Holds
            <3>4. cmd[r].pc \in {"cut", "fill", "decided"} BY <2>0, <3>1, <3>3 DEF Knows
            <3> QED BY <2>6, <3>4 DEF Cancel, Torn
      <2>7. CASE file'[d] # file[d] /\ CutNext(r) /\ d # Least(cmd[r].todo)
            BY <1>1, <2>7 DEF CutNext, LocksType
      <2>8. CASE file'[d] # file[d] /\ ~CutNext(r) /\ ~Fill(r) /\ ~ReleaseAll(r) /\ ~Cancel(r)
            BY <2>8 DEF Step, StartRun, Recheck, Resume, Probe, Check, Checked, Acquired, Decided,
               LaunchRun, Health, Done, BenchFails, Stop, StopContainer, Crash, ServiceDies
      <2> QED BY <2>1, <2>2, <2>3, <2>4, <2>5, <2>6, <2>7, <2>8
<1> QED BY <1>2, <1>3

LEMMA LateStep ==
    ASSUME LocksInv, LocksInv', ServicesFit, NEW r \in Runs, Step(r), causes' = {}, causes = {}
    PROVE  ReleaseIsLate'
<1> USE DEF LocksInv, ServicesFit
<1>0. FilesFit' BY DEF Clean
<1> SUFFICES ASSUME NEW a \in Runs, NEW s \in Runs, cmd'[s].pc = "release",
                    Container[a] = Container[s], NEW w \in service'[a], NEW d \in w
             PROVE  file'[d].run # s
    BY DEF ReleaseIsLate
<1>1. d \in Devices BY DeviceLocksAssumption DEF LocksType
<1>2. CASE s = r
      <2> USE DEF LocksType, Commands, Goto, AtPc, End, NoCommand, meta
      <2>1. CASE StopContainer(r)
            <3>1. service' = [q \in Runs |-> IF Container[q] = Container[r] THEN {}
                                             ELSE service[q]]
                  BY <1>2, <2>1 DEF StopContainer
            <3> QED BY <1>2, <3>1
      <2>2. CASE ServiceDies(r)
            <3>1. cmd' = cmd /\ file' = file /\ w \in service[a]
                  BY <2>2, ServiceSteps, LaunchFrame, <1>2 DEF ServiceDies
            <3> QED BY <3>1 DEF ReleaseIsLate
      <2>3. CASE ~StopContainer(r) /\ ~ServiceDies(r)
            <3> SUFFICES cmd'[r].pc # "release" BY <1>2
            <3>1. CASE StartRun(r) \/ Recheck(r) \/ Resume(r) \/ Stop(r)
                  BY <3>1 DEF StartRun, Recheck, Resume, Stop, Begin
            <3>2. CASE Check(r) \/ CutNext(r) \/ Fill(r) \/ Acquired(r) \/ LaunchRun(r) \/ Health(r)
                  BY <3>2 DEF Check, CutNext, Fill, Acquired, LaunchRun, Health
            <3>3. CASE Decided(r) BY <3>3 DEF Decided
            <3>4. CASE Done(r) \/ BenchFails(r) BY <3>4 DEF Done, BenchFails, Idle
            <3>5. CASE ReleaseAll(r) \/ Cancel(r) \/ Crash(r) BY <3>5 DEF ReleaseAll, Cancel, Crash
            <3>6. CASE Probe(r) BY <3>6 DEF Probe
            <3>7. CASE Checked(r)
                  <4>1. CASE cmd[r].holders BY <3>7, <4>1 DEF Checked
                  <4>2. CASE ~cmd[r].holders BY <3>7, <4>2 DEF Checked
                  <4> QED BY <4>1, <4>2
            <3> QED BY <2>3, <3>1, <3>2, <3>3, <3>4, <3>5, <3>6, <3>7 DEF Step
      <2> QED BY <2>1, <2>2, <2>3
<1>3. CASE s # r
      <2>1. cmd'[s] = cmd[s] BY <1>3, StepIsOwn
      <2>2. CASE w \in service[a]
            <3>1. file[d].run # s BY <2>1, <2>2 DEF ReleaseIsLate
            <3> QED BY <1>1, <1>3, <3>1, FileSteps, DeviceLocksAssumption
      <2>3. CASE w \notin service[a]
            <3>1. a = r /\ LaunchRun(r) /\ w = want[r] BY <2>3, ServiceSteps
            <3>2. own'[r] = want[r] /\ Unfinished(r)' /\ cmd'[r].pc # "fill"
                  BY <3>1, LaunchFrame
            <3>3. Holds(r, d)' BY <1>0, <3>1, <3>2 DEF FilesFit, OwnedIsHeld
            <3> QED BY <1>3, <3>2, <3>3 DEF Holds
      <2> QED BY <2>2, <2>3
<1> QED BY <1>2, <1>3

LEMMA ServicesInvInit == LocksInit => ServicesInv
<1> SUFFICES ASSUME LocksInit PROVE ServicesFit BY DEF ServicesInv
<1>1. /\ \A r \in Runs : cmd[r].pc = "idle" /\ service[r] = {}
      /\ \A d \in Devices : file[d].run = NoRun
      BY DEF LocksInit, NoCommand, Unlocked
<1> QED BY <1>1, DeviceLocksAssumption DEF ServicesFit, ServiceIsOwned, ServicesApart, IdleUntilLaunch,
           Launching, FileNamesDevice, MatchedIsBeside, SeenIsBeside, KnownIsHeld, ReleaseIsLate,
           Acquiring

LEMMA ServicesInvStep ==
    LocksInv /\ LocksInv' /\ ServicesInv /\ [LocksNext]_locksVars => ServicesInv'
<1> SUFFICES ASSUME LocksInv, LocksInv', ServicesInv, [LocksNext]_locksVars, causes' = {}
             PROVE  ServicesFit'
    BY DEF ServicesInv
<1>1. CASE UNCHANGED locksVars
      <2>1. /\ UNCHANGED <<state, want, own, known, file, cmd, service>>
            /\ ServicesFit
            BY <1>1 DEF locksVars, meta, ServicesInv
      <2>2. Busy' = Busy /\ \A r \in Runs : Seen(r)' = Seen(r)
            BY <2>1 DEF Busy, Services, Seen
      <2>3. \A r \in Runs : /\ Acquiring(r)' = Acquiring(r) /\ Knows(r)' = Knows(r)
                             /\ Launching(r)' = Launching(r)
            BY <2>1 DEF Acquiring, Knows, Launching
      <2>4. \A r \in Runs, d \in Devices : Holds(r, d)' = Holds(r, d)
            BY <2>1 DEF Holds
      <2>5. \A r \in Runs : \A w \in service[r] : w \subseteq Devices
            BY DeviceLocksAssumption DEF LocksInv, LocksType
      <2>6. ServiceIsOwned' /\ ServicesApart' /\ FileNamesDevice' /\ ReleaseIsLate'
            BY <2>1 DEF ServicesFit, ServiceIsOwned, ServicesApart, FileNamesDevice, ReleaseIsLate
      <2>7. IdleUntilLaunch' BY <2>1, <2>2, <2>3 DEF ServicesFit, IdleUntilLaunch
      <2>8. MatchedIsBeside' BY <2>1, <2>3 DEF ServicesFit, MatchedIsBeside
      <2>9. SeenIsBeside' BY <2>1, <2>2, <2>3 DEF ServicesFit, SeenIsBeside
      <2>10. KnownIsHeld' BY <2>1, <2>3, <2>4, <2>5 DEF ServicesFit, KnownIsHeld
      <2> QED BY <2>6, <2>7, <2>8, <2>9, <2>10 DEF ServicesFit
<1>2. CASE LocksNext
      <2>1. PICK r \in Runs : Step(r) BY <1>2 DEF LocksNext
      <2>2. causes = {} BY <2>1, CausesGrow
      <2>3. ServicesFit BY <2>2 DEF ServicesInv
      <2> QED BY <2>1, <2>2, <2>3, OwnedStep, ApartStep, IdleStep, NamesStep, MatchedStep, SeenStep,
                 HeldStep, LateStep DEF ServicesFit
<1> QED BY <1>1, <1>2

LEMMA ServicesInvLocked == LocksInv /\ ServicesInv => ServiceIsLocked
<1> SUFFICES ASSUME LocksInv, ServicesInv, causes = {}, NEW r \in Runs, known[r],
                    NEW w \in service[r], NEW d \in w
             PROVE  file[d] # Unlocked
    BY DEF ServiceIsLocked
<1>1. PICK t \in Runs : Holds(t, d) BY DEF ServicesInv, ServicesFit, KnownIsHeld
<1> QED BY <1>1, DeviceLocksAssumption DEF Holds, Unlocked, Cut

\* A service that its run has seen healthy keeps its devices locked until it is
\* stopped (ServiceIsLocked, about the header of tools/lock.py), for every number
\* of runs, devices and containers.
THEOREM ServiceStaysLocked ==
    LocksInit /\ [][LocksNext]_locksVars => []ServiceIsLocked
<1>1. LocksInit /\ [][LocksNext]_locksVars => []LocksInv
      BY LocksInvInit, LocksInvStep, PTL
<1>2. LocksInit /\ [][LocksNext]_locksVars => []ServicesInv
      BY <1>1, ServicesInvInit, ServicesInvStep, PTL
<1> QED BY <1>1, <1>2, ServicesInvLocked, PTL

-----------------------------------------------------------------------------
(* The clients of a round.                                                   *)

AtWork == {"exec", "wait", "clean ok", "clean err", "clean cut"}

RoundType ==
    /\ attempt \in 0 .. MaxAttempts /\ (main # "idle" => attempt \in Attempts)
    /\ shell \in [Attempts -> {"off", "asked", "started", "waits"}]
    /\ client \in [Attempts -> [alive : BOOLEAN, left : 0 .. Requests, failed : BOOLEAN]]
    /\ pidfile \in [Attempts -> BOOLEAN]
    /\ verdict \in {"none", "ok", "err", "blocked", "cancelled"}

\* The tool of a round works for the runner that waits for it, ...
ToolIsWaitedFor ==
    /\ tool \in AtWork => main \in {"wait", "term"}
    /\ main \in {"baseline", "call"} => tool = "off"

\* ... and what it leaves in the container it has cleaned up.
AliveIsCurrent ==
    mishaps \cap {"unseen", "uncleaned"} = {} =>
        \A a \in Attempts : ClientAlive(a) => a = attempt /\ tool \in AtWork \ {"exec"}

\* A pid file is written by a shell that has started its client.
PidfileOfClient == \A a \in Attempts : pidfile[a] => shell[a] = "waits"

\* Nothing is in the container of an attempt before its tool asks for it.
NotAsked == \A a \in Attempts :
    a > attempt \/ (a = attempt /\ tool \in {"off", "exec"}) =>
        shell[a] = "off" /\ ~pidfile[a] /\ ~client[a].alive

ClientsInv == /\ RoundType /\ ToolIsWaitedFor /\ AliveIsCurrent /\ PidfileOfClient
              /\ NotAsked

\* What an answer says of the round stays true until the next attempt.
AnswerIsTrue ==
    /\ tool \in {"clean ok", "ok"} =>
          attempt \in Attempts /\ shell[attempt] = "waits" /\ ~client[attempt].alive
          /\ ResultIsWhole(attempt)
    /\ verdict = "ok" => tool = "ok" /\ main \in {"close", "finish", "collect"} \cup Over
    /\ main \in {"collect", "complete", "partial"} => verdict = "ok" /\ scraper = "gone"

\* The monitor is at rest when the runner has closed it, unless it was slow.
MonitorIsClosed ==
    /\ main \in {"finish", "collect"} \cup Over => monitor # "on"
    /\ main \in {"finish", "collect"} \cup Over /\ monitor = "read" => "slow" \in mishaps
    /\ main \in {"collect"} \cup Over /\ task = "running" =>
          verdict \in {"blocked", "cancelled"} \/ "slow" \in mishaps
    /\ main = "blocked" => verdict # "cancelled"

RoundInv == RoundType /\ ToolIsWaitedFor /\ AnswerIsTrue /\ MonitorIsClosed

\* Nothing has happened but that the monitor was slow, which touches no sample.
Unspoilt == mishaps \subseteq {"slow"}

\* What the server had served before the round asked for anything.
Begun == served - (Requests - client[attempt].left)

\* A round that needs a baseline has one when its tool is called.
Started == main \in {"call", "wait", "term"} \/ verdict = "ok"

\* The samples belong to the scraper, and it is stopped when the tool is done.
SamplesType ==
    /\ served \in Nat /\ samples \in Seq(Nat \cup {Missing})
    /\ scraper \in {"off", "born"} => samples = <<>>
    /\ scraper = "loop" => samples # <<>>
    /\ scraper = "off" => main = "idle"
    /\ stopping => main \notin {"baseline", "call", "wait", "term", "close"}

\* No sample of an unspoilt round is from before it or from after it; with a
\* baseline, the first one is from before its first request, and the last one from
\* after its last, unless they failed.
SamplesOfRound ==
    Unspoilt /\ main # "idle" =>
        /\ \A i \in DOMAIN samples : samples[i] # Missing => samples[i] \in Begun .. served
        /\ scraper = "gone" => stopping
        /\ NeedsBaseline =>
              /\ scraper = "born" => client[attempt].left = Requests
              /\ Started => samples # <<>>
              /\ samples # <<>> => samples[1] \in {Missing, Begun}
              /\ scraper = "gone" /\ verdict = "ok" => Last(samples) \in {Missing, served}

CompleteStays == main = "complete" => Complete

SamplesInv == SamplesType /\ SamplesOfRound /\ CompleteStays

\* What a list of the samples that did not fail holds.
ValidOf(v, n) ==
    /\ v \in Seq(Nat)
    /\ \A i \in 1 .. Len(v) : \E j \in 1 .. n : v[i] = samples[j]
    /\ (\A j \in 1 .. n : samples[j] # Missing) => Len(v) = n /\ \A i \in 1 .. n : v[i] = samples[i]

-----------------------------------------------------------------------------
(* The commands that find their run by the pointer.                          *)

PointerPcs == {"quiet", "create", "reset", "freeze", "lock", "load", "save"}
Homes == RunIds \cup {NoHome}
PointerCommands == [pc : PointerPcs, named : Homes, home : Homes, work : Homes]

PointerType ==
    /\ created \in RunIds /\ pointer = created
    /\ command \in [Shells -> PointerCommands]
    /\ execution \in [RunIds -> SUBSET Shells]

\* A command knows its run as soon as it has one, and goes on in that run, or in
\* one that was created later if it has no --run-id.
Homed(s) ==
    LET c == command[s] IN
    /\ c.pc = "quiet" => c = Quiet
    /\ c.pc = "create" => c.home = NoHome
    /\ c.pc \in {"create", "reset", "freeze", "lock"} => c.named = NoHome
    /\ c.pc \in {"reset", "freeze", "lock", "load", "save"} => c.home \in 0 .. pointer
    /\ c.named # NoHome => c.home = c.named
    /\ c.pc = "save" => c.work \in c.home .. pointer /\ (c.named # NoHome => c.work = c.home)

\* A command that does not hold the lock of its own run has another to go on in.
LockedAtHome(s) ==
    LET c == command[s] IN
    c.pc \in {"load", "save"} =>
        \/ execution[c.home] = {s}
        \/ c.named = NoHome /\ pointer > c.home /\ (c.pc = "save" => c.work > c.home)

PointerInv == /\ PointerType /\ StraysToNewer
              /\ \A s \in Shells : Homed(s) /\ LockedAtHome(s)

-----------------------------------------------------------------------------
(* Proofs about the clients of a round.                                      *)

LEMMA RoundInvInit == RoundInit => ClientsInv /\ RoundInv
<1> SUFFICES ASSUME RoundInit PROVE ClientsInv /\ RoundInv OBVIOUS
<1>1. NoClient \in [alive : BOOLEAN, left : 0 .. Requests, failed : BOOLEAN]
      /\ NoClient.alive = FALSE
      BY RoundMeasureAssumption DEF NoClient
<1> USE DEF RoundInit
<1>2. RoundType BY <1>1, RoundMeasureAssumption DEF RoundType
<1>3. ToolIsWaitedFor /\ PidfileOfClient BY DEF ToolIsWaitedFor, AtWork, PidfileOfClient
<1>4. AliveIsCurrent /\ NotAsked BY <1>1 DEF AliveIsCurrent, ClientAlive, NotAsked
<1>5. AnswerIsTrue /\ MonitorIsClosed BY DEF AnswerIsTrue, MonitorIsClosed, Over
<1> QED BY <1>2, <1>3, <1>4, <1>5 DEF ClientsInv, RoundInv

LEMMA RoundTypeStep ==
    ASSUME RoundType, RoundNext PROVE RoundType'
<1> USE DEF RoundType, runner, container, GotoMain
<1>0. NoClient \in [alive : BOOLEAN, left : 0 .. Requests, failed : BOOLEAN]
      BY RoundMeasureAssumption DEF NoClient
<1>1. CASE InContainer
      <2>1. PICK a \in Attempts : ShellStarts(a) \/ ShellWrites(a) \/ Request(a) \/ ClientEnds(a)
            BY <1>1 DEF InContainer
      <2>2. CASE ShellStarts(a) BY <2>2 DEF ShellStarts
      <2>3. CASE ShellWrites(a) BY <2>3 DEF ShellWrites
      <2>4. CASE Request(a) BY <2>4, RoundMeasureAssumption DEF Request
      <2>5. CASE ClientEnds(a)
            <3>1. (client[a].failed \/ client[a].left > 0) \in BOOLEAN
                  OBVIOUS
            <3> QED BY <2>5, <3>1 DEF ClientEnds
      <2> QED BY <2>1, <2>2, <2>3, <2>4, <2>5
<1>2. CASE ServerRestarts BY <1>2 DEF ServerRestarts
<1>3. CASE Scrapes \/ ScraperDies \/ Monitors \/ CancelRound
      BY <1>3 DEF Scrapes, ScrapeFirst, ScrapeNext, ScrapeLast, ScraperDies, Monitors,
         MonitorReads, MonitorWrites, CancelRound
<1>4. CASE Tools
      <2>1. CASE ToolStarts BY <2>1 DEF ToolStarts, ToolKeeps
      <2>2. CASE ToolReads \/ ToolGivesUp BY <2>2 DEF ToolReads, ToolGivesUp, ToolKeeps
      <2>3. CASE ToolCleansUp
            <3>1. /\ client' = client \/ client' = [client EXCEPT ![attempt].alive = FALSE]
                  /\ UNCHANGED <<attempt, main, shell, pidfile, verdict>>
                  BY <2>3 DEF ToolCleansUp, ToolKeeps
            <3> QED BY <3>1, ZenonT(60)
      <2> QED BY <1>4, <2>1, <2>2, <2>3 DEF Tools
<1>5. CASE Open
      <2>1. attempt' \in 0 .. MaxAttempts /\ attempt' \in Attempts
            BY <1>5, RoundMeasureAssumption DEF Open, Attempts
      <2>2. client' \in [Attempts -> [alive : BOOLEAN, left : 0 .. Requests, failed : BOOLEAN]]
            BY <1>0, <1>5 DEF Open
      <2>3. pidfile' \in [Attempts -> BOOLEAN] BY <1>5 DEF Open
      <2>4. shell' \in [Attempts -> {"off", "asked", "started", "waits"}] /\ verdict' = "none"
            BY <1>5 DEF Open
      <2> QED BY <2>1, <2>2, <2>3, <2>4
<1>6. CASE RunsTool
      <2>1. main # "idle" /\ UNCHANGED <<attempt, shell, client, pidfile>>
            BY <1>6 DEF RunsTool, Baseline, Call, Answer, GiveUp, Reap, Close, FinishRound, Settle,
               Saved, Collect
      <2>2. verdict' \in {"none", "ok", "err", "blocked", "cancelled"}
            BY <1>6 DEF RunsTool, Baseline, Call, Answer, GiveUp, Reap, Close, FinishRound, Settle,
               Saved, Collect
      <2> QED BY <2>1, <2>2
<1> QED BY <1>1, <1>2, <1>3, <1>4, <1>5, <1>6 DEF RoundNext
LEMMA WaitedStep ==
    ASSUME RoundType, ToolIsWaitedFor, RoundNext PROVE ToolIsWaitedFor'
<1> USE DEF ToolIsWaitedFor, AtWork, runner, GotoMain, Tool
<1>1. CASE InContainer \/ ServerRestarts
      BY <1>1 DEF InContainer, ShellStarts, ShellWrites, Request, ClientEnds, ServerRestarts
<1>2. CASE Scrapes \/ ScraperDies \/ Monitors \/ CancelRound
      BY <1>2 DEF Scrapes, ScrapeFirst, ScrapeNext, ScrapeLast, ScraperDies, Monitors,
         MonitorReads, MonitorWrites, CancelRound
<1>3. CASE Tools
      <2>1. tool \in AtWork /\ main' = main
            BY <1>3 DEF Tools, ToolStarts, ToolReads, ToolGivesUp, ToolCleansUp, ToolKeeps,
               ToolCleans
      <2> QED BY <2>1
<1>4. CASE Open BY <1>4 DEF Open
<1>5. CASE RunsTool
      <2>1. CASE Call \/ Answer \/ Reap BY <2>1 DEF Call, Answer, Reap
      <2>2. CASE GiveUp BY <2>2 DEF GiveUp
      <2>3. CASE Baseline \/ Close \/ FinishRound \/ Settle \/ Collect
            <3>1. /\ tool' = tool /\ main \notin {"wait", "term"}
                  /\ main' \in {"baseline", "call"} => main = "baseline"
                  BY <2>3 DEF Baseline, Close, FinishRound, Settle, Saved, Collect, RoundType
            <3> QED BY <3>1
      <2> QED BY <1>5, <2>1, <2>2, <2>3 DEF RunsTool
<1> QED BY <1>1, <1>2, <1>3, <1>4, <1>5 DEF RoundNext

LEMMA NotAskedStep ==
    ASSUME RoundType, ToolIsWaitedFor, NotAsked, RoundNext PROVE NotAsked'
<1> USE DEF NotAsked, RoundType, container, runner
<1>1. CASE InContainer
      <2>1. PICK a \in Attempts : ShellStarts(a) \/ ShellWrites(a) \/ Request(a) \/ ClientEnds(a)
            BY <1>1 DEF InContainer
      <2>2. CASE ShellStarts(a) BY <2>2 DEF ShellStarts
      <2>3. CASE ShellWrites(a) BY <2>3 DEF ShellWrites
      <2>4. CASE Request(a) BY <2>4 DEF Request
      <2>5. CASE ClientEnds(a) BY <2>5 DEF ClientEnds
      <2> QED BY <2>1, <2>2, <2>3, <2>4, <2>5
<1>2. CASE ServerRestarts BY <1>2 DEF ServerRestarts
<1>3. CASE Scrapes \/ ScraperDies \/ Monitors \/ CancelRound
      BY <1>3 DEF Scrapes, ScrapeFirst, ScrapeNext, ScrapeLast, ScraperDies,
         Monitors, MonitorReads, MonitorWrites, CancelRound
<1>4. CASE Tools
      <2>1. CASE ToolStarts BY <2>1 DEF ToolStarts, ToolKeeps, Tool
      <2>2. CASE ToolReads \/ ToolGivesUp
            BY <2>2 DEF ToolReads, ToolGivesUp, ToolKeeps, Tool, Abandon
      <2>3. CASE ToolCleansUp
            <3>1. /\ client' = client \/ client' = [client EXCEPT ![attempt].alive = FALSE]
                  /\ UNCHANGED <<attempt, shell, pidfile>> /\ tool' \notin {"off", "exec"}
                  BY <2>3 DEF ToolCleansUp, ToolKeeps, Tool, AfterCleaning
            <3> QED BY <3>1
      <2> QED BY <1>4, <2>1, <2>2, <2>3 DEF Tools
<1>5. CASE Open
      <2> SUFFICES ASSUME NEW a \in Attempts, a >= attempt + 1
                   PROVE  shell'[a] = "off" /\ ~pidfile'[a] /\ ~client'[a].alive
          BY <1>5 DEF Open, Attempts
      <2>1. ~ClientAlive(a) BY DEF ClientAlive, Attempts
      <2> QED BY <1>5, <2>1 DEF Open, NoClient
<1>6. CASE RunsTool
      <2>1. UNCHANGED <<attempt, shell, client, pidfile>>
            BY <1>6 DEF RunsTool, Baseline, Call, Answer, GiveUp, Reap, Close, FinishRound, Settle,
               Collect
      <2>2. CASE tool' = tool BY <2>1, <2>2
      <2>3. CASE Call BY <2>1, <2>3 DEF Call, Tool, ToolIsWaitedFor
      <2>4. CASE GiveUp \/ Reap
            <3>1. tool' \notin {"off", "exec"} \/ tool' = tool
                  BY <2>4 DEF GiveUp, Reap, Tool, Interrupted, Abandon
            <3> QED BY <2>1, <3>1
      <2> QED BY <1>6, <2>2, <2>3, <2>4 DEF RunsTool, Baseline, Answer, Close, FinishRound, Settle,
                 Collect
<1> QED BY <1>1, <1>2, <1>3, <1>4, <1>5, <1>6 DEF RoundNext

LEMMA PidfileStep ==
    ASSUME RoundType, PidfileOfClient, NotAsked, RoundNext PROVE PidfileOfClient'
<1> USE DEF PidfileOfClient, RoundType, container
<1>1. CASE InContainer BY <1>1 DEF InContainer, ShellStarts, ShellWrites, Request, ClientEnds
<1>2. CASE ServerRestarts \/ Scrapes \/ ScraperDies \/ Monitors \/ CancelRound
      BY <1>2 DEF ServerRestarts, Scrapes, ScrapeFirst, ScrapeNext, ScrapeLast, ScraperDies,
         Monitors, MonitorReads, MonitorWrites, CancelRound
<1>3. CASE Tools
      <2>1. CASE ToolStarts BY <2>1 DEF ToolStarts, NotAsked
      <2>2. CASE ToolReads \/ ToolGivesUp \/ ToolCleansUp
            <3>1. UNCHANGED <<shell, pidfile>>
                  BY <2>2 DEF ToolReads, ToolGivesUp, ToolCleansUp
            <3> QED BY <3>1
      <2> QED BY <1>3, <2>1, <2>2 DEF Tools
<1>4. CASE Open
      <2> SUFFICES ASSUME NEW a \in Attempts, pidfile'[a] PROVE shell'[a] = "waits"
          OBVIOUS
      <2>1. ClientAlive(a) /\ pidfile[a] BY <1>4 DEF Open
      <2> QED BY <1>4, <2>1 DEF Open
<1>5. CASE RunsTool
      <2>1. UNCHANGED <<shell, pidfile>>
            BY <1>5 DEF RunsTool, Baseline, Call, Answer, GiveUp, Reap, Close, FinishRound, Settle,
               Collect
      <2> QED BY <2>1
<1> QED BY <1>1, <1>2, <1>3, <1>4, <1>5 DEF RoundNext

LEMMA AliveStep ==
    ASSUME ClientsInv, RoundNext PROVE AliveIsCurrent'
<1> USE DEF ClientsInv, RoundType, container, runner
<1> DEFINE Bad == mishaps \cap {"unseen", "uncleaned"} # {}
<1> SUFFICES ASSUME ~Bad', NEW a \in Attempts, ClientAlive(a)'
             PROVE  a = attempt' /\ tool' \in AtWork \ {"exec"}
    BY DEF AliveIsCurrent
<1>1. ~Bad
      BY DEF RoundNext, InContainer, ShellStarts, ShellWrites, Request, ClientEnds, ServerRestarts,
         Scrapes, ScrapeFirst, ScrapeNext, ScrapeLast, ScraperDies, Monitors, MonitorReads,
         MonitorWrites, CancelRound, Tools, ToolStarts, ToolReads, ToolGivesUp, ToolCleansUp,
         ToolKeeps, Open, RunsTool, Baseline, Call, Answer, GiveUp, Reap, Close, FinishRound,
         Settle, Collect
<1>2. ClientAlive(a) => a = attempt /\ tool \in AtWork \ {"exec"}
      BY <1>1 DEF AliveIsCurrent
<1>3. CASE InContainer
      <2>1. PICK b \in Attempts : ShellStarts(b) \/ ShellWrites(b) \/ Request(b) \/ ClientEnds(b)
            BY <1>3 DEF InContainer
      <2>2. attempt' = attempt /\ tool' = tool
            BY <2>1 DEF ShellStarts, ShellWrites, Request, ClientEnds
      <2>3. CASE ShellStarts(b) BY <1>2, <2>2, <2>3 DEF ShellStarts, ClientAlive
      <2>4. CASE ShellWrites(b) BY <1>2, <2>2, <2>4 DEF ShellWrites, ClientAlive
      <2>5. CASE Request(b) BY <1>2, <2>2, <2>5 DEF Request, ClientAlive
      <2>6. CASE ClientEnds(b) BY <1>2, <2>2, <2>6 DEF ClientEnds, ClientAlive
      <2> QED BY <2>1, <2>3, <2>4, <2>5, <2>6
<1>4. CASE ServerRestarts BY <1>2, <1>4 DEF ServerRestarts, ClientAlive
<1>5. CASE Scrapes \/ ScraperDies \/ Monitors \/ CancelRound
      BY <1>2, <1>5 DEF Scrapes, ScrapeFirst, ScrapeNext, ScrapeLast, ScraperDies,
         Monitors, MonitorReads, MonitorWrites, CancelRound, ClientAlive
<1>6. CASE Tools
      <2>1. attempt' = attempt
            BY <1>6 DEF Tools, ToolStarts, ToolReads, ToolGivesUp, ToolCleansUp, ToolKeeps
      <2>2. CASE ToolStarts BY <1>2, <2>1, <2>2 DEF ToolStarts, Tool, ClientAlive, AtWork
      <2>3. CASE ToolReads \/ ToolGivesUp
            BY <1>2, <2>1, <2>3 DEF ToolReads, ToolGivesUp, Tool, ClientAlive, AtWork, Abandon
      <2>4. CASE ToolCleansUp
            <3>1. attempt \in Attempts
                  BY <2>4 DEF ToolCleansUp, ToolCleans, ToolIsWaitedFor, AtWork
            <3>2. shell' = shell /\ (ClientAlive(attempt) => pidfile[attempt]
                                      /\ client' = [client EXCEPT ![attempt].alive = FALSE])
                  BY <2>4 DEF ToolCleansUp
            <3>3. (client' = client \/ client' = [client EXCEPT ![attempt].alive = FALSE])
                  BY <2>4 DEF ToolCleansUp
            <3>4. ClientAlive(a) BY <3>1, <3>2, <3>3 DEF ClientAlive
            <3>5. a = attempt /\ pidfile[a] BY <1>2, <3>2, <3>4
            <3> QED BY <3>2, <3>4, <3>5 DEF ClientAlive, PidfileOfClient
      <2> QED BY <1>6, <2>2, <2>3, <2>4 DEF Tools
<1>7. CASE Open
      <2>1. tool \notin AtWork BY <1>7 DEF Open, ToolIsWaitedFor
      <2>2. ~ClientAlive(a) BY <1>2, <2>1
      <2> QED BY <1>7, <2>2 DEF Open, NoClient, ClientAlive
<1>8. CASE RunsTool
      <2>1. UNCHANGED <<attempt, shell, client>>
            BY <1>8 DEF RunsTool, Baseline, Call, Answer, GiveUp, Reap, Close, FinishRound, Settle,
               Collect
      <2>2. ClientAlive(a) /\ ClientAlive(attempt) /\ a = attempt /\ tool \in AtWork \ {"exec"}
            BY <1>2, <2>1 DEF ClientAlive
      <2>3. CASE tool' = tool BY <2>1, <2>2, <2>3
      <2>4. CASE Call BY <2>2, <2>4 DEF Call, ToolIsWaitedFor
      <2>5. CASE GiveUp
            BY <2>1, <2>2, <2>5 DEF GiveUp, Tool, Interrupted, CutShort, Abandon, AtWork, ToolCleans
      <2>6. CASE Reap BY <2>1, <2>2, <2>6 DEF Reap, AtWork
      <2> QED BY <1>8, <2>3, <2>4, <2>5, <2>6 DEF RunsTool, Baseline, Answer, Close, FinishRound,
                 Settle, Collect
<1> QED BY <1>3, <1>4, <1>5, <1>6, <1>7, <1>8 DEF RoundNext

LEMMA ClientsInvStep == ClientsInv /\ [RoundNext]_roundVars => ClientsInv'
<1> SUFFICES ASSUME ClientsInv, [RoundNext]_roundVars PROVE ClientsInv' OBVIOUS
<1>1. CASE RoundNext
      BY <1>1, RoundTypeStep, WaitedStep, PidfileStep, NotAskedStep, AliveStep DEF ClientsInv
<1>2. CASE UNCHANGED roundVars
      BY <1>2 DEF roundVars, runner, container, ClientsInv, RoundType, ToolIsWaitedFor,
         AliveIsCurrent, ClientAlive, PidfileOfClient, NotAsked
<1> QED BY <1>1, <1>2

\* No client outlives its round, unless its cleanup failed or came too early
\* (ClientsAlone, about the cleanup of tools/benchmark.py), for every number of
\* attempts, requests and samples.
THEOREM ClientsStayAlone ==
    RoundInit /\ [][RoundNext]_roundVars => []ClientsAlone
<1>1. ClientsInv => ClientsAlone
      BY DEF ClientsInv, ToolIsWaitedFor, AliveIsCurrent, ClientsAlone, Over
<1> QED BY <1>1, RoundInvInit, ClientsInvStep, PTL
-----------------------------------------------------------------------------
(* Proofs about the end of a round.                                          *)

LEMMA AnswerStep ==
    ASSUME RoundInv, RoundNext PROVE AnswerIsTrue'
<1> USE DEF RoundInv, AnswerIsTrue, RoundType, container, runner, recorder, GotoMain, Tool
<1>1. CASE InContainer
      <2>1. PICK b \in Attempts : ShellStarts(b) \/ ShellWrites(b) \/ Request(b) \/ ClientEnds(b)
            BY <1>1 DEF InContainer
      <2>2. UNCHANGED <<attempt, tool, verdict, main, scraper>>
            BY <2>1 DEF ShellStarts, ShellWrites, Request, ClientEnds
      <2>3. CASE b = attempt /\ tool \in {"clean ok", "ok"}
            <3>1. FALSE
                  BY <2>1, <2>3 DEF ShellStarts, ShellWrites, Request, ClientEnds
            <3> QED BY <3>1
      <2>4. CASE b # attempt
            <3>1. attempt \in Attempts => shell'[attempt] = shell[attempt]
                                          /\ client'[attempt] = client[attempt]
                  BY <2>1, <2>4 DEF ShellStarts, ShellWrites, Request, ClientEnds
            <3> QED BY <2>2, <3>1 DEF ResultIsWhole
      <2>5. CASE tool \notin {"clean ok", "ok"} BY <2>2, <2>5
      <2> QED BY <2>3, <2>4, <2>5
<1>2. CASE ServerRestarts
      <2>1. \A a \in Attempts : /\ client'[a].alive = client[a].alive
                                /\ client'[a].left = client[a].left
                                /\ ~client[a].alive => client'[a].failed = client[a].failed
            BY <1>2 DEF ServerRestarts
      <2> QED BY <1>2, <2>1, ZenonT(60) DEF ServerRestarts, ResultIsWhole
<1>3. CASE Scrapes \/ ScraperDies \/ Monitors \/ CancelRound
      <2>1. UNCHANGED <<attempt, tool, verdict, main, shell, client>>
            /\ (scraper = "gone" => scraper' = "gone")
            BY <1>3 DEF Scrapes, ScrapeFirst, ScrapeNext, ScrapeLast, ScraperDies, Monitors,
               MonitorReads, MonitorWrites, CancelRound
      <2> QED BY <2>1 DEF ResultIsWhole
<1>4. CASE Tools
      <2>1. /\ UNCHANGED <<attempt, verdict, main, scraper>>
            /\ tool \in AtWork /\ attempt \in Attempts
            BY <1>4 DEF Tools, ToolStarts, ToolReads, ToolGivesUp, ToolCleansUp, ToolKeeps,
               ToolCleans, AtWork, ToolIsWaitedFor
      <2>2. verdict # "ok" BY <2>1 DEF AtWork
      <2>3. CASE ToolStarts \/ ToolReads \/ ToolGivesUp
            BY <2>1, <2>2, <2>3 DEF ToolStarts, ToolReads, ToolGivesUp, Abandon, ResultIsWhole
      <2>4. CASE ToolCleansUp
            <3>1. (client' = client \/ client' = [client EXCEPT ![attempt].alive = FALSE])
                  /\ shell' = shell /\ (tool' = "ok" => tool = "clean ok") /\ tool' # "clean ok"
                  BY <2>4 DEF ToolCleansUp, AfterCleaning
            <3> QED BY <2>1, <2>2, <3>1, ZenonT(60) DEF ResultIsWhole
      <2> QED BY <1>4, <2>3, <2>4 DEF Tools
<1>5. CASE Open BY <1>5 DEF Open
<1>6. CASE RunsTool
      <2>1. UNCHANGED <<attempt, shell, client>>
            BY <1>6 DEF RunsTool, Baseline, Call, Answer, GiveUp, Reap, Close, FinishRound, Settle,
               Collect
      <2>2. CASE Baseline \/ Call
            BY <2>1, <2>2 DEF Baseline, Call, ToolIsWaitedFor, Over, ResultIsWhole
      <2>3. CASE Answer BY <2>1, <2>3 DEF Answer, Over, ResultIsWhole
      <2>4. CASE GiveUp
            <3>1. tool' \notin {"ok", "clean ok"} /\ verdict # "ok"
                  BY <2>4 DEF GiveUp, Interrupted, ToolCleans, Abandon, Over
            <3> QED BY <2>1, <2>4, <3>1 DEF GiveUp
      <2>5. CASE Reap BY <2>1, <2>5 DEF Reap, Over, ResultIsWhole
      <2>6. CASE Close \/ FinishRound
            BY <2>1, <2>6 DEF Close, FinishRound, Over, ResultIsWhole
      <2>7. CASE Settle
            BY <2>1, <2>7 DEF Settle, Saved, Finished, Over, ResultIsWhole
      <2>8. CASE Collect BY <2>1, <2>8 DEF Collect, Over, ResultIsWhole
      <2> QED BY <1>6, <2>2, <2>3, <2>4, <2>5, <2>6, <2>7, <2>8 DEF RunsTool
<1> QED BY <1>1, <1>2, <1>3, <1>4, <1>5, <1>6 DEF RoundNext

LEMMA MonitorStep ==
    ASSUME RoundInv, RoundNext PROVE MonitorIsClosed'
<1> USE DEF RoundInv, MonitorIsClosed, runner, GotoMain, Over
<1>1. CASE InContainer \/ ServerRestarts \/ Scrapes \/ ScraperDies \/ CancelRound \/ Tools
      <2>1. UNCHANGED <<main, verdict, task, monitor>> /\ mishaps \subseteq mishaps'
            BY <1>1 DEF InContainer, ShellStarts, ShellWrites, Request, ClientEnds, ServerRestarts,
               Scrapes, ScrapeFirst, ScrapeNext, ScrapeLast, ScraperDies, CancelRound, Tools,
               ToolStarts, ToolReads, ToolGivesUp, ToolCleansUp, ToolKeeps
      <2> QED BY <2>1
<1>2. CASE Monitors BY <1>2 DEF Monitors, MonitorReads, MonitorWrites
<1>3. CASE Open BY <1>3 DEF Open
<1>4. CASE RunsTool
      <2>1. CASE Baseline BY <2>1 DEF Baseline
      <2>2. CASE Call \/ Answer \/ GiveUp \/ Reap \/ FinishRound
            BY <2>2 DEF Call, Answer, GiveUp, Reap, FinishRound
      <2>3. CASE Close BY <2>3 DEF Close, Stopped
      <2>4. CASE Settle BY <2>4 DEF Settle, Saved, RoundType
      <2>5. CASE Collect BY <2>5 DEF Collect, AnswerIsTrue
      <2> QED BY <1>4, <2>1, <2>2, <2>3, <2>4, <2>5 DEF RunsTool
<1> QED BY <1>1, <1>2, <1>3, <1>4 DEF RoundNext

LEMMA RoundInvStep == RoundInv /\ [RoundNext]_roundVars => RoundInv'
<1> SUFFICES ASSUME RoundInv, [RoundNext]_roundVars PROVE RoundInv' OBVIOUS
<1>1. CASE RoundNext
      BY <1>1, RoundTypeStep, WaitedStep, AnswerStep, MonitorStep DEF RoundInv
<1>2. CASE UNCHANGED roundVars
      BY <1>2 DEF roundVars, runner, container, recorder, RoundInv, RoundType, ToolIsWaitedFor,
         AnswerIsTrue, ResultIsWhole, MonitorIsClosed
<1> QED BY <1>1, <1>2

-----------------------------------------------------------------------------
(* Proofs about the samples of a round.                                      *)

LEMMA WithSampleTyped ==
    ASSUME samples \in Seq(Nat \cup {Missing}), NEW v \in Seq(Nat), NEW n \in 1 .. Len(samples)
    PROVE  WithSample(v, n) \in Seq(Nat)
BY DEF WithSample

LEMMA WithSampleKeeps ==
    ASSUME samples \in Seq(Nat \cup {Missing}), NEW n \in 1 .. Len(samples), NEW v,
           ValidOf(v, n - 1)
    PROVE  ValidOf(WithSample(v, n), n)
<1>1. v \in Seq(Nat) /\ Len(v) \in Nat /\ n \in Nat /\ n - 1 \in Nat
      BY DEF ValidOf
<1>2. \A i \in 1 .. Len(v) : \E j \in 1 .. n : v[i] = samples[j]
  <2>1. 1 .. n - 1 \subseteq 1 .. n BY <1>1
  <2> QED BY <2>1 DEF ValidOf
<1>3. CASE samples[n] = Missing
  <2>1. WithSample(v, n) = v BY <1>3 DEF WithSample
  <2>2. ~ \A j \in 1 .. n : samples[j] # Missing BY <1>1, <1>3
  <2>3. ValidOf(v, n) BY <1>1, <1>2, <2>2 DEF ValidOf
  <2> QED BY <2>1, <2>3
<1>4. CASE samples[n] # Missing
  <2>1. PICK w : w = Append(v, samples[n]) OBVIOUS
  <2>2. samples[n] \in Nat BY <1>4
  <2>3. /\ w \in Seq(Nat) /\ Len(w) = Len(v) + 1 /\ w[Len(v) + 1] = samples[n]
        /\ \A i \in 1 .. Len(v) : w[i] = v[i]
        BY <1>1, <2>1, <2>2
  <2>4. \A i \in 1 .. Len(w) : \E j \in 1 .. n : w[i] = samples[j]
    <3> SUFFICES ASSUME NEW i \in 1 .. Len(w) PROVE \E j \in 1 .. n : w[i] = samples[j]
        OBVIOUS
    <3>1. CASE i = Len(v) + 1 BY <1>1, <2>3, <3>1
    <3>2. CASE i # Len(v) + 1
      <4>1. i \in 1 .. Len(v) BY <1>1, <2>3, <3>2
      <4> QED BY <1>2, <2>3, <4>1
    <3> QED BY <3>1, <3>2
  <2>5. ASSUME \A j \in 1 .. n : samples[j] # Missing
        PROVE  Len(w) = n /\ \A i \in 1 .. n : w[i] = samples[i]
    <3>1. \A j \in 1 .. n - 1 : samples[j] # Missing BY <1>1, <2>5
    <3>2. Len(v) = n - 1 /\ \A i \in 1 .. n - 1 : v[i] = samples[i] BY <3>1 DEF ValidOf
    <3>3. Len(w) = n BY <1>1, <2>3, <3>2
    <3>4. \A i \in 1 .. n : i = n \/ i \in 1 .. n - 1 BY <1>1
    <3>5. \A i \in 1 .. n - 1 : w[i] = samples[i] BY <2>3, <3>2
    <3>6. w[n] = samples[n] BY <1>1, <2>3, <3>2
    <3> QED BY <3>3, <3>4, <3>5, <3>6
  <2>6. ValidOf(w, n) BY <2>3, <2>4, <2>5 DEF ValidOf
  <2> QED BY <1>4, <2>1, <2>6 DEF WithSample
<1> QED BY <1>3, <1>4

LEMMA ValidIs ==
    ASSUME samples \in Seq(Nat \cup {Missing})
    PROVE  ValidOf(Valid, Len(samples))
<1> DEFINE N == Len(samples)
           V == Seq(Nat)
           Fcn(f) == [i \in 0 .. N |-> IF i = 0 THEN <<>> ELSE WithSample(f[i - 1], i)]
           of == CHOOSE f : f = Fcn(f)
           step == [p \in (1 .. N) \X V |-> WithSample(p[2], p[1])]
           Right == {n \in 0 .. N : ValidOf(of[n], n)}
<1>0. N \in Nat /\ <<>> \in V OBVIOUS
<1>1. step \in [(1 .. N) \X V -> V] BY WithSampleTyped
<1>2. PICK g : Walks(g, V, <<>>, N, step)
  <2> HIDE DEF step, N, V
  <2> QED BY <1>0, <1>1, Recursion
<1>3. g = Fcn(g)
  <2>1. \A i \in 1 .. N : g[i] = WithSample(g[i - 1], i)
    <3>1. \A i \in 1 .. N, x \in V : step[<<i, x>>] = WithSample(x, i) OBVIOUS
    <3> HIDE DEF step, N, V
    <3>2. ASSUME NEW i \in 1 .. N PROVE i - 1 \in 0 .. N /\ g[i - 1] \in V
          BY <1>0, <1>2 DEF Walks
    <3> QED BY <1>2, <3>1, <3>2 DEF Walks
  <2>2. DOMAIN g = 0 .. N /\ g = [i \in 0 .. N |-> g[i]] /\ g[0] = <<>>
        BY <1>2 DEF Walks
  <2> QED BY <1>0, <2>1, <2>2
<1>4. of = Fcn(of)
  <2> HIDE DEF Fcn
  <2> QED BY <1>3
<1>5. of[0] = <<>> /\ \A i \in 1 .. N : of[i] = WithSample(of[i - 1], i)
  <2> HIDE DEF of
  <2> QED BY <1>0, <1>4
<1> HIDE DEF of
<1>6. 0 \in Right
  <2>0. Len(<<>>) = 0 OBVIOUS
  <2>1. PICK none : none = <<>> /\ none \in Seq(Nat) /\ Len(none) = 0 BY <1>0, <2>0
  <2>2. ValidOf(none, 0) BY <2>1 DEF ValidOf
  <2> QED BY <1>0, <1>5, <2>1, <2>2
<1>7. \A n \in 1 .. N : n - 1 \in Right => n \in Right
  <2> SUFFICES ASSUME NEW n \in 1 .. N, n - 1 \in Right PROVE n \in Right
      OBVIOUS
  <2>1. ValidOf(of[n - 1], n - 1) /\ of[n] = WithSample(of[n - 1], n) /\ n \in 0 .. N
        BY <1>0, <1>5
  <2>2. ValidOf(of[n], n) BY <2>1, WithSampleKeeps
  <2> QED BY <2>1, <2>2
<1>8. N \in Right
  <2> HIDE DEF Right, N
  <2> QED BY <1>0, <1>6, <1>7, InductionUpTo
<1>9. Valid = of[N] BY DEF Valid, of
<1> QED BY <1>8, <1>9

\* Numbers that never fall end at least as high as they begin.
LEMMA NeverFalls ==
    ASSUME NEW v \in Seq(Nat), Len(v) > 0, \A i \in 1 .. Len(v) - 1 : v[i] <= v[i + 1]
    PROVE  v[1] <= v[Len(v)]
<1> DEFINE M == Len(v) - 1
           S == {n \in 0 .. M : v[1] <= v[n + 1]}
<1>1. M \in Nat /\ Len(v) \in Nat /\ \A i \in 1 .. Len(v) : v[i] \in Nat OBVIOUS
<1>2. 0 \in S BY <1>1
<1>3. \A n \in 1 .. M : n - 1 \in S => n \in S
  <2> SUFFICES ASSUME NEW n \in 1 .. M, n - 1 \in S PROVE n \in S OBVIOUS
  <2>1. v[1] <= v[n] /\ v[n] <= v[n + 1] /\ v[1] \in Nat /\ v[n] \in Nat /\ v[n + 1] \in Nat
        BY <1>1
  <2> QED BY <2>1
<1>4. M \in S
  <2> HIDE DEF S, M
  <2> QED BY <1>1, <1>2, <1>3, InductionUpTo
<1> QED BY <1>1, <1>4

\* What a difference that is reported is a difference of.
LEMMA DeltaIs ==
    ASSUME samples \in Seq(Nat \cup {Missing}), Delta # Missing
    PROVE  /\ Delta \in Nat
           /\ \E i, j \in 1 .. Len(samples) :
                 samples[i] # Missing /\ samples[j] # Missing /\ Delta = samples[j] - samples[i]
           /\ (\A i \in 1 .. Len(samples) : samples[i] # Missing) =>
                 Delta = samples[Len(samples)] - samples[1] /\ Len(samples) > 1
<1>1. PICK v : v = Valid OBVIOUS
<1>2. ValidOf(v, Len(samples)) BY <1>1, ValidIs
<1>3. v \in Seq(Nat) /\ Len(v) \in Nat /\ Len(samples) \in Nat BY <1>2 DEF ValidOf
<1>4. /\ Len(v) > 1 /\ \A i \in 1 .. Len(v) - 1 : ~(v[i] > v[i + 1])
      /\ Delta = Last(v) - Head(v)
      BY <1>1, <1>3 DEF Delta
<1>5. Last(v) = v[Len(v)] /\ Head(v) = v[1] BY <1>3, <1>4 DEF Last
<1>6. v[1] \in Nat /\ v[Len(v)] \in Nat /\ \A i \in 1 .. Len(v) : v[i] \in Nat BY <1>3, <1>4
<1>7. v[1] <= v[Len(v)]
  <2>1. \A i \in 1 .. Len(v) - 1 : v[i] <= v[i + 1]
    <3> SUFFICES ASSUME NEW i \in 1 .. Len(v) - 1 PROVE v[i] <= v[i + 1] OBVIOUS
    <3>1. v[i] \in Nat /\ v[i + 1] \in Nat BY <1>3
    <3> QED BY <1>4, <3>1
  <2> QED BY <1>3, <1>4, <2>1, NeverFalls
<1>8. Delta \in Nat /\ Delta = v[Len(v)] - v[1] BY <1>4, <1>5, <1>6, <1>7
<1>9. /\ \A i \in 1 .. Len(v) : \E j \in 1 .. Len(samples) : v[i] = samples[j]
      /\ (\A i \in 1 .. Len(samples) : samples[i] # Missing) =>
            Len(v) = Len(samples) /\ \A i \in 1 .. Len(samples) : v[i] = samples[i]
      BY <1>2 DEF ValidOf
<1>10. 1 \in 1 .. Len(v) /\ Len(v) \in 1 .. Len(v) BY <1>3, <1>4
<1>11. PICK i \in 1 .. Len(samples) : v[1] = samples[i] BY <1>9, <1>10
<1>12. PICK j \in 1 .. Len(samples) : v[Len(v)] = samples[j] BY <1>9, <1>10
<1>13. samples[i] # Missing /\ samples[j] # Missing BY <1>6, <1>11, <1>12 DEF Missing
<1>14. (\A k \in 1 .. Len(samples) : samples[k] # Missing) =>
          Delta = samples[Len(samples)] - samples[1] /\ Len(samples) > 1
       BY <1>4, <1>8, <1>9, <1>10
<1> QED BY <1>8, <1>11, <1>12, <1>13, <1>14

\* What is accepted as complete depends on the samples only.
LEMMA CompleteIsOfSamples ==
    ASSUME UNCHANGED <<select, samples>> PROVE Complete' = Complete
<1>1. Valid' = Valid BY DEF Valid, WithSample
<1>2. Delta' = Delta BY <1>1 DEF Delta
<1> QED BY <1>2 DEF Complete, MeanMissing, TimelineMissing, Needs

LEMMA SamplesInvInit == RoundInit => SamplesInv
<1> SUFFICES ASSUME RoundInit PROVE SamplesInv OBVIOUS
<1>1. /\ served = 0 /\ main = "idle" /\ scraper = "off" /\ stopping = FALSE /\ samples = <<>>
      BY DEF RoundInit
<1>2. samples \in Seq(Nat \cup {Missing}) BY <1>1
<1> QED BY <1>1, <1>2 DEF SamplesInv, SamplesType, SamplesOfRound, CompleteStays, Over

\* What one more sample adds.
LEMMA SampleTyped ==
    ASSUME SamplesType, Sample
    PROVE  /\ samples' \in Seq(Nat \cup {Missing}) /\ samples' # <<>>
           /\ Last(samples') \in {Missing, served}
           /\ \A i \in DOMAIN samples' : samples'[i] # Missing =>
                 samples'[i] = served \/ (i \in DOMAIN samples /\ samples'[i] = samples[i])
           /\ samples # <<>> => samples'[1] = samples[1]
           /\ samples = <<>> => samples'[1] \in {Missing, served}
<1>1. PICK v \in {served, Missing} : samples' = Append(samples, v) BY DEF Sample
<1>2. samples \in Seq(Nat \cup {Missing}) /\ v \in Nat \cup {Missing} BY DEF SamplesType
<1>3. PICK t : t = samples' OBVIOUS
<1>4. /\ t \in Seq(Nat \cup {Missing}) /\ Len(t) = Len(samples) + 1 /\ t[Len(t)] = v
      /\ \A i \in 1 .. Len(samples) : t[i] = samples[i]
      /\ Len(samples) \in Nat
      BY <1>1, <1>2, <1>3
<1>5. t # <<>> /\ Last(t) = t[Len(t)] BY <1>4 DEF Last
<1>6. DOMAIN t = 1 .. Len(t) /\ DOMAIN samples = 1 .. Len(samples) BY <1>2, <1>4
<1>7. samples # <<>> => 1 \in 1 .. Len(samples) BY <1>2
<1>8. samples = <<>> => Len(t) = 1 BY <1>4
<1> QED BY <1>3, <1>4, <1>5, <1>6, <1>7, <1>8

LEMMA SamplesTypeStep ==
    ASSUME RoundInv, SamplesType, RoundNext PROVE SamplesType'
<1> USE DEF SamplesType, runner, recorder, GotoMain, Over
<1>1. CASE InContainer
      <2>1. PICK a \in Attempts : ShellStarts(a) \/ ShellWrites(a) \/ Request(a) \/ ClientEnds(a)
            BY <1>1 DEF InContainer
      <2> QED BY <2>1 DEF ShellStarts, ShellWrites, Request, ClientEnds
<1>2. CASE ServerRestarts BY <1>2 DEF ServerRestarts
<1>3. CASE Scrapes
      <2>1. Sample /\ scraper' \in {"loop", "gone"} /\ UNCHANGED <<served, main, stopping>>
            BY <1>3 DEF Scrapes, ScrapeFirst, ScrapeNext, ScrapeLast
      <2>2. samples' \in Seq(Nat \cup {Missing}) /\ samples' # <<>> BY <2>1, SampleTyped
      <2> QED BY <2>1, <2>2
<1>4. CASE ScraperDies \/ Monitors \/ CancelRound
      BY <1>4 DEF ScraperDies, Monitors, MonitorReads, MonitorWrites, CancelRound
<1>5. CASE Tools
      <2>1. ToolKeeps BY <1>5 DEF Tools, ToolStarts, ToolReads, ToolGivesUp, ToolCleansUp
      <2> QED BY <2>1 DEF ToolKeeps
<1>6. CASE Open
      <2>1. <<>> \in Seq(Nat \cup {Missing}) OBVIOUS
      <2> QED BY <1>6, <2>1 DEF Open
<1>7. CASE RunsTool
      <2>1. UNCHANGED <<served, samples>> /\ scraper' \in {scraper, "gone"}
            /\ (scraper' = "off" => scraper = "off") /\ main # "idle"
            BY <1>7 DEF RunsTool, Baseline, Call, Answer, GiveUp, Reap, Close, FinishRound, Settle,
               Collect
      <2>2. CASE Baseline \/ Call \/ Answer \/ GiveUp \/ Reap \/ Close
            BY <2>1, <2>2 DEF Baseline, Call, Answer, GiveUp, Reap, Close
      <2>3. CASE FinishRound BY <2>1, <2>3 DEF FinishRound
      <2>4. CASE Settle BY <2>1, <2>4 DEF Settle, Saved, RoundInv, RoundType
      <2>5. CASE Collect BY <2>1, <2>5 DEF Collect
      <2> QED BY <1>7, <2>2, <2>3, <2>4, <2>5 DEF RunsTool
<1> QED BY <1>1, <1>2, <1>3, <1>4, <1>5, <1>6, <1>7 DEF RoundNext

\* A step that takes no sample, serves no request and begins nothing.
LEMMA SamplesStay ==
    ASSUME SamplesOfRound,
           UNCHANGED <<served, samples, attempt, select, stopping, scraper>>,
           client'[attempt].left = client[attempt].left,
           Unspoilt' => Unspoilt, main' # "idle" => main # "idle",
           Unspoilt /\ NeedsBaseline /\ Started' => Started \/ samples # <<>>,
           scraper = "gone" /\ verdict' = "ok" => verdict = "ok"
    PROVE  SamplesOfRound'
<1> USE DEF SamplesOfRound
<1> SUFFICES ASSUME Unspoilt', main' # "idle"
             PROVE  /\ \A i \in DOMAIN samples : samples[i] # Missing => samples[i] \in Begun' .. served
                    /\ scraper = "gone" => stopping
                    /\ NeedsBaseline =>
                          /\ scraper = "born" => client'[attempt].left = Requests
                          /\ Started' => samples # <<>>
                          /\ samples # <<>> => samples[1] \in {Missing, Begun'}
                          /\ scraper = "gone" /\ verdict' = "ok" => Last(samples) \in {Missing, served}
    BY DEF NeedsBaseline, Needs
<1>1. Unspoilt /\ main # "idle" OBVIOUS
<1>2. Begun' = Begun BY DEF Begun
<1> QED BY <1>1, <1>2

LEMMA MishapsGrow ==
    ASSUME RoundNext PROVE mishaps \subseteq mishaps'
<1>1. CASE InContainer
      BY <1>1 DEF InContainer, ShellStarts, ShellWrites, Request, ClientEnds
<1>2. CASE ServerRestarts \/ Scrapes \/ ScraperDies \/ Monitors \/ CancelRound
      BY <1>2 DEF ServerRestarts, Scrapes, ScrapeFirst, ScrapeNext, ScrapeLast, ScraperDies,
         Monitors, MonitorReads, MonitorWrites, CancelRound
<1>3. CASE Tools
      BY <1>3 DEF Tools, ToolStarts, ToolReads, ToolGivesUp, ToolCleansUp
<1>4. CASE Open BY <1>4 DEF Open
<1>5. CASE RunsTool
      BY <1>5 DEF RunsTool, Baseline, Call, Answer, GiveUp, Reap, Close, FinishRound, Settle, Collect
<1> QED BY <1>1, <1>2, <1>3, <1>4, <1>5 DEF RoundNext

LEMMA SampleStep ==
    ASSUME RoundInv, SamplesType, SamplesOfRound, Scrapes PROVE SamplesOfRound'
<1> USE DEF runner, container
<1> SUFFICES ASSUME Unspoilt, main # "idle" PROVE SamplesOfRound'
  <2>1. UNCHANGED <<mishaps, main>>
        BY DEF Scrapes, ScrapeFirst, ScrapeNext, ScrapeLast
  <2> QED BY <2>1 DEF SamplesOfRound, Unspoilt
<1>1. /\ Sample /\ scraper' \in {"loop", "gone"} /\ (scraper' = "gone" => stopping')
      /\ UNCHANGED <<served, main, verdict, stopping, client, attempt, select>>
      /\ scraper \in {"born", "loop"}
      BY DEF Scrapes, ScrapeFirst, ScrapeNext, ScrapeLast
<1>2. /\ samples' \in Seq(Nat \cup {Missing}) /\ samples' # <<>>
      /\ Last(samples') \in {Missing, served}
      /\ \A i \in DOMAIN samples' : samples'[i] # Missing =>
            samples'[i] = served \/ (i \in DOMAIN samples /\ samples'[i] = samples[i])
      /\ samples # <<>> => samples'[1] = samples[1]
      /\ samples = <<>> => samples'[1] \in {Missing, served}
      BY <1>1, SampleTyped
<1>3. Begun' = Begun BY <1>1 DEF Begun
<1>4. served \in Nat /\ attempt \in Attempts /\ client[attempt].left \in 0 .. Requests /\ Requests \in Nat
      BY RoundMeasureAssumption DEF SamplesType, RoundInv, RoundType
<1>5. Begun \in Int /\ Begun <= served /\ (client[attempt].left = Requests => Begun = served)
      BY <1>4 DEF Begun
<1>6. \A i \in DOMAIN samples' : samples'[i] # Missing => samples'[i] \in Begun .. served
  <2> SUFFICES ASSUME NEW i \in DOMAIN samples', samples'[i] # Missing
               PROVE  samples'[i] \in Begun .. served
      OBVIOUS
  <2>1. CASE samples'[i] = served BY <1>4, <1>5, <2>1
  <2>2. CASE samples'[i] # served BY <1>2, <2>2 DEF SamplesOfRound
  <2> QED BY <2>1, <2>2
<1>7. NeedsBaseline => samples'[1] \in {Missing, Begun}
  <2> SUFFICES ASSUME NeedsBaseline PROVE samples'[1] \in {Missing, Begun} OBVIOUS
  <2>1. CASE samples # <<>> BY <1>2, <2>1 DEF SamplesOfRound
  <2>2. CASE samples = <<>>
    <3>1. scraper = "born" BY <1>1, <2>2 DEF SamplesType
    <3> QED BY <1>2, <1>5, <2>2, <3>1 DEF SamplesOfRound
  <2> QED BY <2>1, <2>2
<1>8. NeedsBaseline' = NeedsBaseline BY <1>1 DEF NeedsBaseline, Needs
<1> QED BY <1>1, <1>2, <1>3, <1>6, <1>7, <1>8 DEF SamplesOfRound

LEMMA ContainerStep ==
    ASSUME RoundInv, ClientsInv, SamplesType, SamplesOfRound, InContainer PROVE SamplesOfRound'
<1> USE DEF runner, recorder, RoundInv, RoundType
<1> SUFFICES ASSUME Unspoilt, main # "idle" PROVE SamplesOfRound'
  <2>1. UNCHANGED <<mishaps, main>>
        BY DEF InContainer, ShellStarts, ShellWrites, Request, ClientEnds
  <2> QED BY <2>1 DEF SamplesOfRound, Unspoilt
<1>1. PICK a \in Attempts : ShellStarts(a) \/ ShellWrites(a) \/ Request(a) \/ ClientEnds(a)
      BY DEF InContainer
<1>2. UNCHANGED <<samples, attempt, select, stopping, scraper, main, verdict, mishaps>>
      BY <1>1 DEF ShellStarts, ShellWrites, Request, ClientEnds
<1>3. CASE ~Request(a)
  <2>1. served' = served /\ client'[attempt].left = client[attempt].left
    <3>1. /\ client \in [Attempts -> [alive : BOOLEAN, left : 0 .. Requests, failed : BOOLEAN]]
          /\ attempt \in Attempts
          OBVIOUS
    <3>2. CASE ShellStarts(a)
      <4>1. client' = [client EXCEPT ![a].alive = TRUE] /\ served' = served BY <3>2 DEF ShellStarts
      <4> QED BY <3>1, <4>1
    <3>3. CASE ShellWrites(a) BY <3>3 DEF ShellWrites
    <3>4. CASE ClientEnds(a)
      <4>1. /\ client' = [client EXCEPT ![a].alive = FALSE, ![a].failed = @ \/ client[a].left > 0]
            /\ served' = served
            BY <3>4 DEF ClientEnds
      <4> QED BY <3>1, <4>1
    <3> QED BY <1>1, <1>3, <3>2, <3>3, <3>4
  <2>2. Started' = Started /\ Unspoilt' = Unspoilt BY <1>2 DEF Started, Unspoilt
  <2> QED BY <1>2, <2>1, <2>2, SamplesStay
<1>4. CASE Request(a)
  <2>1. a = attempt /\ tool \in AtWork
        BY <1>4 DEF Request, ClientsInv, AliveIsCurrent, ClientAlive, Unspoilt
  <2>2. main \in {"wait", "term"} BY <2>1 DEF ToolIsWaitedFor
  <2>3. Started /\ ~stopping BY <2>2 DEF Started, SamplesType
  <2>4. served' = served + 1 /\ client'[attempt].left = client[attempt].left - 1
        BY <1>4, <2>1 DEF Request
  <2>5. served \in Nat /\ client[attempt].left \in 0 .. Requests /\ Requests \in Nat
        BY RoundMeasureAssumption, <2>1 DEF SamplesType
  <2>6. Begun' = Begun /\ Begun \in Int /\ Begun .. served \subseteq Begun .. served + 1
        BY <1>2, <2>4, <2>5 DEF Begun
  <2>7. scraper # "gone" BY <2>3 DEF SamplesOfRound
  <2>8. NeedsBaseline' = NeedsBaseline BY <1>2 DEF NeedsBaseline, Needs
  <2>9. NeedsBaseline => samples # <<>> /\ scraper # "born" BY <2>3 DEF SamplesOfRound, SamplesType
  <2>10. \A i \in DOMAIN samples' : samples'[i] # Missing => samples'[i] \in Begun' .. served'
         BY <1>2, <2>4, <2>6 DEF SamplesOfRound
  <2> QED BY <1>2, <2>6, <2>7, <2>8, <2>9, <2>10 DEF SamplesOfRound
<1> QED BY <1>3, <1>4

LEMMA SamplesOfRoundStep ==
    ASSUME RoundInv, ClientsInv, SamplesType, SamplesOfRound, RoundNext PROVE SamplesOfRound'
<1> USE DEF runner, recorder, container, GotoMain
<1>0. Unspoilt' => Unspoilt BY MishapsGrow DEF Unspoilt
<1>1. CASE InContainer BY <1>1, ContainerStep
<1>2. CASE ServerRestarts \/ ScraperDies
  <2>1. ~Unspoilt' BY <1>2 DEF ServerRestarts, ScraperDies, Unspoilt
  <2> QED BY <2>1 DEF SamplesOfRound
<1>3. CASE Scrapes BY <1>3, SampleStep
<1>4. CASE Monitors \/ CancelRound
  <2>1. UNCHANGED <<served, samples, attempt, select, stopping, scraper, main, verdict, client>>
        BY <1>4 DEF Monitors, MonitorReads, MonitorWrites, CancelRound
  <2>2. Started' = Started BY <2>1 DEF Started
  <2> QED BY <1>0, <2>1, <2>2, SamplesStay
<1>5. CASE Tools
  <2>1. ToolKeeps BY <1>5 DEF Tools, ToolStarts, ToolReads, ToolGivesUp, ToolCleansUp
  <2>2. UNCHANGED <<served, samples, attempt, select, stopping, scraper, main, verdict>>
        BY <2>1 DEF ToolKeeps
  <2>3. client' = client \/ client' = [client EXCEPT ![attempt].alive = FALSE]
        BY <1>5 DEF Tools, ToolStarts, ToolReads, ToolGivesUp, ToolCleansUp
  <2>4. client'[attempt].left = client[attempt].left BY <2>3 DEF RoundInv, RoundType
  <2>5. Started' = Started BY <2>2 DEF Started
  <2> QED BY <1>0, <2>2, <2>4, <2>5, SamplesStay
<1>6. CASE Open
  <2>1. attempt' = attempt + 1 /\ attempt' \in Attempts /\ samples' = <<>> /\ scraper' = "born"
        /\ stopping' = FALSE /\ verdict' = "none" /\ UNCHANGED select
        /\ main' = IF NeedsBaseline THEN "baseline" ELSE "call"
        BY <1>6, RoundMeasureAssumption DEF Open, Attempts, RoundInv, RoundType
  <2>2. ~ClientAlive(attempt')
    <3>1. attempt' > attempt BY <2>1, RoundMeasureAssumption DEF RoundInv, RoundType
    <3> QED BY <2>1, <3>1 DEF ClientsInv, NotAsked, ClientAlive
  <2>3. client'[attempt'] = NoClient BY <1>6, <2>1, <2>2 DEF Open
  <2>4. client'[attempt'].left = Requests BY <2>3 DEF NoClient
  <2>5. NeedsBaseline' = NeedsBaseline BY <2>1 DEF NeedsBaseline, Needs
  <2>6. NeedsBaseline => ~Started' BY <2>1 DEF Started
  <2> QED BY <2>1, <2>4, <2>5, <2>6 DEF SamplesOfRound
<1>7. CASE RunsTool
  <2>1. UNCHANGED <<served, samples, attempt, select, client>> /\ main # "idle"
        BY <1>7 DEF RunsTool, Baseline, Call, Answer, GiveUp, Reap, Close, FinishRound, Settle,
           Collect
  <2>2. CASE Baseline
    <3>1. UNCHANGED <<stopping, scraper>> /\ (verdict' = "ok" => verdict = "ok")
          /\ (NeedsBaseline /\ Started' => Started \/ samples # <<>>)
          BY <2>2 DEF Baseline, HasBaseline, Started
    <3> QED BY <1>0, <2>1, <3>1, SamplesStay
  <2>3. CASE Call \/ GiveUp \/ Reap \/ Close \/ Collect
    <3>1. UNCHANGED <<stopping, scraper>> /\ (verdict' = "ok" => verdict = "ok")
          /\ (Started' => Started)
          BY <2>3 DEF Call, GiveUp, Reap, Close, Collect, Started, RoundInv, AnswerIsTrue
    <3> QED BY <1>0, <2>1, <3>1, SamplesStay
  <2>4. CASE Answer
    <3>1. UNCHANGED <<stopping, scraper, mishaps>> /\ main = "wait" /\ Started
          BY <2>4 DEF Answer, Started
    <3>2. Unspoilt => scraper # "gone" BY <2>1, <3>1 DEF SamplesOfRound, SamplesType
    <3>3. CASE ~Unspoilt BY <1>0, <3>3 DEF SamplesOfRound
    <3>4. CASE Unspoilt BY <1>0, <2>1, <3>1, <3>2, <3>4, SamplesStay
    <3> QED BY <3>3, <3>4
  <2>5. CASE FinishRound
    <3>1. main = "finish" /\ stopping' /\ UNCHANGED <<main, verdict>>
          /\ scraper' \in {scraper, "gone"} /\ (scraper # "born" => scraper' = scraper)
          BY <2>5 DEF FinishRound
    <3>2. Begun' = Begun /\ NeedsBaseline' = NeedsBaseline /\ Started' = Started
          BY <2>1, <3>1 DEF Begun, NeedsBaseline, Needs, Started
    <3>3. CASE Unspoilt
      <4>1. NeedsBaseline /\ scraper' = "gone" /\ verdict = "ok" => scraper = "gone"
            BY <2>1, <3>1, <3>3 DEF SamplesOfRound, SamplesType, Started
      <4>2. scraper' = "born" => scraper = "born" BY <3>1
      <4> QED BY <2>1, <3>1, <3>2, <3>3, <4>1, <4>2 DEF SamplesOfRound
    <3>4. CASE ~Unspoilt BY <1>0, <3>4 DEF SamplesOfRound
    <3> QED BY <3>3, <3>4
  <2>6. CASE Settle
    <3>1. UNCHANGED <<verdict, stopping>> BY <2>6 DEF Settle
    <3>2. Started' => Started BY <2>6, <3>1 DEF Settle, Saved, Started, RoundInv, RoundType
    <3>3. CASE scraper' = scraper BY <1>0, <2>1, <3>1, <3>2, <3>3, SamplesStay
    <3>4. CASE scraper' # scraper
      <4>1. ~Unspoilt' BY <2>6, <3>4 DEF Settle, Unspoilt
      <4> QED BY <4>1 DEF SamplesOfRound
    <3> QED BY <3>3, <3>4
  <2> QED BY <1>7, <2>2, <2>3, <2>4, <2>5, <2>6 DEF RunsTool
<1> QED BY <1>1, <1>2, <1>3, <1>4, <1>5, <1>6, <1>7 DEF RoundNext

\* What was accepted is not changed any more.
LEMMA CompleteStep ==
    ASSUME RoundInv, SamplesType, CompleteStays, RoundNext PROVE CompleteStays'
<1> USE DEF runner, recorder, GotoMain
<1> SUFFICES ASSUME main' = "complete" PROVE Complete' BY DEF CompleteStays
<1>1. CASE Collect
  <2>1. Complete /\ UNCHANGED <<select, samples>> BY <1>1 DEF Collect
  <2> QED BY <2>1, CompleteIsOfSamples
<1>2. CASE ~Collect
  <2>1. ~Open /\ ~Settle BY DEF Open, Settle, Saved, RoundInv, RoundType
  <2>2. main = "complete"
        BY <1>2, <2>1 DEF RoundNext, InContainer, ShellStarts, ShellWrites, Request, ClientEnds,
           ServerRestarts, Scrapes, ScrapeFirst, ScrapeNext, ScrapeLast, ScraperDies, Tools,
           ToolStarts, ToolReads, ToolGivesUp, ToolCleansUp, ToolKeeps, RunsTool, Baseline, Call,
           Answer, GiveUp, Reap, Close, FinishRound, Monitors, MonitorReads, MonitorWrites,
           CancelRound
  <2>3. scraper = "gone" BY <2>2 DEF RoundInv, AnswerIsTrue
  <2>4. UNCHANGED <<select, samples>>
        BY <1>2, <2>1, <2>2, <2>3 DEF RoundNext, InContainer, ShellStarts, ShellWrites, Request, ClientEnds,
           ServerRestarts, Scrapes, ScrapeFirst, ScrapeNext, ScrapeLast, ScraperDies, Tools,
           ToolStarts, ToolReads, ToolGivesUp, ToolCleansUp, ToolKeeps, RunsTool, Baseline, Call,
           Answer, GiveUp, Reap, Close, FinishRound, Monitors, MonitorReads, MonitorWrites,
           CancelRound
  <2>5. Complete BY <2>2 DEF CompleteStays
  <2> QED BY <2>4, <2>5, CompleteIsOfSamples
<1> QED BY <1>1, <1>2

LEMMA SamplesInvStep ==
    RoundInv /\ ClientsInv /\ SamplesInv /\ [RoundNext]_roundVars => SamplesInv'
<1> SUFFICES ASSUME RoundInv, ClientsInv, SamplesInv, [RoundNext]_roundVars PROVE SamplesInv'
    OBVIOUS
<1>1. CASE RoundNext
      BY <1>1, SamplesTypeStep, SamplesOfRoundStep, CompleteStep DEF SamplesInv
<1>2. CASE UNCHANGED roundVars
  <2> USE DEF roundVars, runner, container, recorder
  <2>1. SamplesType' BY <1>2 DEF SamplesInv, SamplesType
  <2>2. SamplesOfRound'
        BY <1>2 DEF SamplesInv, SamplesOfRound, Unspoilt, Begun, Started, NeedsBaseline, Needs
  <2>3. Complete' = Complete BY <1>2, CompleteIsOfSamples
  <2>4. CompleteStays' BY <1>2, <2>3 DEF SamplesInv, CompleteStays
  <2> QED BY <2>1, <2>2, <2>4 DEF SamplesInv
<1> QED BY <1>1, <1>2

LEMMA SamplesInvCovers == RoundInv /\ SamplesInv => CompleteCoversRound
<1> SUFFICES ASSUME RoundInv, SamplesInv, main = "complete", Needs({"queue_time", "server"})
             PROVE  /\ Delta > 0
                    /\ mishaps \subseteq {"slow"} =>
                          /\ Delta <= Requests
                          /\ Needs({"request_timeline"}) => Delta = Requests
    BY DEF CompleteCoversRound
<1>1. Complete /\ samples \in Seq(Nat \cup {Missing}) /\ served \in Nat
      BY DEF SamplesInv, SamplesType, CompleteStays
<1>2. Delta \notin {Missing, 0} BY <1>1 DEF Complete, MeanMissing
<1>3. Delta \in Nat BY <1>1, <1>2, DeltaIs
<1>4. verdict = "ok" /\ scraper = "gone" /\ tool = "ok" /\ attempt \in Attempts
      /\ client[attempt].left = 0
      BY DEF RoundInv, AnswerIsTrue, ResultIsWhole
<1>5. Requests \in Nat BY RoundMeasureAssumption
<1>6. ASSUME Unspoilt PROVE Delta <= Requests /\ (Needs({"request_timeline"}) => Delta = Requests)
  <2>1. Begun = served - Requests BY <1>1, <1>4, <1>5 DEF Begun
  <2>2. \A i \in DOMAIN samples : samples[i] # Missing => samples[i] \in Begun .. served
        BY <1>6 DEF SamplesInv, SamplesOfRound
  <2>3. PICK i \in 1 .. Len(samples), j \in 1 .. Len(samples) :
             samples[i] # Missing /\ samples[j] # Missing /\ Delta = samples[j] - samples[i]
        BY <1>1, <1>2, DeltaIs
  <2>4. samples[i] \in Begun .. served /\ samples[j] \in Begun .. served
        BY <1>1, <2>2, <2>3
  <2>5. Delta <= Requests BY <1>1, <1>5, <2>1, <2>3, <2>4
  <2>6. ASSUME Needs({"request_timeline"}) PROVE Delta = Requests
    <3>1. NeedsBaseline BY <2>6 DEF NeedsBaseline, Needs
    <3>2. \A k \in 1 .. Len(samples) : samples[k] # Missing
          BY <1>1, <2>6 DEF Complete, TimelineMissing
    <3>3. Delta = samples[Len(samples)] - samples[1] /\ Len(samples) > 1
          BY <1>1, <1>2, <3>2, DeltaIs
    <3>4. samples # <<>> /\ 1 \in 1 .. Len(samples) /\ Len(samples) \in 1 .. Len(samples)
          BY <1>1, <3>3
    <3>5. samples[1] = Begun
          BY <1>4, <1>6, <3>1, <3>2, <3>4 DEF SamplesInv, SamplesOfRound
    <3>6. samples[Len(samples)] = served
          BY <1>4, <1>6, <3>1, <3>2, <3>4 DEF SamplesInv, SamplesOfRound, Last
    <3> QED BY <1>1, <1>5, <2>1, <3>3, <3>5, <3>6
  <2> QED BY <2>5, <2>6
<1> QED BY <1>2, <1>3, <1>6 DEF Unspoilt

\* A round that is over is sound (RoundIsSound): metrics that are accepted as
\* complete count the requests of the round and no other (collect of
\* tools/metrics.py), a saved round was measured to its end (pending_round of
\* agent/main.py), and the task list shows it as it ended (_RoundMonitor), for
\* every number of attempts, requests and samples, and every selection of metrics.
THEOREM RoundsStaySound ==
    RoundInit /\ [][RoundNext]_roundVars => []RoundIsSound
<1>1. RoundInv => SavedIsFinal /\ ShownAsIs
      BY DEF RoundInv, AnswerIsTrue, MonitorIsClosed, SavedIsFinal, ShownAsIs, Over, RoundType
<1>2. RoundInv /\ SamplesInv => RoundIsSound BY <1>1, SamplesInvCovers DEF RoundIsSound
<1> QED BY <1>2, RoundInvInit, ClientsInvStep, RoundInvStep, SamplesInvInit, SamplesInvStep, PTL

-----------------------------------------------------------------------------
(* Proofs about the commands and the pointer.                                *)

LEMMA PointerInvInit == PointerInit => PointerInv
<1> SUFFICES ASSUME PointerInit PROVE PointerInv OBVIOUS
<1> USE RunPointerAssumption DEF PointerInit, Quiet
<1>1. PointerType BY DEF PointerType, PointerCommands, PointerPcs, Homes, RunIds
<1>2. ASSUME NEW s \in Shells PROVE Homed(s) /\ LockedAtHome(s)
  <2>1. command[s].pc = "quiet" /\ command[s] = Quiet /\ command[s].named = NoHome OBVIOUS
  <2> QED BY <2>1 DEF Homed, LockedAtHome
<1> QED BY <1>1, <1>2 DEF PointerInv, StraysToNewer

\* The ways in which a command is updated.
LEMMA PointerCommandType ==
    ASSUME NEW c \in PointerCommands
    PROVE  /\ \A p \in PointerPcs : [c EXCEPT !.pc = p] \in PointerCommands
           /\ \A p \in PointerPcs, h \in Homes :
                 /\ [c EXCEPT !.pc = p, !.home = h] \in PointerCommands
                 /\ [c EXCEPT !.pc = p, !.work = h] \in PointerCommands
           /\ \A p \in PointerPcs, h \in Homes, n \in Homes :
                 [c EXCEPT !.pc = p, !.named = n, !.home = h] \in PointerCommands
           /\ Quiet \in PointerCommands
BY DEF PointerCommands, Quiet, Homes, PointerPcs

\* What a command changes.
PointerStep(s) ==
    \/ TypeRun(s) \/ CreateRun(s) \/ ResetRun(s) \/ FreezeRun(s) \/ LockRun(s)
    \/ LoadRun(s) \/ SaveRun(s) \/ InterruptRun(s) \/ Fails(s)
    \/ \E named \in Homes : TypeCommand(s, named)

LEMMA CommandStep ==
    ASSUME PointerType, NEW s \in Shells, PointerStep(s)
    PROVE  \E c \in PointerCommands : command' = [command EXCEPT ![s] = c]
<1> USE DEF InShell, Becomes
<1>0. /\ command[s] \in PointerCommands
      /\ "create" \in PointerPcs /\ "reset" \in PointerPcs /\ "freeze" \in PointerPcs
      /\ "lock" \in PointerPcs /\ "load" \in PointerPcs /\ "save" \in PointerPcs
      BY DEF PointerType, PointerPcs
<1>1. /\ Current(command[s]) \in Homes /\ NoHome \in Homes
      /\ \A n \in Homes : Current([Quiet EXCEPT !.named = n]) \in Homes
      BY <1>0 DEF Current, PointerCommands, Homes, PointerType, Quiet
<1>2. Quiet \in PointerCommands BY <1>0, PointerCommandType
<1>3. CASE TypeRun(s)
      <2>1. [Quiet EXCEPT !.pc = "create"] \in PointerCommands
            BY <1>0, <1>2, PointerCommandType
      <2> QED BY <1>3, <2>1 DEF TypeRun
<1>4. CASE CreateRun(s)
      <2>1. created + 1 \in Homes
            BY <1>4, RunPointerAssumption DEF CreateRun, PointerType, RunIds, Homes
      <2>2. [command[s] EXCEPT !.pc = "reset", !.home = created + 1] \in PointerCommands
            BY <1>0, <2>1, PointerCommandType
      <2> QED BY <1>4, <2>2 DEF CreateRun
<1>5. CASE ResetRun(s) \/ FreezeRun(s) \/ LockRun(s)
      <2>1. \A p \in PointerPcs : [command[s] EXCEPT !.pc = p] \in PointerCommands
            BY <1>0, PointerCommandType
      <2>2. PICK p \in PointerPcs : command' = [command EXCEPT ![s] = [command[s] EXCEPT !.pc = p]]
            BY <1>0, <1>5 DEF ResetRun, FreezeRun, LockRun
      <2> QED BY <2>1, <2>2
<1>6. CASE LoadRun(s)
      <2>1. [command[s] EXCEPT !.pc = "save", !.work = Current(command[s])] \in PointerCommands
            BY <1>0, <1>1, PointerCommandType
      <2> QED BY <1>2, <1>6, <2>1 DEF LoadRun, Leaves
<1>7. CASE SaveRun(s)
      <2>1. [command[s] EXCEPT !.pc = "load", !.work = NoHome] \in PointerCommands
            BY <1>0, <1>1, PointerCommandType
      <2> QED BY <1>7, <2>1 DEF SaveRun
<1>8. CASE InterruptRun(s) \/ Fails(s)
      BY <1>2, <1>8 DEF InterruptRun, Fails, HandleIn, Leaves
<1>9. ASSUME NEW n \in Homes, TypeCommand(s, n)
      PROVE  \E c \in PointerCommands : command' = [command EXCEPT ![s] = c]
      <2>1. [Quiet EXCEPT !.pc = "load", !.named = n,
                          !.home = Current([Quiet EXCEPT !.named = n])] \in PointerCommands
            BY <1>0, <1>1, <1>2, PointerCommandType
      <2> QED BY <1>9, <2>1 DEF TypeCommand
<1> QED BY <1>3, <1>4, <1>5, <1>6, <1>7, <1>8, <1>9 DEF PointerStep

LEMMA PointerTypeStep ==
    ASSUME PointerType, NEW s \in Shells, PointerStep(s)
    PROVE  PointerType' /\ pointer <= pointer' /\ \A t \in Shells \ {s} : command'[t] = command[t]
<1> USE RunPointerAssumption DEF PointerType, RunIds
<1>1. PICK c \in PointerCommands : command' = [command EXCEPT ![s] = c] BY CommandStep
<1>2. \/ UNCHANGED <<pointer, created>>
      \/ created < MaxCreated /\ created' = created + 1 /\ pointer' = created + 1
      BY DEF PointerStep, TypeRun, CreateRun, ResetRun, FreezeRun, LockRun, LoadRun, SaveRun,
         InterruptRun, Fails, HandleIn, TypeCommand
<1>3. CASE execution' = execution BY <1>1, <1>2, <1>3
<1>4. CASE Leaves(s)
      <2>1. execution' \in [RunIds -> SUBSET Shells] BY <1>4 DEF Leaves
      <2> QED BY <1>1, <1>2, <2>1
<1>5. CASE execution' # execution /\ ~Leaves(s)
      <2>1. \E h \in RunIds : execution' = [execution EXCEPT ![h] = {s}]
            BY <1>5 DEF PointerStep, TypeRun, CreateRun, ResetRun, FreezeRun, LockRun, LoadRun,
               SaveRun, InterruptRun, Fails, HandleIn, TypeCommand, Current, Homes, Quiet
      <2>2. execution' \in [RunIds -> SUBSET Shells] BY <2>1
      <2> QED BY <1>1, <1>2, <2>2
<1> QED BY <1>3, <1>4, <1>5

LEMMA HomedStep ==
    ASSUME PointerInv, NEW s \in Shells, PointerStep(s), NEW t \in Shells
    PROVE  Homed(t)'
<1> USE RunPointerAssumption DEF PointerInv, PointerType, RunIds, Becomes, InShell
<1>0. pointer <= pointer' /\ \A u \in Shells \ {s} : command'[u] = command[u]
      BY PointerTypeStep
<1>00. command[s] \in PointerCommands /\ NoHome \notin RunIds
       BY DEF NoHome
<1>1. CASE t # s
      <2>1. command'[t] = command[t] /\ Homed(t) /\ pointer' \in Nat /\ pointer \in Nat
            BY <1>0, <1>1, PointerTypeStep
      <2> QED BY <1>0, <2>1 DEF Homed, PointerCommands, Homes
<1>2. CASE t = s
      <2> USE <1>0, <1>00, <1>2 DEF Homed, PointerCommands
      <2>1. CASE TypeRun(s) BY <2>1 DEF TypeRun, Quiet
      <2>2. CASE CreateRun(s) BY <2>2 DEF CreateRun
      <2>3. CASE ResetRun(s) \/ FreezeRun(s) BY <2>3 DEF ResetRun, FreezeRun
      <2>4. CASE LockRun(s) BY <2>4 DEF LockRun
      <2>5. CASE LoadRun(s)
            <3>1. CASE command' = [command EXCEPT ![s] = Quiet] BY <3>1 DEF Quiet
            <3>2. CASE command' = [command EXCEPT ![s] = [command[s] EXCEPT !.pc = "save",
                                                           !.work = Current(command[s])]]
                       /\ pointer' = pointer /\ command[s].pc = "load"
                  BY <3>2 DEF Current, Homes
            <3> QED BY <2>5, <3>1, <3>2 DEF LoadRun, Leaves
      <2>6. CASE SaveRun(s) BY <2>6 DEF SaveRun
      <2>7. CASE InterruptRun(s) \/ Fails(s)
            BY <2>7 DEF InterruptRun, Fails, HandleIn, Leaves, Quiet
      <2>8. ASSUME NEW named \in Homes, TypeCommand(s, named) PROVE Homed(s)'
            <3> DEFINE home == Current([Quiet EXCEPT !.named = named])
            <3>1. home \in 0 .. pointer /\ (named # NoHome => home = named)
                  BY <2>8 DEF Current, Homes, Quiet, TypeCommand
            <3> HIDE DEF home
            <3>2. /\ command' = [command EXCEPT ![s] = [Quiet EXCEPT !.pc = "load",
                                                           !.named = named, !.home = home]]
                  /\ UNCHANGED pointer
                  BY <2>8 DEF TypeCommand, home
            <3> QED BY <3>1, <3>2 DEF Quiet
      <2> QED BY <2>1, <2>2, <2>3, <2>4, <2>5, <2>6, <2>7, <2>8 DEF PointerStep
<1> QED BY <1>1, <1>2
LEMMA LockedStep ==
    ASSUME PointerInv, NEW s \in Shells, PointerStep(s), NEW t \in Shells
    PROVE  LockedAtHome(t)'
<1> USE RunPointerAssumption DEF PointerInv, PointerType, RunIds, Becomes, InShell
<1>0. pointer <= pointer' /\ \A u \in Shells \ {s} : command'[u] = command[u]
      BY PointerTypeStep
<1>00. command[t] \in PointerCommands /\ NoHome \notin RunIds BY DEF NoHome
<1>1. CASE t # s
      <2>1. command'[t] = command[t] /\ LockedAtHome(t) /\ Homed(t) BY <1>0, <1>1
      <2> SUFFICES ASSUME command[t].pc \in {"load", "save"}, execution[command[t].home] = {t}
                   PROVE  execution'[command[t].home] = {t}
          <3>1. pointer \in Nat /\ pointer' \in Nat BY PointerTypeStep
          <3> QED BY <1>0, <2>1, <3>1 DEF LockedAtHome, Homed
      <2>2. command[t].home \in RunIds BY <2>1 DEF Homed
      <2>3. CASE Leaves(s) BY <1>1, <2>2, <2>3 DEF Leaves
      <2>4. CASE ~Leaves(s)
            BY <1>1, <2>2, <2>4 DEF PointerStep, TypeRun, CreateRun, ResetRun, FreezeRun, LockRun,
               LoadRun, SaveRun, InterruptRun, Fails, HandleIn, TypeCommand
      <2> QED BY <2>3, <2>4
<1>2. CASE t = s
      <2> USE <1>0, <1>00, <1>2 DEF LockedAtHome, PointerCommands
      <2>1. CASE TypeRun(s) \/ CreateRun(s) \/ ResetRun(s) \/ FreezeRun(s)
            <3>1. command'[s].pc \in {"create", "reset", "freeze", "lock"}
                  BY <2>1 DEF TypeRun, CreateRun, ResetRun, FreezeRun, Quiet
            <3> QED BY <3>1
      <2>2. CASE LockRun(s)
            <3>1. Homed(s) /\ command[s].home \in 0 .. pointer /\ command[s].named = NoHome
                  BY <2>2 DEF LockRun, Homed
            <3> QED BY <2>2, <3>1 DEF LockRun
      <2>3. CASE LoadRun(s)
            <3>1. CASE command' = [command EXCEPT ![s] = Quiet] BY <3>1 DEF Quiet
            <3>2. CASE /\ command' = [command EXCEPT ![s] = [command[s] EXCEPT !.pc = "save",
                                                           !.work = Current(command[s])]]
                       /\ pointer' = pointer /\ execution' = execution /\ command[s].pc = "load"
                  BY <3>2 DEF Current, Homes
            <3> QED BY <2>3, <3>1, <3>2 DEF LoadRun, Leaves
      <2>4. CASE SaveRun(s) BY <2>4 DEF SaveRun
      <2>5. CASE InterruptRun(s) \/ Fails(s)
            BY <2>5 DEF InterruptRun, Fails, HandleIn, Leaves, Quiet
      <2>6. ASSUME NEW n \in Homes, TypeCommand(s, n) PROVE LockedAtHome(s)'
            <3> DEFINE home == Current([Quiet EXCEPT !.named = n])
            <3>1. home \in RunIds
                  BY <2>6 DEF Current, Homes, Quiet, TypeCommand
            <3> HIDE DEF home
            <3>2. /\ command' = [command EXCEPT ![s] = [Quiet EXCEPT !.pc = "load",
                                                           !.named = n, !.home = home]]
                  /\ execution' = [execution EXCEPT ![home] = {s}]
                  BY <2>6 DEF TypeCommand, home
            <3> QED BY <3>1, <3>2 DEF Quiet
      <2> QED BY <2>1, <2>2, <2>3, <2>4, <2>5, <2>6 DEF PointerStep
<1> QED BY <1>1, <1>2

LEMMA StraysStep ==
    ASSUME PointerInv, NEW s \in Shells, PointerStep(s)
    PROVE  StraysToNewer'
<1> USE RunPointerAssumption DEF PointerInv, PointerType, RunIds, InShell
<1>0. command[s] \in PointerCommands /\ NoHome \notin RunIds /\ Homed(s) BY DEF NoHome
<1>1. ASSUME NEW r \in RunIds, NEW new, SaveState(s, r, new),
             \/ r = command[s].home
             \/ command[s].named = NoHome /\ (command[s].home # NoHome => r >= command[s].home)
      PROVE  StraysToNewer'
      <2>1. CASE r = command[s].home BY <1>1, <2>1 DEF SaveState, StraysToNewer
      <2>2. CASE r # command[s].home
            <3> DEFINE a == [named |-> command[s].named, home |-> command[s].home, run |-> r]
            <3>1. away' = away \cup {a} BY <1>1, <2>2 DEF SaveState
            <3>2. a.named = NoHome /\ (a.home # NoHome => a.run > a.home)
                  BY <1>0, <1>1, <2>2 DEF PointerCommands, Homes
            <3> HIDE DEF a
            <3> QED BY <3>1, <3>2 DEF StraysToNewer
      <2> QED BY <2>1, <2>2
<1>2. CASE UNCHANGED away BY <1>2 DEF StraysToNewer
<1>3. CASE ResetRun(s) \/ FreezeRun(s)
      <2>1. PICK new : SaveState(s, pointer, new) BY <1>3 DEF ResetRun, FreezeRun
      <2>2. command[s].named = NoHome /\ command[s].home <= pointer
            BY <1>0, <1>3 DEF Homed, ResetRun, FreezeRun
      <2> QED BY <1>1, <2>1, <2>2
<1>4. CASE SaveRun(s)
      <2>1. PICK new : SaveState(s, command[s].work, new) BY <1>4 DEF SaveRun
      <2>2. command[s].work \in command[s].home .. pointer /\ command[s].home \in RunIds
            /\ (command[s].named # NoHome => command[s].work = command[s].home)
            BY <1>0, <1>4 DEF Homed, SaveRun
      <2> QED BY <1>1, <2>1, <2>2
<1>5. CASE InterruptRun(s) \/ Fails(s)
      <2>1. PICK new : SaveState(s, Current(command[s]), new)
            BY <1>5 DEF InterruptRun, Fails, HandleIn
      <2>2. Current(command[s]) \in RunIds BY <1>0 DEF Current, PointerCommands, Homes
      <2>3. \/ Current(command[s]) = command[s].home
            \/ /\ command[s].named = NoHome
               /\ command[s].home # NoHome => Current(command[s]) >= command[s].home
            BY <1>0, <1>5 DEF Homed, Current, PointerCommands, Homes, PointerPcs, InterruptRun, Fails,
               HandleIn
      <2> QED BY <1>1, <2>1, <2>2, <2>3
<1> QED BY <1>2, <1>3, <1>4, <1>5 DEF PointerStep, TypeRun, CreateRun, LockRun, LoadRun, TypeCommand

LEMMA PointerInvStep == PointerInv /\ [PointerNext]_pointerVars => PointerInv'
<1> SUFFICES ASSUME PointerInv, [PointerNext]_pointerVars PROVE PointerInv' OBVIOUS
<1>1. CASE PointerNext
      <2>1. PICK s \in Shells : PointerStep(s) BY <1>1 DEF PointerNext, PointerStep, Homes
      <2> QED BY <2>1, PointerTypeStep, HomedStep, LockedStep, StraysStep DEF PointerInv
<1>2. CASE UNCHANGED pointerVars
      BY <1>2 DEF pointerVars, PointerInv, PointerType, StraysToNewer, Homed, LockedAtHome
<1> QED BY <1>1, <1>2

\* A command given --run-id keeps to its run, another one strays only to a run
\* created later, and two stages never work on a run that both commands have for
\* their own (CommandsKeepApart, about _current_run_id and execution.lock of
\* agent/main.py), for every number of shells, runs and commands.
THEOREM CommandsStayApart ==
    PointerInit /\ [][PointerNext]_pointerVars => []CommandsKeepApart
<1>1. PointerInv => CommandsKeepApart
      <2> SUFFICES ASSUME PointerInv PROVE OneAtHome
          BY DEF PointerInv, CommandsKeepApart
      <2> SUFFICES ASSUME NEW s \in Shells, NEW t \in Shells, s # t,
                          command[s].pc = "save", command[t].pc = "save",
                          command[s].work = command[t].work,
                          command[s].home = command[s].work, command[t].home = command[s].work
                   PROVE  FALSE
          BY DEF OneAtHome
      <2>1. command[s].home \in Int /\ command[t].home \in Int
            BY DEF PointerInv, PointerType, Homed
      <2>2. execution[command[s].home] = {s} /\ execution[command[s].home] = {t}
            BY <2>1 DEF PointerInv, LockedAtHome
      <2> QED BY <2>2
<1> QED BY <1>1, PointerInvInit, PointerInvStep, PTL

-----------------------------------------------------------------------------
(* The probe and the launch: the processes form trees, which the grouping    *)
(* of the roots keeps apart, and while no process of a service died a run    *)
(* knows its own.                                                            *)

\* A set of numbers up to a bound has a greatest member.
LEMMA GreatestOf ==
    ASSUME NEW n \in Nat, NEW T \in SUBSET (0 .. n), T # {}
    PROVE  Max(T) \in T /\ \A k \in T : k <= Max(T)
<1> DEFINE U == {u \in 0 .. n : n - u \in T}
<1>1. U \subseteq Nat /\ U # {}
  <2>1. PICK t : t \in T OBVIOUS
  <2>2. n - t \in U BY <2>1
  <2> QED BY <2>2
<1>2. PICK m \in U : \A k \in U : m <= k
  <2> HIDE DEF U
  <2> QED BY <1>1, LeastOf
<1>3. n - m \in T /\ m \in 0 .. n OBVIOUS
<1>4. \A k \in T : n - m >= k
  <2> SUFFICES ASSUME NEW k \in T PROVE n - m >= k OBVIOUS
  <2>1. n - k \in U /\ k \in 0 .. n OBVIOUS
  <2>2. m <= n - k BY <1>2, <2>1
  <2> QED BY <1>3, <2>1, <2>2
<1>5. \E x \in T : \A y \in T : x >= y BY <1>3, <1>4
<1>6. Max(T) \in T /\ \A y \in T : Max(T) >= y BY <1>5 DEF Max
<1>7. \A k \in T : k \in Nat OBVIOUS
<1> QED BY <1>6, <1>7

\* A list of processes is a forest: every process was forked by one that was
\* there before it (rank), a child has the service of its parent, and its command
\* line says `vllm serve' only if its parent's does.
Forest(ps) ==
    /\ DOMAIN ps \subseteq Pids /\ ps \in [DOMAIN ps -> Process]
    /\ \E n \in Nat : DOMAIN ps \subseteq 1 .. n
    /\ \A p \in DOMAIN ps : ps[p].parent \in DOMAIN ps \cup {0}
    /\ \E rank \in [DOMAIN ps -> Nat] : \A p \in DOMAIN ps :
          ps[p].parent \in DOMAIN ps => rank[ps[p].parent] < rank[p]
    /\ \A p \in DOMAIN ps : ps[p].parent \in DOMAIN ps =>
          /\ ps[p].svc = ps[ps[p].parent].svc
          /\ ps[p].serve => ps[ps[p].parent].serve

Above(anc, ps) ==
    \A p \in DOMAIN ps :
        anc[p] = IF ps[p].parent \in DOMAIN ps THEN {ps[p].parent} \cup anc[ps[p].parent] ELSE {}

LEMMA AncestorsAre ==
    ASSUME NEW ps, Forest(ps)
    PROVE  Above(Ancestors(ps), ps)
<1> DEFINE D == DOMAIN ps
           Closed(T, p) == p \in T /\ \A x \in T : ps[x].parent \in D => ps[x].parent \in T
           Path(p) == {x \in D : \A T \in SUBSET D : Closed(T, p) => x \in T}
           Fcn(f) == [p \in D |-> LET q == ps[p].parent IN IF q \in D THEN {q} \cup f[q] ELSE {}]
           g == [p \in D |-> IF ps[p].parent \in D THEN Path(ps[p].parent) ELSE {}]
           anc == CHOOSE f : f = Fcn(f)
<1>1. ASSUME NEW q \in D PROVE Path(q) = {q} \cup g[q]
  <2>1. ASSUME NEW x \in Path(q), x # q PROVE x \in g[q]
    <3>1. ps[q].parent \in D
      <4> SUFFICES ASSUME ps[q].parent \notin D PROVE FALSE OBVIOUS
      <4>1. Closed({q}, q) /\ {q} \in SUBSET D OBVIOUS
      <4> HIDE DEF Closed
      <4>2. x \in {q} BY <2>1, <4>1
      <4> QED BY <2>1, <4>2
    <3>2. ASSUME NEW T \in SUBSET D, Closed(T, ps[q].parent) PROVE x \in T
      <4>1. Closed(T \cup {q}, q) BY <3>2
      <4>2. x \in T \cup {q} BY <4>1
      <4> QED BY <2>1, <4>2
    <3> QED BY <3>1, <3>2
  <2>2. ASSUME NEW x \in g[q] PROVE x \in Path(q)
    <3>1. ps[q].parent \in D /\ x \in Path(ps[q].parent) BY <2>2
    <3>2. ASSUME NEW T \in SUBSET D, Closed(T, q) PROVE x \in T
      <4>1. Closed(T, ps[q].parent) BY <3>1, <3>2
      <4> QED BY <3>1, <4>1
    <3> QED BY <3>1, <3>2
  <2>3. q \in Path(q) OBVIOUS
  <2> QED BY <2>1, <2>2, <2>3
<1>2. g = Fcn(g)
  <2> HIDE DEF Path
  <2> QED BY <1>1
<1>3. anc = Fcn(anc)
  <2> HIDE DEF Fcn, g
  <2> QED BY <1>2
<1>4. \A p \in D : anc[p] = IF ps[p].parent \in D THEN {ps[p].parent} \cup anc[ps[p].parent] ELSE {}
  <2> HIDE DEF anc
  <2> QED BY <1>3
<1>5. Ancestors(ps) = anc BY DEF Ancestors
<1> QED BY <1>4, <1>5 DEF Above

IsTop(anc, ps, p, t) == t \in {p} \cup anc[p] /\ ps[t].parent \notin DOMAIN ps

\* What the ancestors of a process are, and its topmost one.
Tree(anc, ps, p) ==
    /\ anc[p] \in SUBSET (DOMAIN ps)
    /\ p \notin anc[p]
    /\ \E t \in DOMAIN ps :
          /\ IsTop(anc, ps, p, t)
          /\ \A u : IsTop(anc, ps, p, u) => u = t
          /\ \A q \in anc[p] : IsTop(anc, ps, q, t)
    /\ \A q \in anc[p] : ps[q].svc = ps[p].svc /\ (ps[p].serve => ps[q].serve)
    /\ (\A q \in DOMAIN ps : ps[q].parent < q) => \A q \in anc[p] : q < p

LEMMA TreesAre ==
    ASSUME NEW ps, Forest(ps), NEW p \in DOMAIN ps
    PROVE  Tree(Ancestors(ps), ps, p)
<1> DEFINE D == DOMAIN ps
<1>1. PICK anc : anc = Ancestors(ps) OBVIOUS
<1>2. PICK rank \in [D -> Nat] : \A q \in D : ps[q].parent \in D => rank[ps[q].parent] < rank[q]
      BY DEF Forest
<1> DEFINE Low(q) == \A v \in anc[q] : rank[v] < rank[q]
           S == {n \in 0 .. rank[p] : \A q \in D : rank[q] <= n => Tree(anc, ps, q) /\ Low(q)}
<1>a. D \subseteq Nat /\ \A q \in D : ps[q].parent \in Nat
  <2>1. \A q \in D : ps[q].parent \in D \cup {0} BY DEF Forest
  <2> QED BY <2>1 DEF Forest
<1>3. ASSUME NEW q \in D, ps[q].parent \in D, Tree(anc, ps, ps[q].parent), Low(ps[q].parent)
      PROVE  Tree(anc, ps, q) /\ Low(q)
  <2>1. PICK u \in D : u = ps[q].parent BY <1>3
  <2>2. anc[q] = {u} \cup anc[u] BY <1>1, <1>3, <2>1, AncestorsAre DEF Above
  <2>3. Tree(anc, ps, u) BY <1>3, <2>1
  <2>a. anc[q] \in SUBSET D BY <2>1, <2>2, <2>3 DEF Tree
  <2>b. Low(q)
    <3> SUFFICES ASSUME NEW v \in anc[q] PROVE rank[v] < rank[q] OBVIOUS
    <3>1. rank[u] < rank[q] BY <1>2, <2>1
    <3>2. v = u \/ rank[v] < rank[u] BY <1>3, <2>1, <2>2
    <3>3. rank[v] \in Nat /\ rank[u] \in Nat /\ rank[q] \in Nat BY <2>a
    <3> QED BY <3>1, <3>2, <3>3
  <2>4. anc[q] \in SUBSET D /\ q \notin anc[q]
    <3>1. ~(rank[q] < rank[q]) BY <1>2
    <3> QED BY <2>a, <2>b, <3>1
  <2>5. PICK t \in D : /\ IsTop(anc, ps, u, t)
                       /\ \A v : IsTop(anc, ps, u, v) => v = t
                       /\ \A v \in anc[u] : IsTop(anc, ps, v, t)
        BY <2>3 DEF Tree
  <2>6. IsTop(anc, ps, q, t) BY <2>2, <2>5 DEF IsTop
  <2>7. \A v : IsTop(anc, ps, q, v) => v = t BY <1>3, <2>1, <2>2, <2>5 DEF IsTop
  <2>8. \A v \in anc[q] : IsTop(anc, ps, v, t) BY <2>2, <2>5
  <2>9. \A v \in anc[q] : ps[v].svc = ps[q].svc /\ (ps[q].serve => ps[v].serve)
    <3>1. ps[q].svc = ps[u].svc /\ (ps[q].serve => ps[u].serve) BY <1>3, <2>1 DEF Forest
    <3> QED BY <2>2, <2>3, <3>1 DEF Tree
  <2>10. (\A v \in D : ps[v].parent < v) => \A v \in anc[q] : v < q
    <3> SUFFICES ASSUME \A v \in D : ps[v].parent < v, NEW v \in anc[q] PROVE v < q OBVIOUS
    <3>1. u < q BY <2>1
    <3>2. v = u \/ v < u BY <2>2, <2>3 DEF Tree
    <3>3. v \in Nat /\ u \in Nat /\ q \in Nat BY <1>a, <2>4
    <3> QED BY <3>1, <3>2, <3>3
  <2>11. Tree(anc, ps, q) BY <2>4, <2>6, <2>7, <2>8, <2>9, <2>10 DEF Tree
  <2> QED BY <2>b, <2>11
<1>4. ASSUME NEW q \in D, ps[q].parent \notin D PROVE Tree(anc, ps, q) /\ Low(q)
  <2>1. anc[q] = {} BY <1>1, <1>4, AncestorsAre DEF Above
  <2> QED BY <1>4, <2>1 DEF Tree, IsTop
<1>b. rank[p] \in Nat /\ \A q \in D : rank[q] \in Nat OBVIOUS
<1>5. 0 \in S
  <2> SUFFICES ASSUME NEW q \in D, rank[q] <= 0 PROVE Tree(anc, ps, q) /\ Low(q) BY <1>b
  <2> HIDE DEF Low
  <2>1. ps[q].parent \notin D
    <3> SUFFICES ASSUME ps[q].parent \in D PROVE FALSE OBVIOUS
    <3>1. rank[ps[q].parent] < rank[q] /\ rank[ps[q].parent] \in Nat BY <1>2
    <3> QED BY <3>1, <1>b
  <2> QED BY <1>4, <2>1
<1>6. ASSUME NEW n \in 1 .. rank[p], n - 1 \in S PROVE n \in S
  <2> SUFFICES ASSUME NEW q \in D, rank[q] <= n PROVE Tree(anc, ps, q) /\ Low(q) BY <1>b
  <2>1. CASE ps[q].parent \notin D
    <3> HIDE DEF Low
    <3> QED BY <1>4, <2>1
  <2>2. CASE ps[q].parent \in D
    <3>1. rank[ps[q].parent] <= n - 1
      <4>1. rank[ps[q].parent] < rank[q] BY <1>2, <2>2
      <4> QED BY <1>b, <2>2, <4>1
    <3>2. Tree(anc, ps, ps[q].parent) /\ Low(ps[q].parent) BY <1>6, <2>2, <3>1
    <3> HIDE DEF Low
    <3> QED BY <1>3, <2>2, <3>2
  <2> QED BY <2>1, <2>2
<1>7. rank[p] \in S
  <2> HIDE DEF S
  <2> QED BY <1>b, <1>5, <1>6, InductionUpTo
<1>8. Tree(anc, ps, p) BY <1>7, <1>b
<1> QED BY <1>1, <1>8

\* The tree of a process has one top; its ancestors are of the same tree.
LEMMA TopIs ==
    ASSUME NEW ps, Forest(ps), NEW p \in DOMAIN ps
    PROVE  /\ Top(ps, p) \in DOMAIN ps /\ ps[Top(ps, p)].parent \notin DOMAIN ps
           /\ Top(ps, p) = p \/ Top(ps, p) \in Ancestors(ps)[p]
           /\ \A q \in Ancestors(ps)[p] : Top(ps, q) = Top(ps, p)
           /\ ps[Top(ps, p)].svc = ps[p].svc /\ (ps[p].serve => ps[Top(ps, p)].serve)
<1>1. PICK anc : anc = Ancestors(ps) OBVIOUS
<1>2. Tree(anc, ps, p) BY <1>1, TreesAre
<1>3. \A q \in DOMAIN ps : \A t : (IsTop(anc, ps, q, t) /\ \A u : IsTop(anc, ps, q, u) => u = t) => Top(ps, q) = t
  <2> SUFFICES ASSUME NEW q \in DOMAIN ps, NEW t, IsTop(anc, ps, q, t), \A u : IsTop(anc, ps, q, u) => u = t
               PROVE  Top(ps, q) = t
      OBVIOUS
  <2>1. t \in {q} \cup anc[q] /\ ps[t].parent \notin DOMAIN ps BY DEF IsTop
  <2>2. \A u \in {q} \cup anc[q] : ps[u].parent \notin DOMAIN ps => u = t BY DEF IsTop
  <2> QED BY <1>1, <2>1, <2>2 DEF Top
<1>4. PICK t \in DOMAIN ps : /\ IsTop(anc, ps, p, t)
                            /\ \A u : IsTop(anc, ps, p, u) => u = t
                            /\ \A q \in anc[p] : IsTop(anc, ps, q, t)
      BY <1>2 DEF Tree
<1>5. Top(ps, p) = t BY <1>3, <1>4
<1>6. ASSUME NEW q \in anc[p] PROVE Top(ps, q) = t
  <2>1. q \in DOMAIN ps BY <1>2 DEF Tree
  <2>2. Tree(anc, ps, q) BY <1>1, <2>1, TreesAre
  <2>3. PICK v : IsTop(anc, ps, q, v) /\ \A u : IsTop(anc, ps, q, u) => u = v BY <2>2 DEF Tree
  <2>4. IsTop(anc, ps, q, t) BY <1>4
  <2>5. v = t BY <2>3, <2>4
  <2> QED BY <1>3, <2>1, <2>3, <2>5
<1>7. t = p \/ t \in anc[p] BY <1>4 DEF IsTop
<1>8. ps[t].svc = ps[p].svc /\ (ps[p].serve => ps[t].serve) BY <1>2, <1>7 DEF Tree
<1>9. ps[t].parent \notin DOMAIN ps BY <1>4 DEF IsTop
<1> QED BY <1>1, <1>5, <1>6, <1>7, <1>8, <1>9

Ordered(ps) == \A p \in DOMAIN ps : ps[p].parent < p

\* The groups of the roots in rs.
Grouped(ps, groups, rs) ==
    /\ groups \in Seq(SUBSET rs)
    /\ \A p \in rs : \E i \in 1 .. Len(groups) : p \in groups[i]
    /\ \A i \in 1 .. Len(groups) : groups[i] # {}
    /\ \A i \in 1 .. Len(groups) : \A p, q \in groups[i] : Top(ps, p) = Top(ps, q)
    /\ Ordered(ps) => \A i, j \in 1 .. Len(groups) : i # j =>
          \A p \in groups[i], q \in groups[j] : Top(ps, p) # Top(ps, q)

LEMMA RootsAre ==
    ASSUME NEW ps, Forest(ps)
    PROVE  /\ Roots(ps) \subseteq DOMAIN ps /\ DOMAIN ps \subseteq Nat
           /\ \A p \in Roots(ps) : Top(ps, p) \in Roots(ps)
<1>1. \A p \in DOMAIN ps : ps[Top(ps, p)].svc = ps[p].svc /\ (ps[p].serve => ps[Top(ps, p)].serve)
                            /\ Top(ps, p) \in DOMAIN ps
      BY TopIs
<1>2. DOMAIN ps \subseteq Nat BY DEF Forest
<1> QED BY <1>1, <1>2 DEF Roots

LEMMA JoinGroups ==
    ASSUME NEW ps, Forest(ps), NEW n \in Roots(ps), NEW groups,
           Grouped(ps, groups, {p \in Roots(ps) : p < n})
    PROVE  Grouped(ps, Join(Ancestors(ps), groups, n), {p \in Roots(ps) : p <= n})
<1>1. PICK anc : anc = Ancestors(ps) OBVIOUS
<1>2. PICK rs : rs = {p \in Roots(ps) : p < n} OBVIOUS
<1>3. PICK new : new = {p \in Roots(ps) : p <= n} OBVIOUS
<1>4. /\ n \in DOMAIN ps /\ Roots(ps) \subseteq DOMAIN ps /\ DOMAIN ps \subseteq Nat
      /\ \A p \in Roots(ps) : Top(ps, p) \in Roots(ps)
      BY RootsAre
<1>5. new = rs \cup {n} /\ n \notin rs /\ rs \subseteq DOMAIN ps BY <1>2, <1>3, <1>4
<1>6. Grouped(ps, groups, rs) BY <1>2
<1>7. /\ groups \in Seq(SUBSET rs) /\ Len(groups) \in Nat /\ DOMAIN groups = 1 .. Len(groups)
      /\ \A i \in 1 .. Len(groups) : groups[i] \in SUBSET rs
      BY <1>6 DEF Grouped
<1>8. \A p \in DOMAIN ps : \A q \in anc[p] : Top(ps, q) = Top(ps, p) BY <1>1, TopIs
\* A group it is related to is of its tree.
<1>9. ASSUME NEW i \in 1 .. Len(groups), Related(anc, n, groups[i]), NEW q \in groups[i]
      PROVE  Top(ps, q) = Top(ps, n)
  <2>1. PICK v \in groups[i] : v \in anc[n] \/ n \in anc[v] BY <1>9 DEF Related
  <2>2. v \in DOMAIN ps BY <1>5, <1>7
  <2>3. Top(ps, v) = Top(ps, n) BY <1>4, <1>8, <2>1, <2>2
  <2> QED BY <1>6, <2>3 DEF Grouped
\* A group that is of its tree is related to it, or another one is.
<1>10. ASSUME Ordered(ps), NEW i \in 1 .. Len(groups), NEW q \in groups[i], Top(ps, q) = Top(ps, n)
       PROVE  Related(anc, n, groups[i])
  <2>1. PICK t : t = Top(ps, n) OBVIOUS
  <2>2. q \in rs /\ q \in DOMAIN ps /\ q # n BY <1>5, <1>7
  <2>3. CASE t = n
    <3>1. n \in anc[q] BY <1>1, <1>10, <2>1, <2>2, <2>3, TopIs
    <3> QED BY <3>1 DEF Related
  <2>4. CASE t # n
    <3>1. t \in anc[n] BY <1>1, <1>4, <2>1, <2>4, TopIs
    <3>2. Tree(anc, ps, n) BY <1>1, <1>4, TreesAre
    <3>3. t < n /\ t \in Roots(ps) BY <1>4, <1>10, <2>1, <3>1, <3>2 DEF Tree, Ordered
    <3>4. t \in rs BY <1>2, <3>3
    <3>5. PICK j \in 1 .. Len(groups) : t \in groups[j] BY <1>6, <3>4 DEF Grouped
    <3>6. Top(ps, t) = t BY <1>4, <1>8, <2>1, <3>1
    <3>7. j = i BY <1>6, <1>10, <2>1, <3>5, <3>6 DEF Grouped
    <3> QED BY <3>1, <3>5, <3>7 DEF Related
  <2> QED BY <2>3, <2>4
<1> DEFINE related == {i \in DOMAIN groups : Related(anc, n, groups[i])}
<1>11. CASE related = {}
  <2>1. PICK w : w = Append(groups, {n}) OBVIOUS
  <2>2. Join(anc, groups, n) = w BY <1>11, <2>1 DEF Join
  <2>3. /\ w \in Seq(SUBSET new) /\ Len(w) = Len(groups) + 1 /\ w[Len(w)] = {n}
        /\ \A i \in 1 .. Len(groups) : w[i] = groups[i]
    <3>1. groups \in Seq(SUBSET new) BY <1>5, <1>7
    <3>2. {n} \in SUBSET new BY <1>5
    <3> QED BY <2>1, <3>1, <3>2
  <2>4. \A i \in 1 .. Len(w) : i = Len(w) \/ i \in 1 .. Len(groups) BY <1>7, <2>3
  <2>5. \A p \in new : \E i \in 1 .. Len(w) : p \in w[i]
    <3> SUFFICES ASSUME NEW p \in new PROVE \E i \in 1 .. Len(w) : p \in w[i] OBVIOUS
    <3>1. CASE p = n
      <4>1. Len(w) \in 1 .. Len(w) BY <1>7, <2>3
      <4> QED BY <2>3, <3>1, <4>1
    <3>2. CASE p \in rs
      <4>1. PICK i \in 1 .. Len(groups) : p \in groups[i] BY <1>6, <3>2 DEF Grouped
      <4>2. i \in 1 .. Len(w) BY <1>7, <2>3
      <4> QED BY <2>3, <4>1, <4>2
    <3> QED BY <1>5, <3>1, <3>2
  <2>6. \A i \in 1 .. Len(w) : w[i] # {} /\ \A p, q \in w[i] : Top(ps, p) = Top(ps, q)
    <3> SUFFICES ASSUME NEW i \in 1 .. Len(w)
                 PROVE  w[i] # {} /\ \A p, q \in w[i] : Top(ps, p) = Top(ps, q)
        OBVIOUS
    <3>1. CASE i = Len(w) BY <2>3, <3>1
    <3>2. CASE i \in 1 .. Len(groups)
      <4>1. w[i] = groups[i] BY <2>3, <3>2
      <4> QED BY <1>6, <3>2, <4>1 DEF Grouped
    <3> QED BY <2>4, <3>1, <3>2
  <2>7. ASSUME Ordered(ps), NEW i \in 1 .. Len(groups), NEW q \in groups[i]
        PROVE  Top(ps, q) # Top(ps, n)
        BY <1>7, <1>10, <1>11, <2>7
  <2>8. ASSUME Ordered(ps), NEW i \in 1 .. Len(w), NEW j \in 1 .. Len(w), i # j,
               NEW p \in w[i], NEW q \in w[j]
        PROVE  Top(ps, p) # Top(ps, q)
    <3>1. CASE i = Len(w)
      <4>1. j \in 1 .. Len(groups) /\ p = n /\ q \in groups[j] BY <2>3, <2>4, <2>8, <3>1
      <4> QED BY <2>7, <2>8, <4>1
    <3>2. CASE j = Len(w)
      <4>1. i \in 1 .. Len(groups) /\ q = n /\ p \in groups[i] BY <2>3, <2>4, <2>8, <3>2
      <4> QED BY <2>7, <2>8, <4>1
    <3>3. CASE i # Len(w) /\ j # Len(w)
      <4>1. i \in 1 .. Len(groups) /\ j \in 1 .. Len(groups) /\ p \in groups[i] /\ q \in groups[j]
            BY <2>3, <2>4, <2>8, <3>3
      <4> QED BY <1>6, <2>8, <4>1 DEF Grouped
    <3> QED BY <3>1, <3>2, <3>3
  <2>9. Grouped(ps, w, new) BY <2>3, <2>5, <2>6, <2>8 DEF Grouped
  <2> QED BY <1>1, <1>3, <2>2, <2>9
<1>12. CASE related # {}
  <2>1. PICK m : m = CHOOSE i \in related : \A j \in related : i <= j OBVIOUS
  <2>2. m \in related
    <3>1. related \subseteq Nat BY <1>7
    <3>2. \E i \in related : \A j \in related : i <= j
      <4> HIDE DEF related
      <4> QED BY <1>12, <3>1, LeastOf
    <3> HIDE DEF related
    <3> QED BY <2>1, <3>2
  <2>3. PICK w : w = [groups EXCEPT ![m] = @ \cup {n}] OBVIOUS
  <2>4. Join(anc, groups, n) = w BY <1>12, <2>1, <2>3 DEF Join
  <2>5. m \in 1 .. Len(groups) /\ Related(anc, n, groups[m]) BY <1>7, <2>2
  <2>6. /\ Len(w) = Len(groups) /\ w[m] = groups[m] \cup {n}
        /\ \A i \in 1 .. Len(groups) : i # m => w[i] = groups[i]
        BY <1>7, <2>3, <2>5
  <2>7. w \in Seq(SUBSET new)
    <3>1. \A i \in 1 .. Len(groups) : w[i] \in SUBSET new BY <1>5, <1>7, <2>5, <2>6
    <3>2. w \in [1 .. Len(groups) -> SUBSET new] BY <1>7, <2>3, <3>1
    <3> QED BY <1>7, <3>2
  <2>8. \A i \in 1 .. Len(w) : groups[i] \subseteq w[i] /\ i \in 1 .. Len(groups) BY <2>6
  <2>9. \A p \in new : \E i \in 1 .. Len(w) : p \in w[i]
    <3> SUFFICES ASSUME NEW p \in new PROVE \E i \in 1 .. Len(w) : p \in w[i] OBVIOUS
    <3>1. CASE p = n BY <2>5, <2>6, <3>1
    <3>2. CASE p \in rs
      <4>1. PICK i \in 1 .. Len(groups) : p \in groups[i] BY <1>6, <3>2 DEF Grouped
      <4> QED BY <2>6, <2>8, <4>1
    <3> QED BY <1>5, <3>1, <3>2
  \* What a group holds is of the tree it was of.
  <2>10. \A i \in 1 .. Len(w) : \A p \in w[i] : \E q \in groups[i] : Top(ps, q) = Top(ps, p)
    <3> SUFFICES ASSUME NEW i \in 1 .. Len(w), NEW p \in w[i] PROVE \E q \in groups[i] : Top(ps, q) = Top(ps, p)
        OBVIOUS
    <3>1. CASE p \in groups[i] BY <3>1
    <3>2. CASE p \notin groups[i]
      <4>1. i = m /\ p = n BY <2>6, <3>2
      <4>2. PICK q : q \in groups[m] BY <1>6, <2>5 DEF Grouped
      <4> QED BY <1>9, <2>5, <4>1, <4>2
    <3> QED BY <3>1, <3>2
  <2>11. \A i \in 1 .. Len(w) : w[i] # {} BY <1>6, <2>6, <2>8 DEF Grouped
  <2>12. ASSUME NEW i \in 1 .. Len(w), NEW p \in w[i], NEW q \in w[i] PROVE Top(ps, p) = Top(ps, q)
    <3>1. PICK v \in groups[i], u \in groups[i] : Top(ps, v) = Top(ps, p) /\ Top(ps, u) = Top(ps, q)
          BY <2>10
    <3> QED BY <1>6, <2>8, <3>1 DEF Grouped
  <2>13. ASSUME Ordered(ps), NEW i \in 1 .. Len(w), NEW j \in 1 .. Len(w), i # j,
                NEW p \in w[i], NEW q \in w[j]
         PROVE  Top(ps, p) # Top(ps, q)
    <3>1. PICK v \in groups[i], u \in groups[j] : Top(ps, v) = Top(ps, p) /\ Top(ps, u) = Top(ps, q)
          BY <2>10
    <3>2. i \in 1 .. Len(groups) /\ j \in 1 .. Len(groups) BY <2>8
    <3>3. \A x, y \in 1 .. Len(groups) : x # y => \A a \in groups[x], b \in groups[y] : Top(ps, a) # Top(ps, b)
          BY <1>6, <2>13 DEF Grouped
    <3>4. Top(ps, v) # Top(ps, u) BY <2>13, <3>1, <3>2, <3>3
    <3> QED BY <3>1, <3>4
  <2>14. Grouped(ps, w, new) BY <2>7, <2>9, <2>11, <2>12, <2>13 DEF Grouped
  <2> QED BY <1>1, <1>3, <2>4, <2>14
<1> QED BY <1>11, <1>12

LEMMA GroupsAre ==
    ASSUME NEW ps, Forest(ps)
    PROVE  Grouped(ps, Groups(ps), Roots(ps))
<1> DEFINE anc == Ancestors(ps)
           last == Max(Roots(ps) \cup {0})
           rs(n) == {p \in Roots(ps) : p <= n}
           Next(n, v) == IF n \in Roots(ps) THEN Join(anc, v, n) ELSE v
           Fcn(f) == [n \in 0 .. last |->
                        IF n = 0 THEN <<>> ELSE IF n \in Roots(ps) THEN Join(anc, f[n - 1], n) ELSE f[n - 1]]
           of == CHOOSE f : f = Fcn(f)
           V == Seq(SUBSET Roots(ps))
           step == [p \in (1 .. last) \X V |-> Next(p[1], p[2])]
           Right == {n \in 0 .. last : Grouped(ps, of[n], rs(n))}
<1>0. Roots(ps) \subseteq DOMAIN ps /\ DOMAIN ps \subseteq Nat /\ 0 \notin DOMAIN ps
      BY RootsAre DEF Forest
<1>1. last \in Nat /\ \A p \in Roots(ps) : p <= last
  <2>1. PICK n \in Nat : DOMAIN ps \subseteq 1 .. n BY DEF Forest
  <2>2. Roots(ps) \cup {0} \subseteq 0 .. n BY <1>0, <2>1
  <2>3. PICK T : T = Roots(ps) \cup {0} OBVIOUS
  <2>4. Max(T) \in T /\ \A k \in T : k <= Max(T) BY <2>1, <2>2, <2>3, GreatestOf
  <2> QED BY <1>0, <2>3, <2>4
<1> HIDE DEF last, anc
<1>2. step \in [(1 .. last) \X V -> V]
  <2> SUFFICES ASSUME NEW n \in 1 .. last, NEW v \in V PROVE Next(n, v) \in V OBVIOUS
  <2>1. CASE n \notin Roots(ps) BY <2>1
  <2>2. CASE n \in Roots(ps)
    <3>1. Next(n, v) = Join(anc, v, n) BY <2>2
    <3>2. Append(v, {n}) \in V BY <2>2
    <3>3. ASSUME NEW i PROVE [v EXCEPT ![i] = @ \cup {n}] \in V
      <4>1. PICK w : w = [k \in 1 .. Len(v) |-> IF k = i THEN v[k] \cup {n} ELSE v[k]] OBVIOUS
      <4>2. DOMAIN v = 1 .. Len(v) BY <2>2
      <4>3. w = [v EXCEPT ![i] = @ \cup {n}] BY <4>1, <4>2
      <4>4. \A k \in 1 .. Len(v) : w[k] \in SUBSET Roots(ps) BY <2>2, <4>1
      <4>5. w \in [1 .. Len(v) -> SUBSET Roots(ps)] BY <4>1, <4>4
      <4>6. w \in V BY <4>5
      <4> QED BY <4>3, <4>6
    <3> HIDE DEF V
    <3> QED BY <3>1, <3>2, <3>3 DEF Join
  <2> QED BY <2>1, <2>2
<1>3. PICK g : Walks(g, V, <<>>, last, step)
  <2>1. <<>> \in V OBVIOUS
  <2> HIDE DEF step, V
  <2> QED BY <1>1, <1>2, <2>1, Recursion
<1>4. g = Fcn(g)
  <2>1. \A i \in 1 .. last : g[i] = Next(i, g[i - 1])
    <3>1. \A i \in 1 .. last, x \in V : step[<<i, x>>] = Next(i, x) OBVIOUS
    <3> HIDE DEF step, V, Next
    <3>2. ASSUME NEW i \in 1 .. last PROVE i - 1 \in 0 .. last /\ g[i - 1] \in V
          BY <1>1, <1>3 DEF Walks
    <3> QED BY <1>3, <3>1, <3>2 DEF Walks
  <2>2. DOMAIN g = 0 .. last /\ g = [i \in 0 .. last |-> g[i]] /\ g[0] = <<>>
        BY <1>3 DEF Walks
  <2> QED BY <1>1, <2>1, <2>2
<1>5. of = Fcn(of)
  <2> HIDE DEF Fcn
  <2> QED BY <1>4
<1>6. of[0] = <<>> /\ \A i \in 1 .. last : of[i] = Next(i, of[i - 1])
  <2> HIDE DEF of
  <2> QED BY <1>1, <1>5
<1>7. Groups(ps) = of[last] BY DEF Groups, of, last, anc
<1> HIDE DEF of, Fcn, step
<1>8. 0 \in Right
  <2>1. Len(<<>>) = 0 /\ <<>> \in Seq(SUBSET {}) OBVIOUS
  <2>2. PICK none : none = <<>> /\ none \in Seq(SUBSET {}) /\ Len(none) = 0 BY <2>1
  <2>3. rs(0) = {} BY <1>0
  <2>4. Grouped(ps, none, {}) BY <2>2 DEF Grouped
  <2>5. Grouped(ps, of[0], rs(0)) BY <1>6, <2>2, <2>3, <2>4
  <2> QED BY <1>1, <2>5
<1>9. ASSUME NEW n \in 1 .. last, n - 1 \in Right PROVE n \in Right
  <2>0. n \in 0 .. last /\ n \in Nat BY <1>1
  <2>1. Grouped(ps, of[n - 1], rs(n - 1)) /\ of[n] = Next(n, of[n - 1]) BY <1>6, <1>9
  <2>2. PICK v : v = of[n - 1] OBVIOUS
  <2>3. CASE n \in Roots(ps)
    <3>1. rs(n - 1) = {p \in Roots(ps) : p < n} BY <1>0, <2>0
    <3>2. Grouped(ps, Join(Ancestors(ps), v, n), {p \in Roots(ps) : p <= n})
      <4>1. Grouped(ps, v, {p \in Roots(ps) : p < n}) BY <2>1, <2>2, <3>1
      <4> QED BY <2>3, <4>1, JoinGroups
    <3>3. of[n] = Join(Ancestors(ps), v, n) BY <2>1, <2>2, <2>3 DEF anc
    <3> QED BY <2>0, <3>2, <3>3
  <2>4. CASE n \notin Roots(ps)
    <3>1. rs(n - 1) = rs(n) BY <1>0, <2>0, <2>4
    <3>2. of[n] = of[n - 1] BY <2>1, <2>4
    <3>3. Grouped(ps, of[n], rs(n)) BY <2>1, <3>1, <3>2
    <3> QED BY <2>0, <3>3
  <2> QED BY <2>3, <2>4
<1>10. last \in Right
  <2> HIDE DEF Right
  <2> QED BY <1>1, <1>8, <1>9, InductionUpTo
<1>11. rs(last) = Roots(ps) BY <1>1
<1>12. Grouped(ps, of[last], Roots(ps)) BY <1>10, <1>11
<1> QED BY <1>7, <1>12

\* The root of a group that speaks for it is one of its members, and has no
\* ancestor if some member has none.
LEMMA TopRootIs ==
    ASSUME NEW ps, Forest(ps), NEW group \in SUBSET (DOMAIN ps), group # {}
    PROVE  /\ TopRoot(ps, group) \in group
           /\ (\E p \in group : ps[p].parent \notin DOMAIN ps) => ps[TopRoot(ps, group)].parent \notin DOMAIN ps
<1> DEFINE anc == Ancestors(ps)
           depth(p) == Cardinality(anc[p])
           Best(p) == \A q \in group : depth(p) < depth(q) \/ (depth(p) = depth(q) /\ p <= q)
           Depths == {depth(p) : p \in group}
<1>0. DOMAIN ps \subseteq Nat BY DEF Forest
<1>1. \A p \in DOMAIN ps : IsFiniteSet(anc[p]) /\ depth(p) \in Nat
  <2>1. PICK n \in Nat : DOMAIN ps \subseteq 1 .. n BY DEF Forest
  <2>2. IsFiniteSet(1 .. n) BY <2>1, FS_Interval
  <2>3. \A p \in DOMAIN ps : anc[p] \subseteq 1 .. n BY <2>1, TreesAre DEF Tree
  <2>4. \A p \in DOMAIN ps : IsFiniteSet(anc[p]) BY <2>2, <2>3, FS_Subset
  <2> HIDE DEF anc
  <2> QED BY <2>4, FS_CardinalityType
<1> HIDE DEF depth
<1>2. PICK m \in Depths : \A k \in Depths : m <= k
  <2>1. Depths \subseteq Nat /\ Depths # {} BY <1>1
  <2> HIDE DEF Depths
  <2> QED BY <2>1, LeastOf
<1>3. PICK p \in {q \in group : depth(q) = m} : \A k \in {q \in group : depth(q) = m} : p <= k
  <2>1. {q \in group : depth(q) = m} \subseteq Nat /\ {q \in group : depth(q) = m} # {} BY <1>0
  <2>2. PICK T : T = {q \in group : depth(q) = m} OBVIOUS
  <2> QED BY <2>1, <2>2, LeastOf
<1>4. Best(p)
  <2> SUFFICES ASSUME NEW q \in group PROVE depth(p) < depth(q) \/ (depth(p) = depth(q) /\ p <= q) OBVIOUS
  <2>1. depth(q) \in Depths OBVIOUS
  <2>2. m <= depth(q) /\ depth(q) \in Nat /\ m \in Nat BY <1>1, <1>2, <2>1
  <2> QED BY <1>3, <2>2
<1>5. TopRoot(ps, group) = CHOOSE q \in group : Best(q) BY DEF TopRoot, depth
<1>6. TopRoot(ps, group) \in group /\ Best(TopRoot(ps, group))
  <2> HIDE DEF Best
  <2> QED BY <1>3, <1>4, <1>5
<1>7. ASSUME NEW q \in group, ps[q].parent \notin DOMAIN ps PROVE ps[TopRoot(ps, group)].parent \notin DOMAIN ps
  <2>1. PICK t : t = TopRoot(ps, group) OBVIOUS
  <2>2. Above(anc, ps) BY AncestorsAre
  <2>3. anc[q] = {} BY <1>7, <2>2 DEF Above
  <2>4. depth(q) = 0 BY <2>3, FS_EmptySet DEF depth
  <2>5. depth(t) = 0 /\ t \in DOMAIN ps BY <1>1, <1>6, <2>1, <2>4
  <2>6. anc[t] = {} BY <1>1, <2>5, FS_EmptySet DEF depth
  <2>7. ps[t].parent \notin DOMAIN ps BY <2>2, <2>5, <2>6 DEF Above
  <2> QED BY <2>1, <2>7
<1> QED BY <1>6, <1>7

\* As long as no process died, a service has the process it was launched with,
\* whose command line says `vllm serve'; a probe that is to decide has it in its
\* list; and no probe that found nothing to be there is acted on.
ServeIn(ps) == \E p \in DOMAIN ps : ps[p].svc = "own" /\ ps[p].serve

OwnIsSeen ==
    /\ upset \in BOOLEAN
    /\ ~upset /\ Of("own") # {} =>
         /\ ServeIn(procs)
         /\ pc = "endpoint" => ServeIn(seen.ps)
         /\ pc # "launch" /\ ~(pc = "decided" /\ result = "need_start")

\* A new process leaves the others alone.
LEMMA WithOne ==
    ASSUME NEW p \in NewPids, NEW rec, procs' = With(p, rec)
    PROVE  /\ p \notin Alive /\ Alive' = Alive \cup {p} /\ procs'[p] = rec
           /\ \A q \in Alive : procs'[q] = procs[q]
BY DEF NewPids, With, Alive

LEMMA ServeStays ==
    ASSUME ServeIn(procs), NEW p \in NewPids, NEW rec, procs' = With(p, rec)
    PROVE  ServeIn(procs)'
BY WithOne DEF ServeIn, Alive

LEMMA OwnIsSeenStep == OwnIsSeen /\ [ProbeNext]_probeVars => OwnIsSeen'
<1> SUFFICES ASSUME OwnIsSeen, [ProbeNext]_probeVars PROVE OwnIsSeen'
  OBVIOUS
<1> USE DEF OwnIsSeen
<1>1. ASSUME UNCHANGED <<procs, upset>>,
             pc' = "endpoint" => pc = "endpoint" /\ UNCHANGED seen,
             pc' # "launch", pc' = "decided" => result' # "need_start"
      PROVE  OwnIsSeen'
  BY <1>1 DEF Of, Alive, ServeIn
<1>2. CASE OtherStarts
  <2>1. PICK p \in NewPids : procs' = With(p, [parent |-> 0, svc |-> "other", serve |-> TRUE])
    BY <1>2 DEF OtherStarts
  <2>2. UNCHANGED agent /\ upset' \in BOOLEAN /\ (~upset' => ~upset)
    BY <1>2 DEF OtherStarts, TwoOnPort
  <2>3. Of("own")' # {} => Of("own") # {}
    BY <2>1, WithOne DEF Of
  <2>4. ServeIn(procs) => ServeIn(procs)'
    BY <2>1, ServeStays
  <2> QED
    BY <2>2, <2>3, <2>4 DEF agent
<1>3. CASE Forks
  <2>1. PICK p \in Alive, c \in NewPids, serve \in BOOLEAN :
          procs' = With(c, [parent |-> p, svc |-> procs[p].svc, serve |-> serve /\ procs[p].serve])
    BY <1>3 DEF Forks
  <2>2. UNCHANGED agent /\ UNCHANGED upset
    BY <1>3 DEF Forks
  <2>3. Of("own")' # {} => Of("own") # {}
    BY <2>1, WithOne DEF Of
  <2>4. ServeIn(procs) => ServeIn(procs)'
    BY <2>1, ServeStays
  <2> QED
    BY <2>2, <2>3, <2>4 DEF agent
<1>4. CASE Binds \/ Answers \/ UNCHANGED probeVars
  BY <1>4 DEF Binds, Answers, probeVars, world, agent, Of, Alive, ServeIn
<1>5. CASE Dies
  BY <1>5 DEF Dies
<1>6. CASE Start
  BY <1>1, <1>6 DEF Start, world
<1>7. CASE ReadTable
  BY <1>1, <1>7 DEF ReadTable, Decides, Asks, world
<1>8. CASE ReadProcesses
  BY <1>8 DEF ReadProcesses, Asks, At, world, Of, Alive, ServeIn
<1>9. CASE ReadEndpoint
  <2>1. /\ At("endpoint") /\ UNCHANGED <<procs, upset>> /\ pc' = "decided"
        /\ result' \in Decisions(seen.ps, seen.table, listener)
    BY <1>9 DEF ReadEndpoint, world
  <2>2. ASSUME ServeIn(seen.ps) PROVE result' # "need_start"
    <3>1. Roots(seen.ps) # {}
      BY <2>2 DEF ServeIn, Roots, UsesPort
    <3>2. \A occupied, answered : JudgeTree(occupied, answered) # "need_start"
      BY DEF JudgeTree
    <3>3. \A group : JudgeGroup(seen.ps, seen.table, listener, group) # "need_start"
      BY <3>2 DEF JudgeGroup
    <3> QED
      BY <2>1, <3>1, <3>3 DEF Decisions
  <2> QED
    BY <2>1, <2>2 DEF At, Of, Alive, ServeIn
<1>10. CASE ProbeFails
  BY <1>1, <1>10 DEF ProbeFails, Decides, world
<1>11. CASE HandleDecision
  BY <1>11 DEF HandleDecision, At, WaitHealth, Block, Ensured, Of, Alive, ServeIn
<1>12. CASE Launch
  <2>1. CASE UNCHANGED <<procs, upset>> /\ pc' = "blocked"
    BY <1>1, <2>1
  <2>2. CASE /\ pc' = "probe"
             /\ upset' = (upset \/ (Of("other") # {} /\ other.port) \/ Of("own") # {})
             /\ \E p \in NewPids :
                  procs' = With(p, [parent |-> 0, svc |-> "own", serve |-> TRUE])
    <3>1. PICK p \in NewPids : procs' = With(p, [parent |-> 0, svc |-> "own", serve |-> TRUE])
      BY <2>2
    <3>2. p \in Alive' /\ procs'[p].svc = "own" /\ procs'[p].serve
      BY <3>1, WithOne
    <3>3. ServeIn(procs)'
      BY <3>2 DEF ServeIn, Alive
    <3> QED
      BY <2>2, <3>3
  <2> QED
    BY <1>12, <2>1, <2>2 DEF Launch, Block, WaitHealth
<1>13. CASE HealthAttempt
  BY <1>13 DEF HealthAttempt, At, world, Of, Alive, ServeIn
<1> QED
  BY <1>2, <1>3, <1>4, <1>5, <1>6, <1>7, <1>8, <1>9, <1>10, <1>11, <1>12, <1>13 DEF ProbeNext

\* What holds of the processes and of what a probe has read.
ProbeType ==
    /\ Forest(procs) /\ Forest(seen.ps)
    /\ seen = [table |-> seen.table, ps |-> seen.ps, answered |-> seen.answered]
    /\ listener \in {"none", "own", "other"} /\ other \in Others
    /\ upset \in BOOLEAN
    /\ holder \in [Npus -> Nat] /\ seen.table \in [Npus -> Nat]

\* A table of NPUs gives the run's service the wanted ones only, and all of them
\* to one that answers.
TableFits(table, answered) ==
    /\ \A d \in Npus : table[d] = 0 \/
          (table[d] \in Alive /\ (procs[table[d]].svc = "own" => d \in Wanted))
    /\ answered = "own" => \A d \in Wanted : table[d] \in Of("own")
    /\ answered = "other" => Of("other") # {} /\ other.port

\* As long as no process died and no two services share the port: pids grow, the
\* run's service is one tree with its launched process on top, ...
WorldFits ==
    /\ Ordered(procs) /\ \A p \in Alive, q \in Pids \ Alive : p < q
    /\ TableFits(holder, listener)
    /\ \A p, q \in Of("own") : procs[p].parent = 0 /\ procs[q].parent = 0 => p = q
    /\ \A p \in Of("own") : procs[p].parent = 0 => procs[p].serve
    /\ Of("own") # {} /\ other.port => Of("other") = {}

\* ... and what a probe has read, or has decided, is still so.
SeenFits ==
    /\ pc \in {"ps", "endpoint"} => TableFits(seen.table, seen.answered)
    /\ pc = "endpoint" =>
          /\ \A p \in DOMAIN seen.ps : p \in Alive /\ seen.ps[p] = procs[p]
          /\ \A d \in Npus : seen.table[d] # 0 => seen.table[d] \in DOMAIN seen.ps
    /\ pc = "launch" => result = "none"
    /\ pc = "ready" => result = "already_running"
    /\ pc \in {"decided", "blocked"} /\ result = "device_mismatch" /\ Of("own") # {} =>
          seen.answered = "late" \/ Of("other") # {}
    /\ pc \in {"decided", "ready"} /\ result = "already_running" =>
          other.options = "same" \/ Of("own") # {}

ProbeInv == ProbeType /\ (~upset => WorldFits /\ SeenFits)

LEMMA ForestWith ==
    ASSUME Forest(procs), NEW p \in NewPids, NEW rec \in Process, procs' = With(p, rec),
           rec.parent \in Alive \cup {0},
           rec.parent \in Alive =>
              rec.svc = procs[rec.parent].svc /\ (rec.serve => procs[rec.parent].serve)
    PROVE  Forest(procs')
<1>1. PICK new : new = procs' OBVIOUS
<1>2. /\ DOMAIN new = Alive \cup {p} /\ p \notin Alive /\ p \in Pids /\ p \in Nat \ {0}
      /\ new[p] = rec /\ \A q \in Alive : new[q] = procs[q]
      /\ new = [q \in DOMAIN new |-> new[q]]
      BY <1>1, ServiceProbeAssumption DEF With, NewPids, Alive
<1>3. \A q \in Alive : procs[q] \in Process /\ procs[q].parent \in Alive \cup {0} BY DEF Forest, Alive
<1>4. new \in [DOMAIN new -> Process] /\ DOMAIN new \subseteq Pids BY <1>2, <1>3 DEF Forest, Alive
<1>5. \E n \in Nat : DOMAIN new \subseteq 1 .. n
  <2>1. PICK n \in Nat : Alive \subseteq 1 .. n BY DEF Forest, Alive
  <2>2. DOMAIN new \subseteq 1 .. n + p BY <1>2, <2>1
  <2>3. n + p \in Nat BY <1>2, <2>1
  <2> QED BY <2>2, <2>3
<1>6. \E rank \in [DOMAIN new -> Nat] : \A q \in DOMAIN new :
          new[q].parent \in DOMAIN new => rank[new[q].parent] < rank[q]
  <2>1. PICK rank \in [Alive -> Nat] : \A q \in Alive :
          procs[q].parent \in Alive => rank[procs[q].parent] < rank[q]
        BY DEF Forest, Alive
  <2>2. PICK top \in Nat : rec.parent \in Alive => top = rank[rec.parent] + 1
    <3>1. CASE rec.parent \in Alive
      <4>1. rank[rec.parent] + 1 \in Nat BY <3>1
      <4> QED BY <4>1
    <3>2. CASE rec.parent \notin Alive BY <3>2
    <3> QED BY <3>1, <3>2
  <2>3. PICK r : r = [q \in DOMAIN new |-> IF q = p THEN top ELSE rank[q]] OBVIOUS
  <2>4. r \in [DOMAIN new -> Nat] /\ r[p] = top /\ \A q \in Alive : r[q] = rank[q] BY <1>2, <2>3
  <2>5. ASSUME NEW q \in DOMAIN new, new[q].parent \in DOMAIN new PROVE r[new[q].parent] < r[q]
    <3>1. CASE q = p
      <4>1. rec.parent \in Alive BY <1>2, <2>5, <3>1
      <4>2. r[rec.parent] = rank[rec.parent] /\ rank[rec.parent] \in Nat BY <2>4, <4>1
      <4> QED BY <1>2, <2>2, <2>4, <3>1, <4>1, <4>2
    <3>2. CASE q # p
      <4>1. q \in Alive /\ procs[q].parent \in Alive BY <1>2, <1>3, <2>5, <3>2
      <4> QED BY <1>2, <2>1, <2>4, <4>1
    <3> QED BY <3>1, <3>2
  <2> QED BY <2>4, <2>5
<1>7. \A q \in DOMAIN new : new[q].parent \in DOMAIN new \cup {0} BY <1>2, <1>3
<1>8. ASSUME NEW q \in DOMAIN new, new[q].parent \in DOMAIN new
      PROVE  new[q].svc = new[new[q].parent].svc /\ (new[q].serve => new[new[q].parent].serve)
  <2>1. CASE q = p
    <3>1. rec.parent \in Alive BY <1>2, <1>8, <2>1
    <3>2. new[q] = rec /\ new[new[q].parent] = procs[rec.parent] BY <1>2, <2>1, <3>1
    <3> QED BY <3>1, <3>2
  <2>2. CASE q # p
    <3>1. q \in Alive /\ procs[q].parent \in Alive BY <1>2, <1>3, <1>8, <2>2
    <3>2. procs[q].svc = procs[procs[q].parent].svc /\ (procs[q].serve => procs[procs[q].parent].serve)
          BY <3>1 DEF Forest, Alive
    <3> QED BY <1>2, <3>1, <3>2
  <2> QED BY <2>1, <2>2
<1>9. Forest(new) BY <1>4, <1>5, <1>6, <1>7, <1>8 DEF Forest
<1> QED BY <1>1, <1>9

LEMMA ForestWithout ==
    ASSUME Forest(procs), NEW p \in Alive, procs' = Without(p)
    PROVE  Forest(procs')
<1>1. PICK new : new = procs' OBVIOUS
<1>2. /\ DOMAIN new = Alive \ {p} /\ new = [q \in DOMAIN new |-> new[q]]
      /\ \A q \in DOMAIN new : new[q] = IF procs[q].parent = p THEN [procs[q] EXCEPT !.parent = 0] ELSE procs[q]
      BY <1>1 DEF Without
<1>3. \A q \in Alive : procs[q] \in Process /\ procs[q].parent \in Alive \cup {0} BY DEF Forest, Alive
<1>4. \A q \in DOMAIN new :
        /\ new[q] \in Process /\ new[q].svc = procs[q].svc /\ new[q].serve = procs[q].serve
        /\ new[q].parent = 0 \/ (new[q].parent = procs[q].parent /\ procs[q].parent # p)
      BY <1>2, <1>3 DEF Process
<1>0. 0 \notin Alive /\ \E n \in Nat : Alive \subseteq 1 .. n BY DEF Forest, Alive
<1>5. new \in [DOMAIN new -> Process] /\ DOMAIN new \subseteq Pids BY <1>2, <1>4 DEF Forest, Alive
<1>6. \E n \in Nat : DOMAIN new \subseteq 1 .. n BY <1>0, <1>2
<1>7. \A q \in DOMAIN new : new[q].parent \in DOMAIN new \cup {0} BY <1>2, <1>3, <1>4
<1>8. \A q \in DOMAIN new : new[q].parent \in DOMAIN new =>
        q \in Alive /\ procs[q].parent \in Alive /\ new[q].parent = procs[q].parent
      BY <1>0, <1>2, <1>4
<1>9. \E rank \in [DOMAIN new -> Nat] : \A q \in DOMAIN new :
          new[q].parent \in DOMAIN new => rank[new[q].parent] < rank[q]
  <2>1. PICK rank \in [Alive -> Nat] : \A q \in Alive :
          procs[q].parent \in Alive => rank[procs[q].parent] < rank[q]
        BY DEF Forest, Alive
  <2>2. PICK r : r = [q \in DOMAIN new |-> rank[q]] OBVIOUS
  <2>3. r \in [DOMAIN new -> Nat] /\ \A q \in DOMAIN new : r[q] = rank[q] BY <1>2, <2>2
  <2> QED BY <1>8, <2>1, <2>3
<1>10. ASSUME NEW q \in DOMAIN new, new[q].parent \in DOMAIN new
       PROVE  new[q].svc = new[new[q].parent].svc /\ (new[q].serve => new[new[q].parent].serve)
  <2>1. procs[q].svc = procs[procs[q].parent].svc /\ (procs[q].serve => procs[procs[q].parent].serve)
        BY <1>8, <1>10 DEF Forest, Alive
  <2> QED BY <1>4, <1>8, <1>10, <2>1
<1>11. Forest(new) BY <1>5, <1>6, <1>7, <1>9, <1>10 DEF Forest
<1> QED BY <1>1, <1>11

LEMMA ProbeInvInit == ProbeInit => ProbeInv
<1> SUFFICES ASSUME ProbeInit PROVE ProbeInv OBVIOUS
<1>1. DOMAIN procs = {} /\ DOMAIN NothingSeen.ps = {} BY DEF ProbeInit, NothingSeen
<1>2. ASSUME NEW ps, ps = <<>>, DOMAIN ps = {} PROVE Forest(ps)
  <2>1. ps \in [DOMAIN ps -> Process] BY <1>2
  <2>2. DOMAIN ps \subseteq 1 .. 0 BY <1>2
  <2>3. ps \in [DOMAIN ps -> Nat] BY <1>2
  <2> QED BY <1>2, <2>1, <2>2, <2>3 DEF Forest
<1>3. Forest(procs) /\ Forest(seen.ps) BY <1>1, <1>2 DEF ProbeInit, NothingSeen
<1>4. ProbeType
  <2>1. seen.table \in [Npus -> Nat] /\ holder \in [Npus -> Nat] BY DEF ProbeInit, NothingSeen
  <2>2. seen = [table |-> seen.table, ps |-> seen.ps, answered |-> seen.answered]
        BY DEF ProbeInit, NothingSeen
  <2> QED BY <1>3, <2>1, <2>2 DEF ProbeInit, ProbeType
<1>5. WorldFits BY <1>1 DEF ProbeInit, WorldFits, Ordered, Alive, Of, TableFits, ServiceProbeAssumption
<1>6. SeenFits BY DEF ProbeInit, SeenFits
<1> QED BY <1>4, <1>5, <1>6 DEF ProbeInv

\* The services and their NPUs do not change when a process is added: what was
\* so of them still is.
Grown == \A p \in Alive : p \in Alive' /\ procs'[p] = procs[p]

LEMMA TableStays ==
    ASSUME Grown, other' = other
    PROVE  \A table, answered : TableFits(table, answered) => (TableFits(table, answered))'
<1>1. ASSUME NEW p \in Alive PROVE p \in Alive' /\ procs'[p].svc = procs[p].svc BY DEF Grown
<1>2. \A svc : \A p \in Of(svc) : p \in Of(svc)' BY <1>1 DEF Of
<1>3. \A svc : Of(svc) # {} => Of(svc)' # {} BY <1>2
<1> SUFFICES ASSUME NEW table, NEW answered, TableFits(table, answered)
             PROVE  (TableFits(table, answered))'
    OBVIOUS
<1>4. ASSUME NEW d \in Npus
      PROVE  table[d] = 0 \/ (table[d] \in Alive' /\ (procs'[table[d]].svc = "own" => d \in Wanted))
      BY <1>1 DEF TableFits
<1>5. answered = "own" => \A d \in Wanted : table[d] \in Of("own")' BY <1>2 DEF TableFits
<1>6. answered = "other" => Of("other")' # {} /\ other'.port BY <1>3 DEF TableFits
<1> QED BY <1>4, <1>5, <1>6 DEF TableFits

LEMMA GrowsWith ==
    ASSUME NEW p \in NewPids, NEW rec, procs' = With(p, rec)
    PROVE  /\ Grown /\ Alive' = Alive \cup {p} /\ p \notin Alive /\ procs'[p] = rec
           /\ \A s, q : q \in Of(s)' <=> q \in Of(s) \/ (q = p /\ rec.svc = s)
BY WithOne DEF Grown, Of

LEMMA WorldGrows ==
    ASSUME ProbeType, WorldFits, NEW p \in NewPids, NEW rec \in Process, procs' = With(p, rec),
           rec.parent \in Alive \cup {0}, UNCHANGED <<other, holder, listener>>,
           rec.svc = "own" /\ rec.parent = 0 => Of("own") = {} /\ rec.serve,
           rec.svc = "own" /\ other.port => Of("other") = {},
           rec.svc = "other" /\ other.port => Of("own") = {}
    PROVE  WorldFits'
<1>1. /\ Grown /\ Alive' = Alive \cup {p} /\ p \notin Alive /\ procs'[p] = rec
      /\ \A s, q : q \in Of(s)' <=> q \in Of(s) \/ (q = p /\ rec.svc = s)
      BY GrowsWith
<1>2. /\ p \in Pids \ Alive /\ \A q \in Pids \ Alive : p <= q
      /\ Pids \subseteq Nat \ {0} /\ Alive \subseteq Nat
  <2>1. Alive \subseteq Nat BY DEF ProbeType, Forest, Alive
  <2> QED BY <2>1, ServiceProbeAssumption DEF NewPids
<1>3. \A q \in Alive, c \in Pids \ Alive : q < c BY DEF WorldFits
<1>4. \A q \in Alive : procs'[q] = procs[q] BY <1>1 DEF Grown
<1>5. Ordered(procs')
  <2> SUFFICES ASSUME NEW q \in Alive' PROVE procs'[q].parent < q BY DEF Ordered, Alive
  <2>1. CASE q = p
    <3>1. rec.parent < p
      <4>1. rec.parent \in Alive => rec.parent < p BY <1>2, <1>3
      <4>2. p \in Nat \ {0} BY <1>2
      <4>3. rec.parent = 0 => rec.parent < p BY <4>2
      <4> QED BY <4>1, <4>3
    <3> QED BY <1>1, <2>1, <3>1
  <2>2. CASE q \in Alive BY <1>4, <2>2 DEF WorldFits, Ordered, Alive
  <2> QED BY <1>1, <2>1, <2>2
<1>6. \A q \in Alive', c \in Pids \ Alive' : q < c
  <2> SUFFICES ASSUME NEW q \in Alive', NEW c \in Pids \ Alive' PROVE q < c OBVIOUS
  <2>1. c \in Pids \ Alive /\ c # p /\ c \in Nat /\ p \in Nat BY <1>1, <1>2
  <2>2. CASE q = p BY <1>2, <2>1, <2>2
  <2>3. CASE q \in Alive BY <1>3, <2>1, <2>3
  <2> QED BY <1>1, <2>2, <2>3
<1>7. (TableFits(holder, listener))'
  <2>1. \A table, answered : TableFits(table, answered) => (TableFits(table, answered))'
        BY <1>1, TableStays
  <2>2. TableFits(holder, listener) /\ holder' = holder /\ listener' = listener BY DEF WorldFits
  <2> QED BY <2>1, <2>2 DEF TableFits
<1>8. ASSUME NEW a \in Of("own")', NEW b \in Of("own")', procs'[a].parent = 0, procs'[b].parent = 0
      PROVE  a = b /\ procs'[a].serve
  <2>1. \A q \in Of("own") : q \in Alive BY DEF Of
  <2>2. CASE a \in Of("own") /\ b \in Of("own")
    <3>1. procs'[a] = procs[a] /\ procs'[b] = procs[b] BY <1>4, <2>1, <2>2
    <3> QED BY <1>8, <2>2, <3>1 DEF WorldFits
  <2>3. CASE ~(a \in Of("own") /\ b \in Of("own"))
    <3>1. rec.svc = "own" /\ rec.parent = 0 BY <1>1, <1>8, <2>3
    <3>2. Of("own") = {} /\ rec.serve BY <3>1
    <3>3. a = p /\ b = p BY <1>1, <1>8, <3>2
    <3> QED BY <1>1, <3>2, <3>3
  <2> QED BY <2>2, <2>3
<1>9. Of("own")' # {} /\ other'.port => Of("other")' = {}
  <2> SUFFICES ASSUME NEW a \in Of("own")', other.port, NEW b \in Of("other")' PROVE FALSE OBVIOUS
  <2>1. a \in Of("own") \/ rec.svc = "own" BY <1>1
  <2>2. b \in Of("other") \/ rec.svc = "other" BY <1>1
  <2>3. rec.svc = "own" => rec.svc # "other" OBVIOUS
  <2> QED BY <2>1, <2>2, <2>3 DEF WorldFits
<1> QED BY <1>5, <1>6, <1>7, <1>8, <1>9 DEF WorldFits

LEMMA SeenStays ==
    ASSUME SeenFits, Grown, UNCHANGED <<other, agent>>, Of("own") = {} => Of("own")' = {}
    PROVE  SeenFits'
<1>1. \A table, answered : TableFits(table, answered) => (TableFits(table, answered))' BY TableStays
<1>2. UNCHANGED <<pc, seen, result>> BY DEF agent
<1>3. pc \in {"ps", "endpoint"} => (TableFits(seen.table, seen.answered))'
  <2> SUFFICES ASSUME pc \in {"ps", "endpoint"} PROVE (TableFits(seen.table, seen.answered))' OBVIOUS
  <2>1. PICK table, answered : table = seen.table /\ answered = seen.answered OBVIOUS
  <2>2. (TableFits(table, answered))' BY <1>1, <2>1 DEF SeenFits
  <2>3. seen'.table = table /\ seen'.answered = answered BY <1>2, <2>1
  <2> QED BY <2>2, <2>3 DEF TableFits
<1>4. pc = "endpoint" =>
        /\ \A p \in DOMAIN seen.ps : p \in Alive' /\ seen.ps[p] = procs'[p]
        /\ \A d \in Npus : seen.table[d] # 0 => seen.table[d] \in DOMAIN seen.ps
      BY DEF SeenFits, Grown
<1>5. \A s : Of(s) # {} => Of(s)' # {} BY DEF Of, Grown
<1> QED BY <1>2, <1>3, <1>4, <1>5 DEF SeenFits

\* What a decision on the run's tree says of the processes that were seen.
LEMMA ChosenIs ==
    ASSUME NEW ps, Forest(ps), NEW table, NEW group \in Chosen(ps, table)
    PROVE  /\ group \subseteq Roots(ps) /\ group \subseteq DOMAIN ps /\ group # {}
           /\ TopRoot(ps, group) \in group
<1>1. PICK groups : groups = Groups(ps) OBVIOUS
<1>2. Grouped(ps, groups, Roots(ps)) BY <1>1, GroupsAre
<1>3. DOMAIN groups = 1 .. Len(groups) BY <1>2 DEF Grouped
<1>4. PICK i \in 1 .. Len(groups) : group = groups[i]
  <2>1. CASE Len(groups) = 1 BY <1>1, <2>1 DEF Chosen
  <2>2. CASE Len(groups) # 1
    <3>1. PICK exact : exact = {i \in DOMAIN groups : Occupied(ps, table, groups[i]) = Wanted} OBVIOUS
    <3>2. group \in {groups[i] : i \in exact} BY <1>1, <2>2, <3>1 DEF Chosen
    <3> QED BY <1>3, <3>1, <3>2
  <2> QED BY <2>1, <2>2
<1>5. group \subseteq Roots(ps) /\ group # {} BY <1>2, <1>4 DEF Grouped
<1>6. group \subseteq DOMAIN ps BY <1>5, RootsAre
<1> QED BY <1>5, <1>6, TopRootIs

LEMMA RunningIsOwn ==
    ASSUME ProbeType, "already_running" \in Decisions(seen.ps, seen.table, listener)
    PROVE  other.options = "same" \/ \E p \in DOMAIN seen.ps : seen.ps[p].svc = "own"
<1> SUFFICES ASSUME other.options # "same" PROVE \E p \in DOMAIN seen.ps : seen.ps[p].svc = "own"
    OBVIOUS
<1>1. PICK group \in Chosen(seen.ps, seen.table) :
        "already_running" = JudgeGroup(seen.ps, seen.table, listener, group)
  <2>1. "already_running" \notin JudgeNoRoot(seen.table, listener) BY DEF JudgeNoRoot
  <2> QED BY <2>1 DEF Decisions
<1>2. OptionsOf(seen.ps, group) \notin {"model", "config"} BY <1>1 DEF JudgeGroup
<1>3. other.options \in {"same", "model", "config"}
  <2>1. other \in [port : BOOLEAN, options : {"same", "model", "config"}]
        BY ServiceProbeAssumption DEF ProbeType
  <2> QED BY <2>1
<1>4. seen.ps[TopRoot(seen.ps, group)].svc = "own" BY <1>2, <1>3 DEF OptionsOf
<1>5. TopRoot(seen.ps, group) \in DOMAIN seen.ps BY ChosenIs DEF ProbeType
<1> QED BY <1>4, <1>5

\* When only the run's own service was there, one that answered has exactly the
\* wanted NPUs.
LEMMA MismatchIsOthers ==
    ASSUME ProbeType, WorldFits, SeenFits, pc = "endpoint", listener = seen.answered,
           "device_mismatch" \in Decisions(seen.ps, seen.table, listener), Of("other") = {}
    PROVE  FALSE
<1>1. PICK ps : ps = seen.ps OBVIOUS
<1>2. PICK table : table = seen.table OBVIOUS
<1>3. Forest(ps) BY <1>1 DEF ProbeType
<1>4. PICK group \in Chosen(ps, table) : "device_mismatch" = JudgeGroup(ps, table, listener, group)
  <2>1. "device_mismatch" \notin JudgeNoRoot(seen.table, listener) BY DEF JudgeNoRoot
  <2> QED BY <1>1, <1>2, <2>1 DEF Decisions
<1>5. "device_mismatch" = JudgeTree(Occupied(ps, table, group), listener) BY <1>4 DEF JudgeGroup
<1>6. Occupied(ps, table, group) # Wanted /\ listener # "none" BY <1>5 DEF JudgeTree
<1>7. TableFits(table, listener) BY <1>2 DEF SeenFits
<1>8. listener = "own" BY <1>6, <1>7 DEF ProbeType, TableFits
<1>9. \A p \in DOMAIN ps : p \in Alive /\ ps[p] = procs[p] /\ ps[p].svc = "own" /\ p \in Of("own")
  <2> SUFFICES ASSUME NEW p \in DOMAIN ps PROVE p \in Alive /\ ps[p] = procs[p] /\ ps[p].svc = "own" /\ p \in Of("own")
      OBVIOUS
  <2>1. p \in Alive /\ ps[p] = procs[p] BY <1>1 DEF SeenFits
  <2>2. procs[p] \in Process BY <2>1 DEF ProbeType, Forest, Alive
  <2>3. procs[p].svc \in {"own", "other"} BY <2>2 DEF Process
  <2>4. p \notin Of("other") OBVIOUS
  <2>5. procs[p].svc = "own" BY <2>1, <2>3, <2>4 DEF Of
  <2> QED BY <2>1, <2>5 DEF Of
<1>10. \A p \in DOMAIN ps : ps[p].parent \notin DOMAIN ps => ps[p].parent = 0 BY <1>3 DEF Forest
\* All that was seen is one tree.
<1>11. \A p, q \in DOMAIN ps : Top(ps, p) = Top(ps, q)
  <2> SUFFICES ASSUME NEW p \in DOMAIN ps, NEW q \in DOMAIN ps PROVE Top(ps, p) = Top(ps, q) OBVIOUS
  <2>1. PICK t \in DOMAIN ps, u \in DOMAIN ps :
          /\ t = Top(ps, p) /\ u = Top(ps, q)
          /\ ps[t].parent \notin DOMAIN ps /\ ps[u].parent \notin DOMAIN ps
        BY <1>3, TopIs
  <2>2. procs[t].parent = 0 /\ procs[u].parent = 0 /\ t \in Of("own") /\ u \in Of("own") BY <1>9, <1>10, <2>1
  <2> QED BY <2>1, <2>2 DEF WorldFits
<1>12. PICK root : root = TopRoot(ps, group) OBVIOUS
<1>13. group \subseteq DOMAIN ps /\ group \subseteq Roots(ps) /\ group # {} /\ root \in group
       BY <1>3, <1>12, ChosenIs
\* Its top is a root, and so a member of the group, which is the only one.
<1>14. \E p \in group : ps[p].parent \notin DOMAIN ps
  <2>1. PICK p \in group : TRUE BY <1>13
  <2>2. PICK t : t = Top(ps, p) OBVIOUS
  <2>3. t \in DOMAIN ps /\ ps[t].parent \notin DOMAIN ps BY <1>3, <1>13, <2>2, TopIs
  <2>4. t \in Roots(ps) BY <1>3, <1>13, <2>2, RootsAre
  <2>5. PICK groups : groups = Groups(ps) OBVIOUS
  <2>6. Grouped(ps, groups, Roots(ps)) BY <1>3, <2>5, GroupsAre
  <2>7. DOMAIN groups = 1 .. Len(groups) BY <2>6 DEF Grouped
  <2>8. PICK i \in 1 .. Len(groups) : group = groups[i]
    <3>1. CASE Len(groups) = 1 BY <2>5, <3>1 DEF Chosen
    <3>2. CASE Len(groups) # 1
      <4>1. PICK exact : exact = {i \in DOMAIN groups : Occupied(ps, table, groups[i]) = Wanted} OBVIOUS
      <4>2. group \in {groups[i] : i \in exact} BY <2>5, <3>2, <4>1 DEF Chosen
      <4> QED BY <2>7, <4>1, <4>2
    <3> QED BY <3>1, <3>2
  <2>9. PICK j \in 1 .. Len(groups) : t \in groups[j] BY <2>4, <2>6 DEF Grouped
  <2>10. Ordered(ps)
    <3>1. \A q \in DOMAIN ps : procs[q].parent < q BY <1>9 DEF WorldFits, Ordered, Alive
    <3> QED BY <1>9, <3>1 DEF Ordered
  <2>11. Top(ps, t) = Top(ps, p) BY <1>11, <1>13, <2>3
  <2>12. i = j BY <2>6, <2>8, <2>9, <2>10, <2>11 DEF Grouped
  <2> QED BY <2>3, <2>8, <2>9, <2>12
<1>15. ps[root].parent \notin DOMAIN ps BY <1>3, <1>12, <1>13, <1>14, TopRootIs
<1>16. Descendants(ps, root) = DOMAIN ps
  <2>1. root \in DOMAIN ps BY <1>13
  <2>2. ASSUME NEW q \in DOMAIN ps PROVE q = root \/ root \in Ancestors(ps)[q]
    <3>1. Top(ps, root) = root
      <4>1. Above(Ancestors(ps), ps) BY <1>3, AncestorsAre
      <4>2. Ancestors(ps)[root] = {} BY <1>15, <2>1, <4>1 DEF Above
      <4> QED BY <1>3, <2>1, <4>2, TopIs
    <3>2. Top(ps, q) = root BY <1>11, <2>1, <3>1
    <3> QED BY <1>3, <3>2, TopIs
  <2> QED BY <2>1, <2>2 DEF Descendants
<1>17. \A d \in Npus : table[d] \in DOMAIN ps <=> d \in Wanted
  <2> SUFFICES ASSUME NEW d \in Npus PROVE table[d] \in DOMAIN ps <=> d \in Wanted OBVIOUS
  <2>1. ASSUME table[d] \in DOMAIN ps PROVE d \in Wanted
    <3>1. table[d] # 0
      <4>1. 0 \notin DOMAIN ps BY <1>3 DEF Forest
      <4> QED BY <2>1, <4>1
    <3>2. procs[table[d]].svc = "own" BY <1>9, <2>1
    <3> QED BY <1>7, <3>1, <3>2 DEF TableFits
  <2>2. ASSUME d \in Wanted PROVE table[d] \in DOMAIN ps
    <3>1. table[d] \in Of("own") BY <1>7, <1>8, <2>2 DEF TableFits
    <3>2. table[d] # 0
      <4>1. 0 \notin Alive BY DEF ProbeType, Forest, Alive
      <4> QED BY <3>1, <4>1 DEF Of
    <3> QED BY <1>1, <1>2, <3>2 DEF SeenFits
  <2> QED BY <2>1, <2>2
<1>18. Occupied(ps, table, group) = Wanted
  <2>1. Occupied(ps, table, group) = {d \in Npus : table[d] \in DOMAIN ps} BY <1>12, <1>16 DEF Occupied
  <2>2. Wanted \subseteq Npus BY ServiceProbeAssumption
  <2> QED BY <1>17, <2>1, <2>2
<1> QED BY <1>6, <1>18

\* The agent's own steps leave the world alone.
LEMMA AgentMoves ==
    ASSUME ProbeInv, UNCHANGED <<procs, holder, listener, other, upset>>,
           Forest(seen'.ps), seen'.table \in [Npus -> Nat],
           seen' = [table |-> seen'.table, ps |-> seen'.ps, answered |-> seen'.answered],
           ~upset => SeenFits'
    PROVE  ProbeInv'
<1>1. ProbeType' BY DEF ProbeInv, ProbeType
<1>2. WorldFits => WorldFits' BY DEF WorldFits, TableFits, Of, Alive, Ordered
<1> QED BY <1>1, <1>2 DEF ProbeInv

\* A step that leaves what was seen, or forgets it, and goes to no place of which
\* the invariant says more than of the place it leaves.
LEMMA AgentForgets ==
    ASSUME ProbeInv, UNCHANGED <<procs, holder, listener, other, upset>>,
           seen' \in {seen, NothingSeen}, pc' \notin {"ps", "endpoint"},
           ~upset /\ pc' = "launch" => result' = "none",
           ~upset /\ pc' = "ready" => result' = "already_running",
           ~upset /\ result' = "device_mismatch" /\ pc' \in {"decided", "blocked"} =>
              result = "device_mismatch" /\ pc \in {"decided", "blocked"} /\ seen' = seen,
           ~upset /\ result' = "already_running" /\ pc' \in {"decided", "ready"} =>
              result = "already_running" /\ pc \in {"decided", "ready"}
    PROVE  ProbeInv'
<1>0. PICK none : none = NothingSeen OBVIOUS
<1>1. /\ Forest(none.ps) /\ none.table \in [Npus -> Nat]
      /\ none = [table |-> none.table, ps |-> none.ps, answered |-> none.answered]
  <2>1. DOMAIN none.ps = {} BY <1>0 DEF NothingSeen
  <2>2. none.ps \in [DOMAIN none.ps -> Process] /\ none.ps \in [DOMAIN none.ps -> Nat]
    <3>1. none.ps = <<>> BY <1>0 DEF NothingSeen
    <3> QED BY <2>1, <3>1
  <2>3. DOMAIN none.ps \subseteq 1 .. 0 BY <2>1
  <2>4. Forest(none.ps) BY <2>1, <2>2, <2>3 DEF Forest
  <2>5. none.table \in [Npus -> Nat] BY <1>0 DEF NothingSeen
  <2>6. none = [table |-> none.table, ps |-> none.ps, answered |-> none.answered] BY <1>0 DEF NothingSeen
  <2> QED BY <2>4, <2>5, <2>6
<1>2. /\ Forest(seen'.ps) /\ seen'.table \in [Npus -> Nat]
      /\ seen' = [table |-> seen'.table, ps |-> seen'.ps, answered |-> seen'.answered]
  <2>1. CASE seen' = seen BY <2>1 DEF ProbeInv, ProbeType
  <2>2. CASE seen' = none BY <1>1, <2>2
  <2> QED BY <1>0, <2>1, <2>2
<1>3. ASSUME ~upset PROVE SeenFits'
  <2>1. SeenFits BY <1>3 DEF ProbeInv
  <2>2. \A s : Of(s)' = Of(s) BY DEF Of, Alive
  <2>3. (pc' = "launch" => result' = "none") /\ (pc' = "ready" => result' = "already_running") BY <1>3
  <2>4. pc' \in {"decided", "blocked"} /\ result' = "device_mismatch" /\ Of("own") # {} =>
          seen'.answered = "late" \/ Of("other") # {}
        BY <1>3, <2>1 DEF SeenFits
  <2>5. pc' \in {"decided", "ready"} /\ result' = "already_running" =>
          other'.options = "same" \/ Of("own") # {}
        BY <1>3, <2>1 DEF SeenFits
  <2> QED BY <2>2, <2>3, <2>4, <2>5 DEF SeenFits
<1> QED BY <1>2, <1>3, AgentMoves

LEMMA ProcessAdded ==
    ASSUME ProbeInv, NEW p \in NewPids, NEW rec \in Process, procs' = With(p, rec),
           rec.parent \in Alive \cup {0},
           rec.parent \in Alive =>
              rec.svc = procs[rec.parent].svc /\ (rec.serve => procs[rec.parent].serve),
           UNCHANGED <<other, holder, listener, seen>>, upset' \in BOOLEAN, ~upset' => ~upset,
           ~upset' /\ rec.svc = "own" /\ rec.parent = 0 => Of("own") = {} /\ rec.serve,
           ~upset' /\ rec.svc = "own" /\ other.port => Of("other") = {},
           ~upset' /\ rec.svc = "other" /\ other.port => Of("own") = {}
    PROVE  ProbeType' /\ (~upset' => WorldFits')
<1>1. Forest(procs') BY ForestWith DEF ProbeInv, ProbeType
<1>2. ProbeType' BY <1>1 DEF ProbeInv, ProbeType
<1>3. ASSUME ~upset' PROVE WorldFits'
  <2>1. ProbeType /\ WorldFits BY <1>3 DEF ProbeInv
  <2> QED BY <1>3, <2>1, WorldGrows
<1> QED BY <1>2, <1>3

LEMMA ForksFits == ProbeInv /\ Forks => ProbeInv'
<1> SUFFICES ASSUME ProbeInv, Forks PROVE ProbeInv' OBVIOUS
<1>1. PICK p \in Alive, c \in NewPids, serve \in BOOLEAN :
        procs' = With(c, [parent |-> p, svc |-> procs[p].svc, serve |-> serve /\ procs[p].serve])
      BY DEF Forks
<1>2. PICK rec : rec = [parent |-> p, svc |-> procs[p].svc, serve |-> serve /\ procs[p].serve] OBVIOUS
<1>3. UNCHANGED <<holder, listener, other, seen, upset>> /\ UNCHANGED agent BY DEF Forks, agent
<1>4. procs[p] \in Process /\ p \in Pids /\ p # 0
  <2>1. procs[p] \in Process /\ p \in DOMAIN procs /\ p \in Pids BY DEF ProbeInv, ProbeType, Forest, Alive
  <2>2. p # 0 BY <2>1 DEF ProbeInv, ProbeType, Forest
  <2> QED BY <2>1, <2>2
<1>5. /\ procs' = With(c, rec) /\ rec.parent = p /\ rec.svc = procs[p].svc
      /\ rec.serve => procs[p].serve
      BY <1>1, <1>2
<1>6. rec \in Process
  <2>1. procs[p].svc \in {"own", "other"} BY <1>4 DEF Process
  <2>2. (serve /\ procs[p].serve) \in BOOLEAN OBVIOUS
  <2> QED BY <1>2, <1>4, <2>1, <2>2 DEF Process
<1>7. ~upset /\ other.port => Of("own") = {} \/ Of("other") = {} BY DEF ProbeInv, WorldFits
<1>8. p \in Of(rec.svc) BY <1>5 DEF Of
<1>9. ProbeType' /\ (~upset' => WorldFits')
  <2>1. upset' \in BOOLEAN /\ (~upset' => ~upset) BY <1>3 DEF ProbeInv, ProbeType
  <2>2. ~upset' /\ rec.svc = "own" /\ other.port => Of("other") = {} BY <1>7, <1>8, <2>1
  <2>3. ~upset' /\ rec.svc = "other" /\ other.port => Of("own") = {} BY <1>7, <1>8, <2>1
  <2>4. rec.parent \in Alive \cup {0} /\ ~(rec.svc = "own" /\ rec.parent = 0) BY <1>4, <1>5
  <2>5. rec.parent \in Alive =>
          rec.svc = procs[rec.parent].svc /\ (rec.serve => procs[rec.parent].serve)
        BY <1>5
  <2> QED BY <1>3, <1>5, <1>6, <2>1, <2>2, <2>3, <2>4, <2>5, ProcessAdded
<1>10. ASSUME ~upset PROVE SeenFits'
  <2>1. Grown /\ \A s, q : q \in Of(s)' <=> q \in Of(s) \/ (q = c /\ rec.svc = s)
        BY <1>5, GrowsWith
  <2>2. Of("own") = {} => Of("own")' = {} BY <1>8, <2>1
  <2> QED BY <1>3, <1>10, <2>1, <2>2, SeenStays DEF ProbeInv
<1> QED BY <1>3, <1>9, <1>10 DEF ProbeInv

LEMMA OtherStartsFits == ProbeInv /\ OtherStarts => ProbeInv'
<1> SUFFICES ASSUME ProbeInv, OtherStarts PROVE ProbeInv' OBVIOUS
<1>1. PICK p \in NewPids : procs' = With(p, [parent |-> 0, svc |-> "other", serve |-> TRUE])
      BY DEF OtherStarts
<1>2. PICK rec : rec = [parent |-> 0, svc |-> "other", serve |-> TRUE] OBVIOUS
<1>3. /\ UNCHANGED <<holder, listener, other, seen>> /\ UNCHANGED agent
      /\ upset' = (upset \/ (Of("own") # {} /\ other.port))
      BY DEF OtherStarts, agent, TwoOnPort
<1>4. rec \in Process /\ rec.parent = 0 /\ rec.svc = "other" /\ 0 \notin Alive
      BY <1>2 DEF Process, ProbeInv, ProbeType, Forest, Alive
<1>5. upset' \in BOOLEAN /\ (~upset' => ~upset) /\ (~upset' /\ other.port => Of("own") = {})
      BY <1>3 DEF ProbeInv, ProbeType
<1>6. ProbeType' /\ (~upset' => WorldFits')
  <2>1. procs' = With(p, rec) /\ rec.parent \in Alive \cup {0} BY <1>1, <1>2, <1>4
  <2> QED BY <1>3, <1>4, <1>5, <2>1, ProcessAdded
<1>7. ASSUME ~upset PROVE SeenFits'
  <2>1. Grown /\ \A s, q : q \in Of(s)' <=> q \in Of(s) \/ (q = p /\ rec.svc = s)
        BY <1>1, <1>2, GrowsWith
  <2>2. Of("own") = {} => Of("own")' = {} BY <1>4, <2>1
  <2> QED BY <1>3, <1>7, <2>1, <2>2, SeenStays DEF ProbeInv
<1> QED BY <1>5, <1>6, <1>7 DEF ProbeInv

LEMMA BindsFits == ProbeInv /\ Binds => ProbeInv'
<1> SUFFICES ASSUME ProbeInv, Binds PROVE ProbeInv' OBVIOUS
<1>1. PICK p \in Alive, d \in Npus :
        holder[d] = 0 /\ (procs[p].svc = "own" => d \in Wanted) /\ holder' = [holder EXCEPT ![d] = p]
      BY DEF Binds
<1>2. UNCHANGED <<procs, listener, other, seen, upset>> /\ UNCHANGED agent /\ ~upset BY DEF Binds, agent
<1>3. Forest(procs) /\ holder \in [Npus -> Nat] /\ Alive \subseteq Nat /\ 0 \notin Alive
      BY DEF ProbeInv, ProbeType, Forest, Alive
<1>4. holder' \in [Npus -> Nat] BY <1>1, <1>3
<1>5. ProbeType' BY <1>2, <1>4 DEF ProbeInv, ProbeType
<1>6. /\ holder'[d] = p /\ \A e \in Npus : e # d => holder'[e] = holder[e]
      BY <1>1, <1>3
<1>7. TableFits(holder', listener)
  <2>0. TableFits(holder, listener) BY <1>2 DEF ProbeInv, WorldFits
  <2>1. \A e \in Npus : holder'[e] = 0 \/
          (holder'[e] \in Alive /\ (procs[holder'[e]].svc = "own" => e \in Wanted))
    <3> SUFFICES ASSUME NEW e \in Npus
                 PROVE  holder'[e] = 0 \/ (holder'[e] \in Alive /\ (procs[holder'[e]].svc = "own" => e \in Wanted))
        OBVIOUS
    <3>1. CASE e = d BY <1>1, <1>6, <3>1
    <3>2. CASE e # d BY <1>6, <2>0, <3>2 DEF TableFits
    <3> QED BY <3>1, <3>2
  <2>2. listener = "own" => \A e \in Wanted : holder'[e] \in Of("own")
    <3> SUFFICES ASSUME listener = "own", NEW e \in Wanted PROVE holder'[e] \in Of("own") OBVIOUS
    <3>1. holder[e] \in Of("own") /\ e \in Npus BY <2>0, ServiceProbeAssumption DEF TableFits
    <3>2. e # d BY <1>1, <1>3, <3>1 DEF Of
    <3> QED BY <1>6, <3>1, <3>2
  <2> QED BY <2>0, <2>1, <2>2 DEF TableFits
<1>8. WorldFits' BY <1>2, <1>7 DEF ProbeInv, WorldFits, TableFits, Of, Alive, Ordered
<1>9. SeenFits'
  <2>1. Grown /\ Of("own")' = Of("own") BY <1>2 DEF Grown, Of, Alive
  <2> QED BY <1>2, <2>1, SeenStays DEF ProbeInv
<1> QED BY <1>5, <1>8, <1>9 DEF ProbeInv

LEMMA AnswersFits == ProbeInv /\ Answers => ProbeInv'
<1> SUFFICES ASSUME ProbeInv, Answers PROVE ProbeInv' OBVIOUS
<1>1. PICK s \in {"own", "other"} :
        /\ Of(s) # {} /\ UsesPort(s) /\ listener' = s
        /\ s = "own" => \A d \in Wanted : holder[d] \in Of("own")
      BY DEF Answers
<1>2. UNCHANGED <<procs, holder, other, seen, upset>> /\ UNCHANGED agent /\ ~upset BY DEF Answers, agent
<1>3. ProbeType' BY <1>1, <1>2 DEF ProbeInv, ProbeType
<1>4. TableFits(holder, s) BY <1>1, <1>2 DEF ProbeInv, WorldFits, TableFits, UsesPort
<1>5. WorldFits' BY <1>1, <1>2, <1>4 DEF ProbeInv, WorldFits, TableFits, Of, Alive, Ordered
<1>6. SeenFits'
  <2>1. Grown /\ Of("own")' = Of("own") BY <1>2 DEF Grown, Of, Alive
  <2> QED BY <1>2, <2>1, SeenStays DEF ProbeInv
<1> QED BY <1>3, <1>5, <1>6 DEF ProbeInv

LEMMA DiesFits == ProbeInv /\ Dies => ProbeInv'
<1> SUFFICES ASSUME ProbeInv, Dies PROVE ProbeInv' OBVIOUS
<1>1. PICK p \in Alive :
        /\ procs' = Without(p)
        /\ holder' = [d \in Npus |-> IF holder[d] = p THEN 0 ELSE holder[d]]
        /\ listener' = IF listener = procs[p].svc THEN "none" ELSE listener
      BY DEF Dies
<1>2. UNCHANGED <<other, seen>> /\ upset' = TRUE BY DEF Dies, agent
<1>3. Forest(procs') BY <1>1, ForestWithout DEF ProbeInv, ProbeType
<1>4. holder' \in [Npus -> Nat] BY <1>1 DEF ProbeInv, ProbeType
<1>5. listener' \in {"none", "own", "other"} BY <1>1 DEF ProbeInv, ProbeType
<1> QED BY <1>2, <1>3, <1>4, <1>5 DEF ProbeInv, ProbeType

LEMMA ReadTableFits == ProbeInv /\ ReadTable => ProbeInv'
<1> SUFFICES ASSUME ProbeInv, ReadTable PROVE ProbeInv' OBVIOUS
<1>1. UNCHANGED <<procs, holder, listener, other, upset>> BY DEF ReadTable, world
<1>2. CASE \E d \in {"container_stopped", "device_unavailable", "device_unhealthy"} : Decides(d)
  <2>1. /\ seen' = NothingSeen /\ pc' = "decided"
        /\ result' # "device_mismatch" /\ result' # "already_running"
        BY <1>2 DEF Decides
  <2> QED BY <1>1, <2>1, AgentForgets
<1>3. CASE Asks("ps", [seen EXCEPT !.table = holder, !.answered = listener])
  <2>1. pc' = "ps" /\ seen' = [table |-> holder, ps |-> seen.ps, answered |-> listener]
    <3>1. PICK table, ps, answered : seen = [table |-> table, ps |-> ps, answered |-> answered] BY DEF ProbeInv, ProbeType
    <3> QED BY <1>3, <3>1 DEF Asks
  <2>2. /\ Forest(seen'.ps) /\ seen'.table \in [Npus -> Nat]
        /\ seen' = [table |-> seen'.table, ps |-> seen'.ps, answered |-> seen'.answered]
        BY <2>1 DEF ProbeInv, ProbeType
  <2>3. ASSUME ~upset PROVE SeenFits'
    <3>1. TableFits(holder, listener) BY <2>3 DEF ProbeInv, WorldFits
    <3>2. (TableFits(seen.table, seen.answered))' BY <1>1, <2>1, <3>1 DEF TableFits, Of, Alive
    <3> QED BY <2>1, <3>2 DEF SeenFits
  <2> QED BY <1>1, <2>2, <2>3, AgentMoves
<1> QED BY <1>2, <1>3 DEF ReadTable

LEMMA ReadProcessesFits == ProbeInv /\ ReadProcesses => ProbeInv'
<1> SUFFICES ASSUME ProbeInv, ReadProcesses PROVE ProbeInv' OBVIOUS
<1>1. UNCHANGED <<procs, holder, listener, other, upset>> /\ pc = "ps" BY DEF ReadProcesses, world, At
<1>2. pc' = "endpoint" /\ seen' = [table |-> seen.table, ps |-> procs, answered |-> seen.answered]
  <2>1. PICK table, ps, answered : seen = [table |-> table, ps |-> ps, answered |-> answered] BY DEF ProbeInv, ProbeType
  <2> QED BY <2>1 DEF ReadProcesses, Asks
<1>3. /\ Forest(seen'.ps) /\ seen'.table \in [Npus -> Nat]
      /\ seen' = [table |-> seen'.table, ps |-> seen'.ps, answered |-> seen'.answered]
      BY <1>2 DEF ProbeInv, ProbeType
<1>4. ASSUME ~upset PROVE SeenFits'
  <2>1. TableFits(seen.table, seen.answered) BY <1>1, <1>4 DEF ProbeInv, SeenFits
  <2>2. (TableFits(seen.table, seen.answered))' BY <1>1, <1>2, <2>1 DEF TableFits, Of, Alive
  <2>4. \A d \in Npus : seen.table[d] # 0 => seen.table[d] \in DOMAIN procs BY <2>1 DEF TableFits, Alive
  <2> QED BY <1>1, <1>2, <2>2, <2>4 DEF SeenFits, Alive
<1> QED BY <1>1, <1>3, <1>4, AgentMoves

LEMMA ReadEndpointFits == ProbeInv /\ ReadEndpoint => ProbeInv'
<1> SUFFICES ASSUME ProbeInv, ReadEndpoint PROVE ProbeInv' OBVIOUS
<1>1. /\ UNCHANGED <<procs, holder, listener, other, upset>> /\ pc = "endpoint" /\ pc' = "decided"
      /\ result' \in Decisions(seen.ps, seen.table, listener)
      /\ seen' = [NothingSeen EXCEPT !.answered = IF listener # seen.answered THEN "late" ELSE listener]
      BY DEF ReadEndpoint, world, At
<1>2. /\ seen'.ps = <<>> /\ seen'.table = [d \in Npus |-> 0]
      /\ listener # seen.answered => seen'.answered = "late"
      /\ seen' = [table |-> seen'.table, ps |-> seen'.ps, answered |-> seen'.answered]
      BY <1>1 DEF NothingSeen
<1>3. Forest(seen'.ps) /\ seen'.table \in [Npus -> Nat]
  <2>1. PICK ps : ps = <<>> /\ DOMAIN ps = {} OBVIOUS
  <2>2. ps \in [DOMAIN ps -> Process] /\ ps \in [DOMAIN ps -> Nat] /\ DOMAIN ps \subseteq 1 .. 0 BY <2>1
  <2>3. Forest(ps) BY <2>1, <2>2 DEF Forest
  <2> QED BY <1>2, <2>1, <2>3
<1>4. ASSUME ~upset PROVE SeenFits'
  <2>1. ProbeType /\ WorldFits /\ SeenFits BY <1>4 DEF ProbeInv
  <2>2. \A s : Of(s)' = Of(s) BY <1>1 DEF Of, Alive
  <2>3. result' = "device_mismatch" => seen'.answered = "late" \/ Of("other") # {}
        BY <1>1, <1>2, <2>1, MismatchIsOthers
  <2>4. result' = "already_running" => other.options = "same" \/ Of("own") # {}
    <3> SUFFICES ASSUME result' = "already_running", other.options # "same" PROVE Of("own") # {} OBVIOUS
    <3>1. PICK p \in DOMAIN seen.ps : seen.ps[p].svc = "own" BY <1>1, <2>1, RunningIsOwn
    <3>2. p \in Alive /\ seen.ps[p] = procs[p] BY <1>1, <2>1 DEF SeenFits
    <3> QED BY <3>1, <3>2 DEF Of
  <2> QED BY <1>1, <2>2, <2>3, <2>4 DEF SeenFits
<1> QED BY <1>1, <1>2, <1>3, <1>4, AgentMoves

LEMMA LaunchFits == ProbeInv /\ Launch => ProbeInv'
<1> SUFFICES ASSUME ProbeInv, Launch PROVE ProbeInv' OBVIOUS
<1>1. pc = "launch" /\ UNCHANGED <<holder, listener, other, seen, result>> BY DEF Launch, At
<1>2. CASE pc' = "blocked" /\ UNCHANGED <<procs, upset>>
  <2>1. ~upset => result = "none" BY <1>1 DEF ProbeInv, SeenFits
  <2> QED BY <1>1, <1>2, <2>1, AgentForgets
<1>3. CASE /\ pc' = "probe"
           /\ upset' = (upset \/ (Of("other") # {} /\ other.port) \/ Of("own") # {})
           /\ \E p \in NewPids : procs' = With(p, [parent |-> 0, svc |-> "own", serve |-> TRUE])
  <2>1. PICK p \in NewPids : procs' = With(p, [parent |-> 0, svc |-> "own", serve |-> TRUE]) BY <1>3
  <2>2. PICK rec : rec = [parent |-> 0, svc |-> "own", serve |-> TRUE] OBVIOUS
  <2>3. rec \in Process /\ rec.parent = 0 /\ rec.svc = "own" /\ rec.serve /\ 0 \notin Alive
        BY <2>2 DEF Process, ProbeInv, ProbeType, Forest, Alive
  <2>4. /\ upset' \in BOOLEAN /\ (~upset' => ~upset) /\ (~upset' => Of("own") = {})
        /\ ~upset' /\ other.port => Of("other") = {}
        BY <1>3 DEF ProbeInv, ProbeType
  <2>5. procs' = With(p, rec) /\ rec.parent \in Alive \cup {0} BY <2>1, <2>2, <2>3
  <2>6. ProbeType' /\ (~upset' => WorldFits') BY <1>1, <2>3, <2>4, <2>5, ProcessAdded
  <2>7. SeenFits' BY <1>3 DEF SeenFits
  <2> QED BY <2>6, <2>7 DEF ProbeInv
<1> QED BY <1>2, <1>3 DEF Launch, Block, WaitHealth

LEMMA ProbeInvStep == ProbeInv /\ [ProbeNext]_probeVars => ProbeInv'
<1> SUFFICES ASSUME ProbeInv, [ProbeNext]_probeVars PROVE ProbeInv' OBVIOUS
<1>1. CASE OtherStarts \/ Forks \/ Binds \/ Answers \/ Dies
      BY <1>1, OtherStartsFits, ForksFits, BindsFits, AnswersFits, DiesFits
<1>2. CASE ReadTable \/ ReadProcesses \/ ReadEndpoint \/ Launch
      BY <1>2, ReadTableFits, ReadProcessesFits, ReadEndpointFits, LaunchFits
<1>3. CASE Start
  <2>1. UNCHANGED <<procs, holder, listener, other, upset>> /\ pc' = "probe" BY <1>3 DEF Start, world
  <2>2. seen' \in {seen, NothingSeen} BY <1>3 DEF Start, Forget
  <2> QED BY <2>1, <2>2, AgentForgets
<1>4. CASE ProbeFails
  <2>1. /\ UNCHANGED <<procs, holder, listener, other, upset>> /\ pc' = "decided"
        /\ seen' = NothingSeen /\ result' = "error"
        BY <1>4 DEF ProbeFails, Decides, world
  <2> QED BY <2>1, AgentForgets
<1>5. CASE HandleDecision
  <2>1. /\ UNCHANGED <<procs, holder, listener, other, upset>> /\ pc = "decided"
        /\ Forget
        BY <1>5 DEF HandleDecision, At
  <2>2. pc' \in {"probe", "launch", "blocked"}
        BY <1>5 DEF HandleDecision, WaitHealth, Block, Ensured
  <2>3. /\ seen' \in {seen, NothingSeen}
        /\ pc' = "blocked" => seen' = seen /\ result' = result
        /\ pc' # "blocked" => result' = "none"
        BY <2>1 DEF Forget
  <2> QED BY <2>1, <2>2, <2>3, AgentForgets
<1>6. CASE HealthAttempt
  <2>1. UNCHANGED <<procs, holder, listener, other, upset>> /\ pc = "decided" BY <1>6 DEF HealthAttempt, At, world
  <2>2. \/ pc' = "ready" /\ UNCHANGED <<seen, result>> /\ result = "already_running"
        \/ pc' = "blocked" /\ UNCHANGED <<seen, result>>
        \/ pc' = "probe" /\ Forget
        BY <1>6 DEF HealthAttempt
  <2>3. seen' \in {seen, NothingSeen} BY <2>2 DEF Forget
  <2> QED BY <2>1, <2>2, <2>3, AgentForgets
<1>7. CASE UNCHANGED probeVars
  <2>1. UNCHANGED <<procs, holder, listener, other, upset, pc, seen, result>> BY <1>7 DEF probeVars, world, agent
  <2>2. ProbeType' BY <2>1 DEF ProbeInv, ProbeType
  <2>3. WorldFits => WorldFits' BY <2>1 DEF WorldFits, TableFits, Of, Alive, Ordered
  <2>4. SeenFits => SeenFits' BY <2>1 DEF SeenFits, TableFits, Of, Alive
  <2> QED BY <2>1, <2>2, <2>3, <2>4 DEF ProbeInv
<1> QED BY <1>1, <1>2, <1>3, <1>4, <1>5, <1>6, <1>7 DEF ProbeNext

LEMMA ProbeInvTrusted == ProbeInv => GroupsAreTrees /\ MismatchIsReal /\ ReadyMeansOwn
<1> SUFFICES ASSUME ProbeInv PROVE GroupsAreTrees /\ MismatchIsReal /\ ReadyMeansOwn OBVIOUS
<1>1. GroupsAreTrees
  <2>1. PICK ps : ps = seen.ps OBVIOUS
  <2>2. PICK groups : groups = Groups(ps) OBVIOUS
  <2>3. Grouped(ps, groups, Roots(ps)) BY <2>1, <2>2, GroupsAre DEF ProbeInv, ProbeType
  <2>4. DOMAIN groups = 1 .. Len(groups) BY <2>3 DEF Grouped
  <2> QED BY <2>1, <2>2, <2>3, <2>4 DEF GroupsAreTrees, Grouped, Ordered
<1>2. MismatchIsReal BY DEF MismatchIsReal, ProbeInv, SeenFits
<1>3. ReadyMeansOwn
  <2> SUFFICES ASSUME pc = "ready", ~upset, listener # "none", listener # "own" PROVE other.options = "same"
      BY DEF ReadyMeansOwn
  <2>1. WorldFits /\ SeenFits /\ ProbeType BY DEF ProbeInv
  <2>2. listener = "other" BY <2>1 DEF ProbeType
  <2>3. Of("own") = {} BY <2>1, <2>2 DEF WorldFits, TableFits
  <2> QED BY <2>1, <2>3 DEF SeenFits
<1> QED BY <1>1, <1>2, <1>3

\* What a run makes of its probes: roots are grouped by process trees, a run
\* does not block over the NPUs of its own service, goes on only with a
\* service that has its options, and launches no second one, however many
\* processes fork, bind, answer and die meanwhile, unless a process of a
\* service died or two services share the port.
THEOREM ProbesStayTrusted == ProbeInit /\ [][ProbeNext]_probeVars => []ProbeIsTrusted
<1>1. ProbeInit => OwnIsSeen
  <2> SUFFICES ASSUME ProbeInit PROVE OwnIsSeen OBVIOUS
  <2>1. DOMAIN procs = {} /\ upset = FALSE BY DEF ProbeInit
  <2> QED BY <2>1 DEF OwnIsSeen, Of, Alive
<1>2. OwnIsSeen => NeverTwice BY DEF OwnIsSeen, NeverTwice
<1>3. ProbeInv /\ OwnIsSeen => ProbeIsTrusted BY <1>2, ProbeInvTrusted DEF ProbeIsTrusted
<1> QED BY <1>1, <1>3, OwnIsSeenStep, ProbeInvInit, ProbeInvStep, PTL
-----------------------------------------------------------------------------
(* The latency quantiles: as long as the counts of the good scrapes rise and *)
(* no restart is hidden, the last good scrape is the first one and what was  *)
(* served in between.                                                        *)

Tables == [Buckets -> Nat]
Sampled(s, i) == i \in DOMAIN s /\ s[i] # <<>>
FirstGood(s, i) == Sampled(s, i) /\ \A k \in DOMAIN s : k < i => s[k] = <<>>
LastGood(s, j) == Sampled(s, j) /\ \A k \in DOMAIN s : k > j => s[k] = <<>>

\* The count of no scrape is less than that of an earlier one.
Rising(s) == \A i, k \in DOMAIN s : i < k /\ s[i] # <<>> /\ s[k] # <<>> =>
                s[i][Bounds + 1] <= s[k][Bounds + 1]

LhType ==
    /\ counts \in Tables /\ observed \in Tables /\ truth \in Tables
    /\ scrapes \in Seq(Tables \cup {<<>>})
    /\ restarted \in BOOLEAN /\ hidden \in BOOLEAN

\* Before the first good scrape nothing is observed; after it, as long as the
\* counts rise and no restart is hidden, the scrapes differ by what was observed.
TablesFit ==
    /\ (\A i \in DOMAIN scrapes : scrapes[i] = <<>>) =>
          observed = Nothing /\ truth = Nothing /\ ~restarted
    /\ ~hidden /\ Rising(scrapes) => \A i, j \in DOMAIN scrapes :
          FirstGood(scrapes, i) /\ LastGood(scrapes, j) => \A b \in Buckets :
              /\ scrapes[j][b] = scrapes[i][b] + Upto(truth, b)
              /\ ~restarted => Upto(counts, b) = scrapes[i][b] + Upto(observed, b)

LhInv == LhType /\ TablesFit

SumStep(f) == [p \in (1 .. Bounds + 1) \X Nat |-> p[2] + f[p[1]]]

LEMMA UptoIs ==
    ASSUME NEW f, f \in Tables
    PROVE  /\ Upto(f, 0) = 0
           /\ \A b \in 0 .. Bounds + 1 : Upto(f, b) \in Nat
           /\ \A b \in Buckets : Upto(f, b) = Upto(f, b - 1) + f[b]
<1> DEFINE N == Bounds + 1
           Fcn(g) == [c \in 0 .. N |-> IF c = 0 THEN 0 ELSE g[c - 1] + f[c]]
           of == CHOOSE g : g = Fcn(g)
           step == SumStep(f)
<1>0. N \in Nat BY LatencyAssumption
<1>1. step \in [(1 .. N) \X Nat -> Nat] BY DEF SumStep, Tables, Buckets
<1>a. \A i \in 1 .. N, x \in Nat : step[<<i, x>>] = x + f[i] BY DEF SumStep
<1> HIDE DEF step, N
<1>2. PICK g : Walks(g, Nat, 0, N, step) BY <1>0, <1>1, Recursion
<1>3. g \in [0 .. N -> Nat] /\ g[0] = 0 /\ \A n \in 1 .. N : n - 1 \in 0 .. N /\ g[n] = g[n - 1] + f[n]
  <2>1. \A n \in 1 .. N : n - 1 \in 0 .. N BY <1>0
  <2> QED BY <1>2, <1>a, <2>1 DEF Walks
<1>4. g = Fcn(g)
  <2>1. DOMAIN g = 0 .. N /\ g = [n \in 0 .. N |-> g[n]] BY <1>3
  <2>2. \A n \in 0 .. N : n = 0 \/ n \in 1 .. N BY <1>0
  <2> QED BY <1>0, <1>3, <2>1, <2>2
<1>5. of = Fcn(of)
  <2> HIDE DEF Fcn
  <2> QED BY <1>4
<1>6. of[0] = 0 /\ \A n \in 1 .. N : of[n] = of[n - 1] + f[n]
  <2> HIDE DEF of
  <2> QED BY <1>0, <1>5
<1>7. \A b : Upto(f, b) = of[b] BY DEF Upto, of, N
<1> HIDE DEF of, Fcn
<1>8. ASSUME NEW n \in 0 .. N PROVE of[n] \in Nat
  <2> DEFINE T == {k \in 0 .. n : of[k] \in Nat}
  <2>0. n \in Nat /\ n <= N BY <1>0
  <2>1. 0 \in T BY <1>6, <2>0
  <2>2. \A k \in 1 .. n : k - 1 \in T => k \in T
    <3> SUFFICES ASSUME NEW k \in 1 .. n, k - 1 \in T PROVE k \in T OBVIOUS
    <3>1. k \in 1 .. N /\ of[k - 1] \in Nat BY <1>0, <2>0
    <3>2. f[k] \in Nat BY <3>1 DEF Tables, Buckets, N
    <3> QED BY <1>6, <3>1, <3>2
  <2>3. n \in T
    <3> HIDE DEF T
    <3> QED BY <2>0, <2>1, <2>2, InductionUpTo
  <2> QED BY <2>3
<1> QED BY <1>6, <1>7, <1>8 DEF N, Buckets

LEMMA UptoNothing == \A b \in 0 .. Bounds + 1 : Upto(Nothing, b) = 0
<1>0. Bounds + 1 \in Nat /\ Nothing \in Tables BY LatencyAssumption DEF Nothing, Tables
<1>a. /\ Upto(Nothing, 0) = 0
      /\ \A b \in Buckets : Upto(Nothing, b) = Upto(Nothing, b - 1) + Nothing[b]
      BY <1>0, UptoIs
<1> DEFINE T == {c \in 0 .. Bounds + 1 : Upto(Nothing, c) = 0}
<1>1. 0 \in T BY <1>0, <1>a
<1>2. \A c \in 1 .. Bounds + 1 : c - 1 \in T => c \in T BY <1>0, <1>a DEF Buckets, Nothing
<1>3. 0 .. Bounds + 1 \subseteq T
  <2> HIDE DEF T
  <2> QED BY <1>0, <1>1, <1>2, InductionUpTo
<1> QED BY <1>3

LEMMA UptoAdds ==
    ASSUME NEW f, f \in Tables, NEW b, b \in Buckets, NEW c, c \in 0 .. Bounds + 1
    PROVE  Upto([f EXCEPT ![b] = @ + 1], c) = Upto(f, c) + IF b <= c THEN 1 ELSE 0
<1>1. PICK g : g = [f EXCEPT ![b] = @ + 1] OBVIOUS
<1>2. /\ g \in Tables /\ g[b] = f[b] + 1 /\ \A k \in Buckets : k # b => g[k] = f[k]
      /\ \A k \in Buckets : f[k] \in Nat
      BY <1>1 DEF Tables
<1>0. Bounds + 1 \in Nat /\ c \in Nat /\ b \in Nat /\ b > 0 /\ c <= Bounds + 1
      BY LatencyAssumption DEF Buckets
<1>3. /\ Upto(f, 0) = 0 /\ Upto(g, 0) = 0
      /\ \A k \in 0 .. Bounds + 1 : Upto(f, k) \in Nat /\ Upto(g, k) \in Nat
      /\ \A k \in Buckets : Upto(f, k) = Upto(f, k - 1) + f[k] /\ Upto(g, k) = Upto(g, k - 1) + g[k]
      BY <1>2, UptoIs
<1> DEFINE T == {k \in 0 .. c : Upto(g, k) = Upto(f, k) + IF b <= k THEN 1 ELSE 0}
<1>4. 0 \in T BY <1>0, <1>3
<1>5. \A k \in 1 .. c : k - 1 \in T => k \in T
  <2> SUFFICES ASSUME NEW k \in 1 .. c, k - 1 \in T PROVE k \in T OBVIOUS
  <2>1. k \in Buckets /\ k - 1 \in 0 .. Bounds + 1 BY <1>0 DEF Buckets
  <2>2. Upto(f, k) = Upto(f, k - 1) + f[k] /\ Upto(g, k) = Upto(g, k - 1) + g[k] BY <1>3, <2>1
  <2>3. Upto(f, k - 1) \in Nat /\ Upto(g, k - 1) \in Nat /\ f[k] \in Nat BY <1>2, <1>3, <2>1
  <2>4. Upto(g, k - 1) = Upto(f, k - 1) + IF b <= k - 1 THEN 1 ELSE 0 OBVIOUS
  <2>5. g[k] = f[k] + IF b = k THEN 1 ELSE 0 BY <1>2, <2>1, <2>3
  <2>6. Upto(g, k) = Upto(f, k) + IF b <= k THEN 1 ELSE 0
    <3>1. CASE b = k BY <1>0, <2>2, <2>3, <2>4, <2>5, <3>1
    <3>2. CASE b < k BY <1>0, <2>2, <2>3, <2>4, <2>5, <3>2
    <3>3. CASE b > k BY <1>0, <2>2, <2>3, <2>4, <2>5, <3>3
    <3> QED BY <1>0, <3>1, <3>2, <3>3
  <2> QED BY <2>6
<1>6. c \in T
  <2> HIDE DEF T
  <2> QED BY <1>0, <1>4, <1>5, InductionUpTo
<1> QED BY <1>1, <1>6

\* What a list of the good scrapes among the first n holds.
Rises(v) == \A i \in 1 .. Len(v) - 1 : v[i][Bounds + 1] <= v[i + 1][Bounds + 1]
GoodOf(v, n) ==
    /\ v \in Seq(Tables)
    /\ v = <<>> => \A k \in 1 .. n : scrapes[k] = <<>>
    /\ v # <<>> => \E i, j \in 1 .. n :
          /\ scrapes[i] # <<>> /\ v[1] = scrapes[i] /\ \A k \in 1 .. n : k < i => scrapes[k] = <<>>
          /\ scrapes[j] # <<>> /\ v[Len(v)] = scrapes[j] /\ \A k \in 1 .. n : k > j => scrapes[k] = <<>>
    /\ Rises(v) => \A i, k \in 1 .. n : i < k /\ scrapes[i] # <<>> /\ scrapes[k] # <<>> =>
          scrapes[i][Bounds + 1] <= scrapes[k][Bounds + 1]

LEMMA WithGoodTyped ==
    ASSUME scrapes \in Seq(Tables \cup {<<>>}), NEW v \in Seq(Tables), NEW n \in 1 .. Len(scrapes)
    PROVE  WithGood(v, n) \in Seq(Tables)
BY DEF WithGood

LEMMA WithGoodKeeps ==
    ASSUME scrapes \in Seq(Tables \cup {<<>>}), NEW n \in 1 .. Len(scrapes), NEW v,
           GoodOf(v, n - 1)
    PROVE  GoodOf(WithGood(v, n), n)
<1>1. /\ v \in Seq(Tables) /\ Len(v) \in Nat /\ n \in Nat /\ n - 1 \in Nat
      /\ \A k \in 1 .. n : k = n \/ k \in 1 .. n - 1
      /\ 1 .. n - 1 \subseteq 1 .. n
      BY DEF GoodOf
<1>2. CASE scrapes[n] = <<>>
  <2>1. WithGood(v, n) = v BY <1>2 DEF WithGood
  <2>2. v = <<>> => \A k \in 1 .. n : scrapes[k] = <<>> BY <1>1, <1>2 DEF GoodOf
  <2>3. v # <<>> => \E i, j \in 1 .. n :
          /\ scrapes[i] # <<>> /\ v[1] = scrapes[i] /\ \A k \in 1 .. n : k < i => scrapes[k] = <<>>
          /\ scrapes[j] # <<>> /\ v[Len(v)] = scrapes[j] /\ \A k \in 1 .. n : k > j => scrapes[k] = <<>>
    <3> SUFFICES ASSUME v # <<>>
                 PROVE  \E i, j \in 1 .. n :
          /\ scrapes[i] # <<>> /\ v[1] = scrapes[i] /\ \A k \in 1 .. n : k < i => scrapes[k] = <<>>
          /\ scrapes[j] # <<>> /\ v[Len(v)] = scrapes[j] /\ \A k \in 1 .. n : k > j => scrapes[k] = <<>>
        OBVIOUS
    <3>1. PICK i \in 1 .. n - 1, j \in 1 .. n - 1 :
          /\ scrapes[i] # <<>> /\ v[1] = scrapes[i] /\ \A k \in 1 .. n - 1 : k < i => scrapes[k] = <<>>
          /\ scrapes[j] # <<>> /\ v[Len(v)] = scrapes[j] /\ \A k \in 1 .. n - 1 : k > j => scrapes[k] = <<>>
          BY DEF GoodOf
    <3>2. i \in 1 .. n /\ j \in 1 .. n BY <1>1
    <3> QED BY <1>1, <1>2, <3>1, <3>2
  <2>4. Rises(v) => \A i, k \in 1 .. n : i < k /\ scrapes[i] # <<>> /\ scrapes[k] # <<>> =>
          scrapes[i][Bounds + 1] <= scrapes[k][Bounds + 1]
        BY <1>1, <1>2 DEF GoodOf
  <2>5. GoodOf(v, n) BY <1>1, <2>2, <2>3, <2>4 DEF GoodOf
  <2> QED BY <2>1, <2>5
<1>3. CASE scrapes[n] # <<>>
  <2>1. PICK w : w = Append(v, scrapes[n]) OBVIOUS
  <2>2. scrapes[n] \in Tables BY <1>3
  <2>3. /\ w \in Seq(Tables) /\ Len(w) = Len(v) + 1 /\ w[Len(w)] = scrapes[n]
        /\ \A i \in 1 .. Len(v) : w[i] = v[i]
        /\ w # <<>>
        BY <1>1, <2>1, <2>2
  <2>4. \E i, j \in 1 .. n :
          /\ scrapes[i] # <<>> /\ w[1] = scrapes[i] /\ \A k \in 1 .. n : k < i => scrapes[k] = <<>>
          /\ scrapes[j] # <<>> /\ w[Len(w)] = scrapes[j] /\ \A k \in 1 .. n : k > j => scrapes[k] = <<>>
    <3>0. n \in 1 .. n /\ \A k \in 1 .. n : ~(k > n) BY <1>1
    <3>1. CASE v = <<>>
      <4>1. Len(w) = 1 /\ \A k \in 1 .. n - 1 : scrapes[k] = <<>> BY <2>3, <3>1 DEF GoodOf
      <4>2. \A k \in 1 .. n : k < n => scrapes[k] = <<>> BY <1>1, <4>1
      <4> QED BY <1>3, <2>3, <3>0, <4>1, <4>2
    <3>2. CASE v # <<>>
      <4>1. PICK i \in 1 .. n - 1 :
              scrapes[i] # <<>> /\ v[1] = scrapes[i] /\ \A k \in 1 .. n - 1 : k < i => scrapes[k] = <<>>
            BY <3>2 DEF GoodOf
      <4>2. 1 \in 1 .. Len(v) BY <1>1, <3>2
      <4>3. w[1] = scrapes[i] /\ i \in 1 .. n BY <1>1, <2>3, <4>1, <4>2
      <4>4. \A k \in 1 .. n : k < i => scrapes[k] = <<>> BY <1>1, <4>1
      <4> QED BY <1>3, <2>3, <3>0, <4>1, <4>3, <4>4
    <3> QED BY <3>1, <3>2
  <2>5. ASSUME Rises(w), NEW i \in 1 .. n, NEW k \in 1 .. n, i < k, scrapes[i] # <<>>, scrapes[k] # <<>>
        PROVE  scrapes[i][Bounds + 1] <= scrapes[k][Bounds + 1]
    <3>1. i \in 1 .. n - 1 BY <1>1, <2>5
    <3>2. v # <<>> BY <2>5, <3>1 DEF GoodOf
    <3>3. Rises(v)
      <4> SUFFICES ASSUME NEW m \in 1 .. Len(v) - 1
                   PROVE  v[m][Bounds + 1] <= v[m + 1][Bounds + 1]
          BY DEF Rises
      <4>1. m \in 1 .. Len(w) - 1 /\ m \in 1 .. Len(v) /\ m + 1 \in 1 .. Len(v) BY <1>1, <2>3
      <4> QED BY <2>3, <2>5, <4>1 DEF Rises
    <3>4. \A a, b \in 1 .. n - 1 : a < b /\ scrapes[a] # <<>> /\ scrapes[b] # <<>> =>
            scrapes[a][Bounds + 1] <= scrapes[b][Bounds + 1]
          BY <3>3 DEF GoodOf
    <3>5. CASE k # n
      <4>1. k \in 1 .. n - 1 BY <1>1, <3>5
      <4> QED BY <2>5, <3>1, <3>4, <4>1
    <3>6. CASE k = n
      <4>1. PICK j \in 1 .. n - 1 :
              scrapes[j] # <<>> /\ v[Len(v)] = scrapes[j] /\ \A a \in 1 .. n - 1 : a > j => scrapes[a] = <<>>
            BY <3>2 DEF GoodOf
      <4>2. Len(v) \in 1 .. Len(v) /\ Len(v) \in 1 .. Len(w) - 1 BY <1>1, <2>3, <3>2
      <4>3. w[Len(v)][Bounds + 1] <= w[Len(v) + 1][Bounds + 1] BY <2>5, <4>2 DEF Rises
      <4>4. scrapes[j][Bounds + 1] <= scrapes[n][Bounds + 1] BY <2>3, <4>1, <4>2, <4>3
      <4>5. i <= j BY <1>1, <2>5, <3>1, <4>1
      <4>6. scrapes[i][Bounds + 1] <= scrapes[j][Bounds + 1]
        <5>1. scrapes[i] \in Tables BY <2>5
        <5>2. scrapes[i][Bounds + 1] \in Nat BY <5>1, LatencyAssumption DEF Tables, Buckets
        <5>3. CASE i = j BY <5>2, <5>3
        <5>4. CASE i < j BY <2>5, <3>1, <3>4, <4>1, <5>4
        <5> QED BY <1>1, <4>5, <5>3, <5>4
      <4>7. /\ scrapes[i][Bounds + 1] \in Nat /\ scrapes[j][Bounds + 1] \in Nat
            /\ scrapes[n][Bounds + 1] \in Nat
        <5>1. scrapes[i] \in Tables /\ scrapes[j] \in Tables /\ scrapes[n] \in Tables
              BY <1>1, <2>2, <2>5, <4>1
        <5> QED BY <5>1, LatencyAssumption DEF Tables, Buckets
      <4> QED BY <3>6, <4>4, <4>6, <4>7
    <3> QED BY <3>5, <3>6
  <2>6. GoodOf(w, n) BY <2>3, <2>4, <2>5 DEF GoodOf
  <2> QED BY <1>3, <2>1, <2>6 DEF WithGood
<1> QED BY <1>2, <1>3

LEMMA GoodIs ==
    ASSUME scrapes \in Seq(Tables \cup {<<>>})
    PROVE  GoodOf(Good, Len(scrapes))
<1> DEFINE N == Len(scrapes)
           V == Seq(Tables)
           Fcn(f) == [i \in 0 .. N |-> IF i = 0 THEN <<>> ELSE WithGood(f[i - 1], i)]
           of == CHOOSE f : f = Fcn(f)
           step == [p \in (1 .. N) \X V |-> WithGood(p[2], p[1])]
           Right == {n \in 0 .. N : GoodOf(of[n], n)}
<1>0. N \in Nat /\ <<>> \in V OBVIOUS
<1>1. step \in [(1 .. N) \X V -> V] BY WithGoodTyped
<1>2. PICK g : Walks(g, V, <<>>, N, step)
  <2> HIDE DEF step, N, V
  <2> QED BY <1>0, <1>1, Recursion
<1>3. g = Fcn(g)
  <2>1. \A i \in 1 .. N : g[i] = WithGood(g[i - 1], i)
    <3>1. \A i \in 1 .. N, x \in V : step[<<i, x>>] = WithGood(x, i) OBVIOUS
    <3> HIDE DEF step, N, V
    <3>2. ASSUME NEW i \in 1 .. N PROVE i - 1 \in 0 .. N /\ g[i - 1] \in V
          BY <1>0, <1>2 DEF Walks
    <3> QED BY <1>2, <3>1, <3>2 DEF Walks
  <2>2. DOMAIN g = 0 .. N /\ g = [i \in 0 .. N |-> g[i]] /\ g[0] = <<>>
        BY <1>2 DEF Walks
  <2> QED BY <1>0, <2>1, <2>2
<1>4. of = Fcn(of)
  <2> HIDE DEF Fcn
  <2> QED BY <1>3
<1>5. of[0] = <<>> /\ \A i \in 1 .. N : of[i] = WithGood(of[i - 1], i)
  <2> HIDE DEF of
  <2> QED BY <1>0, <1>4
<1> HIDE DEF of
<1>6. 0 \in Right
  <2>0. Len(<<>>) = 0 OBVIOUS
  <2>1. PICK none : none = <<>> /\ none \in Seq(Tables) /\ Len(none) = 0 BY <1>0, <2>0
  <2>2. GoodOf(none, 0) BY <2>1 DEF GoodOf, Rises
  <2> QED BY <1>0, <1>5, <2>1, <2>2
<1>7. \A n \in 1 .. N : n - 1 \in Right => n \in Right
  <2> SUFFICES ASSUME NEW n \in 1 .. N, n - 1 \in Right PROVE n \in Right
      OBVIOUS
  <2>1. GoodOf(of[n - 1], n - 1) /\ of[n] = WithGood(of[n - 1], n) /\ n \in 0 .. N
        BY <1>0, <1>5
  <2>2. GoodOf(of[n], n) BY <2>1, WithGoodKeeps
  <2> QED BY <2>1, <2>2
<1>8. N \in Right
  <2> HIDE DEF Right, N
  <2> QED BY <1>0, <1>6, <1>7, InductionUpTo
<1>9. Good = of[N] BY DEF Good, of
<1> QED BY <1>8, <1>9

LEMMA TableIsGood == <<>> \notin Tables
<1>1. DOMAIN <<>> = {} OBVIOUS
<1>2. PICK none : none = <<>> /\ DOMAIN none = {} BY <1>1
<1>3. Bounds + 1 \in Buckets BY LatencyAssumption DEF Buckets
<1>4. none \notin Tables BY <1>2, <1>3 DEF Tables
<1> QED BY <1>2, <1>4

LEMMA ParsedIsTable == counts \in Tables => Parsed \in Tables /\ \A b \in Buckets : Parsed[b] = Upto(counts, b)
<1> SUFFICES ASSUME counts \in Tables PROVE Parsed \in Tables /\ \A b \in Buckets : Parsed[b] = Upto(counts, b)
    OBVIOUS
<1>1. \A b \in Buckets : Upto(counts, b) \in Nat
  <2>1. \A b \in 0 .. Bounds + 1 : Upto(counts, b) \in Nat BY UptoIs
  <2> QED BY <2>1 DEF Buckets
<1> QED BY <1>1 DEF Parsed, Tables

\* What the scrapes t have in common with the scrapes s before the last of them.
OneMore(s, t, x) ==
    /\ s \in Seq(Tables \cup {<<>>}) /\ t \in Seq(Tables \cup {<<>>})
    /\ Len(t) = Len(s) + 1 /\ t[Len(t)] = x
    /\ \A i \in DOMAIN s : i \in DOMAIN t /\ i < Len(t) /\ t[i] = s[i]
    /\ \A i \in DOMAIN t : i = Len(t) \/ i \in DOMAIN s
    /\ Len(t) \in DOMAIN t /\ Len(s) \in Nat
    /\ DOMAIN s \subseteq Nat /\ DOMAIN t \subseteq Nat

LEMMA AppendIsOneMore ==
    ASSUME NEW s \in Seq(Tables \cup {<<>>}), NEW x \in Tables \cup {<<>>}
    PROVE  OneMore(s, Append(s, x), x)
<1>1. PICK t : t = Append(s, x) OBVIOUS
<1>2. t \in Seq(Tables \cup {<<>>}) /\ Len(t) = Len(s) + 1 /\ t[Len(t)] = x BY <1>1
<1>3. \A i \in DOMAIN s : t[i] = s[i] BY <1>1
<1>4. DOMAIN s = 1 .. Len(s) /\ DOMAIN t = 1 .. Len(t) /\ Len(s) \in Nat BY <1>2
<1>5. OneMore(s, t, x) BY <1>2, <1>3, <1>4 DEF OneMore
<1> QED BY <1>1, <1>5

LEMMA RisingBefore ==
    ASSUME NEW s, NEW t, NEW x, OneMore(s, t, x), Rising(t)
    PROVE  Rising(s)
<1> SUFFICES ASSUME NEW i \in DOMAIN s, NEW k \in DOMAIN s, i < k, s[i] # <<>>, s[k] # <<>>
             PROVE  s[i][Bounds + 1] <= s[k][Bounds + 1]
    BY DEF Rising
<1>1. i \in DOMAIN t /\ k \in DOMAIN t /\ t[i] = s[i] /\ t[k] = s[k] BY DEF OneMore
<1> QED BY <1>1 DEF Rising

LEMMA FirstStays ==
    ASSUME NEW s, NEW t, NEW x, OneMore(s, t, x), NEW i, FirstGood(t, i),
           \E k \in DOMAIN s : s[k] # <<>>
    PROVE  FirstGood(s, i) /\ t[i] = s[i]
<1>1. PICK k \in DOMAIN s : s[k] # <<>> OBVIOUS
<1>2. i # Len(t) BY <1>1 DEF OneMore, FirstGood
<1>3. i \in DOMAIN s /\ t[i] = s[i] BY <1>2 DEF OneMore, FirstGood, Sampled
<1> QED BY <1>3 DEF OneMore, FirstGood, Sampled

LEMMA LastBefore ==
    ASSUME NEW s, NEW t, OneMore(s, t, <<>>), NEW j, LastGood(t, j)
    PROVE  LastGood(s, j) /\ t[j] = s[j]
<1>1. PICK x : x = <<>> OBVIOUS
<1>2. OneMore(s, t, x) BY <1>1
<1>3. j # Len(t) BY <1>1, <1>2 DEF OneMore, LastGood, Sampled
<1>4. j \in DOMAIN s /\ t[j] = s[j] BY <1>2, <1>3 DEF OneMore, LastGood, Sampled
<1> QED BY <1>2, <1>4 DEF OneMore, LastGood, Sampled

LEMMA LastIsNew ==
    ASSUME NEW s, NEW t, NEW x, x # <<>>, OneMore(s, t, x), NEW j, LastGood(t, j)
    PROVE  j = Len(t)
<1>1. t[Len(t)] # <<>> /\ Len(t) \in DOMAIN t BY DEF OneMore
<1>2. j \in DOMAIN t /\ ~(Len(t) > j) BY <1>1 DEF LastGood, Sampled
<1> QED BY <1>2 DEF OneMore

\* The list of the good scrapes is empty before the first of them, and ends
\* with the last of them.
LEMMA GoodEnds ==
    ASSUME scrapes \in Seq(Tables \cup {<<>>})
    PROVE  /\ Good \in Seq(Tables)
           /\ Good = <<>> => \A i \in DOMAIN scrapes : scrapes[i] = <<>>
           /\ Good # <<>> =>
                /\ \E i \in DOMAIN scrapes : FirstGood(scrapes, i) /\ Good[1] = scrapes[i]
                /\ \E j \in DOMAIN scrapes : LastGood(scrapes, j) /\ Good[Len(Good)] = scrapes[j]
           /\ Rises(Good) => Rising(scrapes)
<1>1. PICK g : g = Good OBVIOUS
<1>2. GoodOf(g, Len(scrapes)) BY <1>1, GoodIs
<1>3. DOMAIN scrapes = 1 .. Len(scrapes) OBVIOUS
<1>4. g \in Seq(Tables) /\ (g = <<>> => \A i \in DOMAIN scrapes : scrapes[i] = <<>>)
      BY <1>2, <1>3 DEF GoodOf
<1>5. ASSUME g # <<>>
      PROVE  /\ \E i \in DOMAIN scrapes : FirstGood(scrapes, i) /\ g[1] = scrapes[i]
             /\ \E j \in DOMAIN scrapes : LastGood(scrapes, j) /\ g[Len(g)] = scrapes[j]
  <2>1. PICK i \in DOMAIN scrapes, j \in DOMAIN scrapes :
          /\ scrapes[i] # <<>> /\ g[1] = scrapes[i]
          /\ \A k \in DOMAIN scrapes : k < i => scrapes[k] = <<>>
          /\ scrapes[j] # <<>> /\ g[Len(g)] = scrapes[j]
          /\ \A k \in DOMAIN scrapes : k > j => scrapes[k] = <<>>
        BY <1>2, <1>3, <1>5 DEF GoodOf
  <2>2. FirstGood(scrapes, i) /\ LastGood(scrapes, j) BY <2>1 DEF FirstGood, LastGood, Sampled
  <2> QED BY <2>1, <2>2
<1>6. Rises(g) => Rising(scrapes) BY <1>2, <1>3 DEF GoodOf, Rising
<1> QED BY <1>1, <1>4, <1>5, <1>6

LEMMA LhInvInit == LhInit => LhInv
<1> SUFFICES ASSUME LhInit PROVE LhInv OBVIOUS
<1>1. Nothing \in Tables BY DEF Nothing, Tables
<1>2. LhType
  <2>1. <<>> \in Seq(Tables \cup {<<>>}) OBVIOUS
  <2>2. scrapes \in Seq(Tables \cup {<<>>}) BY <2>1 DEF LhInit
  <2>3. counts \in Tables /\ observed \in Tables /\ truth \in Tables BY <1>1 DEF LhInit
  <2> QED BY <2>2, <2>3 DEF LhInit, LhType
<1>3. DOMAIN scrapes = {} BY DEF LhInit
<1>4. TablesFit BY <1>3 DEF LhInit, TablesFit
<1> QED BY <1>2, <1>4 DEF LhInv

LEMMA ObserveFits == ASSUME NEW b \in Buckets PROVE LhInv /\ Observe(b) => LhInv'
<1> SUFFICES ASSUME LhInv, Observe(b) PROVE LhInv' OBVIOUS
<1>0. /\ counts \in Tables /\ observed \in Tables /\ scrapes \in Seq(Tables \cup {<<>>})
      /\ scrapes' = scrapes /\ truth' = truth /\ restarted' = restarted /\ hidden' = hidden
      /\ counts' = [counts EXCEPT ![b] = @ + 1]
      /\ observed' = IF Good = <<>> THEN observed ELSE [observed EXCEPT ![b] = @ + 1]
      BY DEF LhInv, LhType, Observe
<1>1. LhType' BY <1>0 DEF LhInv, LhType, Tables
<1>2. (\A i \in DOMAIN scrapes : scrapes[i] = <<>>) => Good = <<>> BY <1>0, GoodEnds DEF FirstGood, Sampled
<1>3. ASSUME \A i \in DOMAIN scrapes : scrapes[i] = <<>>
      PROVE  observed' = Nothing /\ truth' = Nothing /\ ~restarted'
      BY <1>0, <1>2, <1>3 DEF LhInv, TablesFit
<1>4. ASSUME ~hidden, Rising(scrapes), NEW i \in DOMAIN scrapes, NEW j \in DOMAIN scrapes,
             FirstGood(scrapes, i), LastGood(scrapes, j), NEW c \in Buckets
      PROVE  /\ scrapes[j][c] = scrapes[i][c] + Upto(truth, c)
             /\ ~restarted => Upto(counts', c) = scrapes[i][c] + Upto(observed', c)
  <2>1. /\ scrapes[j][c] = scrapes[i][c] + Upto(truth, c)
        /\ ~restarted => Upto(counts, c) = scrapes[i][c] + Upto(observed, c)
        BY <1>4 DEF LhInv, TablesFit
  <2>2. Good # <<>> BY <1>0, <1>4, GoodEnds DEF FirstGood, Sampled
  <2>3. observed' = [observed EXCEPT ![b] = @ + 1] BY <1>0, <2>2
  <2>4. c \in 0 .. Bounds + 1 BY DEF Buckets
  <2>5. PICK one : one = IF b <= c THEN 1 ELSE 0 OBVIOUS
  <2>a. \A f \in Tables : Upto([f EXCEPT ![b] = @ + 1], c) = Upto(f, c) + IF b <= c THEN 1 ELSE 0
        BY <2>4, UptoAdds
  <2>b. \A f \in Tables : Upto([f EXCEPT ![b] = @ + 1], c) = Upto(f, c) + one BY <2>5, <2>a
  <2>6. Upto(counts', c) = Upto(counts, c) + one /\ Upto(observed', c) = Upto(observed, c) + one
        BY <1>0, <2>3, <2>b
  <2>7. Upto(observed, c) \in Nat /\ one \in Nat /\ scrapes[i][c] \in Nat
    <3>1. Upto(observed, c) \in Nat BY <1>0, <2>4, UptoIs
    <3>2. scrapes[i] \in Tables BY <1>0, <1>4 DEF FirstGood, Sampled
    <3> QED BY <2>5, <3>1, <3>2 DEF Tables
  <2> QED BY <2>1, <2>6, <2>7
<1>6. scrapes' = scrapes /\ truth' = truth /\ restarted' = restarted /\ hidden' = hidden
      BY <1>0
<1>5. TablesFit' BY <1>3, <1>4, <1>6 DEF TablesFit, FirstGood, LastGood, Sampled, Rising
<1> QED BY <1>1, <1>5 DEF LhInv

LEMMA RestartFits == LhInv /\ Restart => LhInv'
<1> SUFFICES ASSUME LhInv, Restart PROVE LhInv' OBVIOUS
<1>0. /\ scrapes \in Seq(Tables \cup {<<>>}) /\ Nothing \in Tables
      /\ scrapes' = scrapes /\ truth' = truth /\ observed' = observed /\ hidden' = hidden
      /\ counts' = Nothing /\ restarted' = (Good # <<>>)
      BY DEF LhInv, LhType, Restart, Nothing, Tables
<1>1. LhType' BY <1>0 DEF LhInv, LhType
<1>2. (\A i \in DOMAIN scrapes : scrapes[i] = <<>>) <=> Good = <<>> BY <1>0, GoodEnds DEF FirstGood, Sampled
<1>3. ASSUME \A i \in DOMAIN scrapes : scrapes[i] = <<>>
      PROVE  observed' = Nothing /\ truth' = Nothing /\ ~restarted'
      BY <1>0, <1>2, <1>3 DEF LhInv, TablesFit
<1>4. ASSUME ~hidden, Rising(scrapes), NEW i \in DOMAIN scrapes, NEW j \in DOMAIN scrapes,
             FirstGood(scrapes, i), LastGood(scrapes, j), NEW c \in Buckets
      PROVE  scrapes[j][c] = scrapes[i][c] + Upto(truth, c) /\ restarted'
      BY <1>0, <1>2, <1>4 DEF LhInv, TablesFit, FirstGood, Sampled
<1>5. TablesFit' BY <1>0, <1>3, <1>4 DEF TablesFit, FirstGood, LastGood, Sampled, Rising
<1> QED BY <1>1, <1>5 DEF LhInv

LEMMA ScrapeFailsFits == LhInv /\ ScrapeFails => LhInv'
<1> SUFFICES ASSUME LhInv, ScrapeFails PROVE LhInv' OBVIOUS
<1>0. /\ scrapes \in Seq(Tables \cup {<<>>})
      /\ scrapes' = Append(scrapes, <<>>) /\ truth' = truth /\ observed' = observed
      /\ hidden' = hidden /\ counts' = counts /\ restarted' = restarted
      BY DEF LhInv, LhType, ScrapeFails
<1>a. PICK x : x = <<>> OBVIOUS
<1>b. OneMore(scrapes, scrapes', x) BY <1>0, <1>a, AppendIsOneMore
<1>1. LhType' BY <1>0, <1>b DEF LhInv, LhType, OneMore
<1>3. ASSUME \A i \in DOMAIN scrapes' : scrapes'[i] = <<>>
      PROVE  observed = Nothing /\ truth = Nothing /\ ~restarted
  <2>1. \A i \in DOMAIN scrapes : scrapes[i] = <<>> BY <1>3, <1>b DEF OneMore
  <2> QED BY <2>1 DEF LhInv, TablesFit
<1>4. ASSUME ~hidden, Rising(scrapes'), NEW i \in DOMAIN scrapes', NEW j \in DOMAIN scrapes',
             FirstGood(scrapes', i), LastGood(scrapes', j), NEW c \in Buckets
      PROVE  /\ scrapes'[j][c] = scrapes'[i][c] + Upto(truth, c)
             /\ ~restarted => Upto(counts, c) = scrapes'[i][c] + Upto(observed, c)
  <2>1. LastGood(scrapes, j) /\ scrapes'[j] = scrapes[j] BY <1>a, <1>b, <1>4, LastBefore
  <2>2. \E k \in DOMAIN scrapes : scrapes[k] # <<>> BY <2>1 DEF LastGood, Sampled
  <2>3. FirstGood(scrapes, i) /\ scrapes'[i] = scrapes[i] BY <1>b, <1>4, <2>2, FirstStays
  <2>4. Rising(scrapes) BY <1>b, <1>4, RisingBefore
  <2>5. i \in DOMAIN scrapes /\ j \in DOMAIN scrapes BY <2>1, <2>3 DEF FirstGood, LastGood, Sampled
  <2> QED BY <1>4, <2>1, <2>3, <2>4, <2>5 DEF LhInv, TablesFit
<1>5. TablesFit' BY <1>0, <1>3, <1>4 DEF TablesFit, FirstGood, LastGood, Sampled, Rising
<1> QED BY <1>1, <1>5 DEF LhInv

LEMMA ScrapeFits == LhInv /\ Scrape => LhInv'
<1> SUFFICES ASSUME LhInv, Scrape PROVE LhInv' OBVIOUS
<1>0. /\ scrapes \in Seq(Tables \cup {<<>>}) /\ counts \in Tables /\ observed \in Tables
      /\ scrapes' = Append(scrapes, Parsed) /\ truth' = observed /\ observed' = observed
      /\ hidden' = (hidden \/ (restarted /\ Parsed[Bounds + 1] >= Last(Good)[Bounds + 1]))
      /\ counts' = counts /\ restarted' = FALSE
      BY DEF LhInv, LhType, Scrape
<1>a. PICK x : x = Parsed OBVIOUS
<1>c. x \in Tables /\ x # <<>> /\ \A c \in Buckets : x[c] = Upto(counts, c)
      BY <1>0, <1>a, ParsedIsTable, TableIsGood
<1>b. OneMore(scrapes, scrapes', x) BY <1>0, <1>a, <1>c, AppendIsOneMore
<1>1. LhType'
  <2>1. hidden' \in BOOLEAN BY <1>0 DEF LhInv, LhType
  <2> QED BY <1>0, <1>b, <2>1 DEF LhInv, LhType, OneMore
<1>3. ~\A i \in DOMAIN scrapes' : scrapes'[i] = <<>> BY <1>b, <1>c DEF OneMore
<1>4. ASSUME ~hidden', Rising(scrapes'), NEW i \in DOMAIN scrapes', NEW j \in DOMAIN scrapes',
             FirstGood(scrapes', i), LastGood(scrapes', j), NEW c \in Buckets
      PROVE  /\ scrapes'[j][c] = scrapes'[i][c] + Upto(observed, c)
             /\ Upto(counts, c) = scrapes'[i][c] + Upto(observed, c)
  <2>1. j = Len(scrapes') /\ scrapes'[j][c] = Upto(counts, c)
    <3>1. j = Len(scrapes') BY <1>b, <1>c, <1>4, LastIsNew
    <3> QED BY <1>b, <1>c, <3>1 DEF OneMore
  <2>2. c \in 0 .. Bounds + 1 BY DEF Buckets
  <2>3. Upto(counts, c) \in Nat BY <1>0, <2>2, UptoIs
  <2>4. Rising(scrapes) BY <1>b, <1>4, RisingBefore
  <2>5. CASE \A k \in DOMAIN scrapes : scrapes[k] = <<>>
    <3>1. Upto(observed, c) = 0 BY <2>2, <2>5, UptoNothing DEF LhInv, TablesFit
    <3>2. i = Len(scrapes') BY <1>b, <1>4, <2>5 DEF OneMore, FirstGood, Sampled
    <3> QED BY <2>1, <2>3, <3>1, <3>2
  <2>6. CASE \E k \in DOMAIN scrapes : scrapes[k] # <<>>
    <3>1. FirstGood(scrapes, i) /\ scrapes'[i] = scrapes[i] /\ i \in DOMAIN scrapes
      <4>1. FirstGood(scrapes, i) /\ scrapes'[i] = scrapes[i] BY <1>b, <1>4, <2>6, FirstStays
      <4> QED BY <4>1 DEF FirstGood, Sampled
    <3>2. PICK k \in DOMAIN scrapes : LastGood(scrapes, k) /\ Good[Len(Good)] = scrapes[k]
      BY <1>0, <2>6, GoodEnds
    <3>3. ~restarted
      <4> SUFFICES ASSUME restarted PROVE FALSE OBVIOUS
      <4>1. ~(x[Bounds + 1] >= Last(Good)[Bounds + 1]) BY <1>0, <1>a, <1>4
      <4>2. Last(Good) = scrapes[k] BY <3>2 DEF Last
      <4>3. /\ k \in DOMAIN scrapes' /\ k < Len(scrapes') /\ scrapes'[k] = scrapes[k]
            /\ Len(scrapes') \in DOMAIN scrapes' /\ scrapes'[Len(scrapes')] = x
            BY <1>b DEF OneMore
      <4>4. scrapes[k] # <<>> BY <3>2 DEF LastGood, Sampled
      <4>5. scrapes[k][Bounds + 1] <= x[Bounds + 1] BY <1>c, <1>4, <4>3, <4>4 DEF Rising
      <4>6. x[Bounds + 1] \in Nat /\ scrapes[k][Bounds + 1] \in Nat
        <5>1. scrapes[k] \in Tables BY <1>0, <4>4
        <5> QED BY <1>c, <5>1, LatencyAssumption DEF Tables, Buckets
      <4> QED BY <4>1, <4>2, <4>5, <4>6
    <3>4. ~hidden BY <1>0, <1>4
    <3>5. Upto(counts, c) = scrapes[i][c] + Upto(observed, c)
      BY <2>4, <3>1, <3>2, <3>3, <3>4 DEF LhInv, TablesFit
    <3> QED BY <2>1, <3>1, <3>5
  <2> QED BY <2>5, <2>6
<1>5. TablesFit' BY <1>0, <1>3, <1>4 DEF TablesFit, FirstGood, LastGood, Sampled, Rising
<1> QED BY <1>1, <1>5 DEF LhInv

LEMMA LhInvNext == LhInv /\ [LhNext]_lhVars => LhInv'
<1> SUFFICES ASSUME LhInv, [LhNext]_lhVars PROVE LhInv' OBVIOUS
<1>1. CASE \E b \in Buckets : Observe(b) BY <1>1, ObserveFits
<1>2. CASE Restart BY <1>2, RestartFits
<1>3. CASE Scrape BY <1>3, ScrapeFits
<1>4. CASE ScrapeFails BY <1>4, ScrapeFailsFits
<1>5. CASE UNCHANGED lhVars
  <2>1. UNCHANGED <<counts, scrapes, observed, truth, restarted, hidden>> BY <1>5 DEF lhVars
  <2> QED BY <2>1 DEF LhInv, LhType, TablesFit, FirstGood, LastGood, Sampled, Rising
<1> QED BY <1>1, <1>2, <1>3, <1>4, <1>5 DEF LhNext

LEMMA Shares ==
    ASSUME NEW p \in 1 .. 100, NEW c \in Nat
    PROVE  p * c \in Int /\ p * c <= 100 * c /\ (c > 0 => p * c > 0)
OBVIOUS

\* What the counters of the good scrapes show when they never went back.
LEMMA DeltasAreTrue ==
    ASSUME LhInv, ~hidden, CountDelta(Good) > 0
    PROVE  /\ CountDelta(Good) = All(truth)
           /\ BucketDelta(Good) # <<>> => \A b \in Buckets : BucketDelta(Good)[b] = Upto(truth, b)
<1>1. PICK g : g = Good OBVIOUS
<1>2. PICK n : n = Bounds + 1 OBVIOUS
<1>0. n \in Buckets BY <1>2, LatencyAssumption DEF Buckets
<1>3. g \in Seq(Tables) BY <1>1, GoodEnds DEF LhInv, LhType
<1>4. /\ Len(g) >= 2 /\ ~\E i \in 1 .. Len(g) - 1 : g[i + 1][n] < g[i][n]
      /\ CountDelta(g) = g[Len(g)][n] - g[1][n]
      BY <1>1, <1>2 DEF CountDelta
<1>5. Rising(scrapes)
  <2>1. ASSUME NEW i \in 1 .. Len(g) - 1 PROVE g[i][n] <= g[i + 1][n]
    <3>1. i \in 1 .. Len(g) /\ i + 1 \in 1 .. Len(g) BY <1>3
    <3>2. g[i] \in Tables /\ g[i + 1] \in Tables BY <1>3, <3>1
    <3>3. g[i][n] \in Nat /\ g[i + 1][n] \in Nat BY <1>0, <3>2 DEF Tables
    <3> QED BY <1>4, <3>3
  <2>2. Rises(g) BY <1>2, <2>1 DEF Rises
  <2> QED BY <1>1, <2>2, GoodEnds DEF LhInv, LhType
<1>6. g # <<>> BY <1>3, <1>4
<1>7. PICK i \in DOMAIN scrapes, j \in DOMAIN scrapes :
         /\ FirstGood(scrapes, i) /\ g[1] = scrapes[i]
         /\ LastGood(scrapes, j) /\ g[Len(g)] = scrapes[j]
      BY <1>1, <1>6, GoodEnds DEF LhInv, LhType
<1>8. \A b \in Buckets : g[Len(g)][b] = g[1][b] + Upto(truth, b)
      BY <1>5, <1>7 DEF LhInv, TablesFit
<1>9. \A b \in Buckets : g[1][b] \in Nat /\ Upto(truth, b) \in Nat
  <2>1. 1 \in 1 .. Len(g) BY <1>3, <1>4
  <2>2. g[1] \in Tables BY <1>3, <2>1
  <2>3. \A b \in 0 .. Bounds + 1 : Upto(truth, b) \in Nat BY UptoIs DEF LhInv, LhType
  <2>4. \A b \in Buckets : g[1][b] \in Nat BY <2>2 DEF Tables
  <2>5. \A b \in Buckets : b \in 0 .. Bounds + 1 BY LatencyAssumption DEF Buckets
  <2> QED BY <2>3, <2>4, <2>5
<1>10. CountDelta(g) = Upto(truth, n) BY <1>0, <1>4, <1>8, <1>9
<1>11. ASSUME BucketDelta(g) # <<>>, NEW b \in Buckets
       PROVE  BucketDelta(g)[b] = Upto(truth, b)
  <2>1. BucketDelta(g) = [c \in Buckets |-> Last(g)[c] - Head(g)[c]] BY <1>11 DEF BucketDelta
  <2>2. Last(g) = g[Len(g)] /\ Head(g) = g[1] BY <1>3, <1>6 DEF Last
  <2>3. BucketDelta(g)[b] = g[Len(g)][b] - g[1][b] BY <2>1, <2>2
  <2> QED BY <1>8, <1>9, <2>3
<1> QED BY <1>1, <1>2, <1>10, <1>11 DEF All

LEMMA LhInvReal == LhInv => QuantileIsReal
<1> SUFFICES ASSUME LhInv, ~hidden, NEW percent \in Percents, Quantile(percent).bucket # 0
             PROVE  /\ 100 * Upto(truth, Quantile(percent).bucket) >= percent * All(truth)
                    /\ 100 * Upto(truth, Quantile(percent).bucket - 1) < percent * All(truth)
                    /\ 0 <= Quantile(percent).part
                    /\ Quantile(percent).part <= Quantile(percent).span
    BY DEF QuantileIsReal
<1>1. PICK count : count = CountDelta(Good) OBVIOUS
<1>2. PICK delta : delta = BucketDelta(Good) OBVIOUS
<1>3. PICK rank : rank = percent * count OBVIOUS
<1>4. PICK at : at = Min({b \in Buckets : 100 * delta[b] >= rank}) OBVIOUS
<1>5. PICK before : before = IF at = 1 THEN 0 ELSE delta[at - 1] OBVIOUS
<1>6. delta # <<>> /\ ~(count <= 0)
  <2> SUFFICES ASSUME delta = <<>> \/ count <= 0 PROVE FALSE OBVIOUS
  <2>1. Quantile(percent) = [bucket |-> 0, part |-> 0, span |-> 0] BY <1>1, <1>2 DEF Quantile
  <2> QED BY <2>1
<1>7. Quantile(percent) =
        IF at = Bounds + 1 THEN [bucket |-> at, part |-> 0, span |-> 1]
        ELSE [bucket |-> at, part |-> rank - 100 * before, span |-> 100 * (delta[at] - before)]
      BY <1>1, <1>2, <1>3, <1>4, <1>5, <1>6 DEF Quantile
<1>8. count \in Int
  <2>1. PICK g : g = Good OBVIOUS
  <2>2. g \in Seq(Tables) BY <2>1, GoodEnds DEF LhInv, LhType
  <2>3. CASE Len(g) < 2 BY <1>1, <2>1, <2>3 DEF CountDelta
  <2>4. CASE Len(g) >= 2
    <3>1. g[Len(g)] \in Tables /\ g[1] \in Tables BY <2>2, <2>4
    <3>2. g[Len(g)][Bounds + 1] \in Nat /\ g[1][Bounds + 1] \in Nat
          BY <3>1, LatencyAssumption DEF Tables, Buckets
    <3> QED BY <1>1, <2>1, <3>2 DEF CountDelta
  <2> QED BY <2>2, <2>3, <2>4
<1>9. count > 0 BY <1>6, <1>8
<1>10. count = All(truth) /\ \A b \in Buckets : delta[b] = Upto(truth, b)
       BY <1>1, <1>2, <1>6, <1>9, DeltasAreTrue
<1>11. \A b \in 0 .. Bounds + 1 : Upto(truth, b) \in Nat BY UptoIs DEF LhInv, LhType
<1>12. Upto(truth, 0) = 0 BY UptoIs DEF LhInv, LhType
<1>13. Bounds + 1 \in Nat /\ Bounds + 1 \in Buckets /\ Buckets = 1 .. Bounds + 1
       BY LatencyAssumption DEF Buckets
<1>14. rank \in Int /\ rank <= 100 * count /\ rank > 0
  <2>1. percent \in 1 .. 100 /\ count \in Nat BY <1>8, <1>9, LatencyAssumption
  <2> QED BY <1>3, <1>9, <2>1, Shares
<1> DEFINE S == {b \in Buckets : 100 * delta[b] >= rank}
<1>15. at \in S /\ \A b \in S : at <= b
  <2>1. Bounds + 1 \in S BY <1>10, <1>13, <1>14 DEF All
  <2>2. S \subseteq Nat BY <1>13
  <2>3. at = Min(S) BY <1>4
  <2> HIDE DEF S
  <2>4. PICK m \in S : \A k \in S : m <= k BY <2>1, <2>2, LeastOf
  <2> QED BY <2>3, <2>4 DEF Min
<1>16. /\ at \in Buckets /\ at \in Nat /\ at >= 1 /\ delta[at] = Upto(truth, at)
       /\ 100 * Upto(truth, at) >= rank /\ Upto(truth, at) \in Nat
       BY <1>10, <1>11, <1>13, <1>15
<1>17. 100 * Upto(truth, at - 1) < rank /\ before = Upto(truth, at - 1) /\ before \in Nat
  <2>1. CASE at = 1 BY <1>5, <1>12, <1>14, <2>1
  <2>2. CASE at # 1
    <3>1. at - 1 \in Buckets /\ ~(at <= at - 1) BY <1>13, <1>16, <2>2
    <3>2. before = Upto(truth, at - 1) /\ before \in Nat BY <1>5, <1>10, <1>11, <1>13, <2>2, <3>1
    <3>3. ~(100 * delta[at - 1] >= rank) BY <1>15, <3>1
    <3> QED BY <1>10, <1>14, <3>1, <3>2, <3>3
  <2> QED BY <2>1, <2>2
<1>18. Quantile(percent).bucket = at BY <1>7
<1>19. 0 <= Quantile(percent).part /\ Quantile(percent).part <= Quantile(percent).span
  <2>1. CASE at = Bounds + 1 BY <1>7, <2>1
  <2>2. CASE at # Bounds + 1
    <3>1. /\ Quantile(percent).part = rank - 100 * before
          /\ Quantile(percent).span = 100 * (Upto(truth, at) - before)
          BY <1>7, <1>16, <2>2
    <3> HIDE DEF S
    <3> QED BY <1>14, <1>16, <1>17, <3>1
  <2> QED BY <2>1, <2>2
<1> QED BY <1>3, <1>10, <1>16, <1>17, <1>18, <1>19

(* A reported quantile lies in the bucket of the request it names, whatever  *)
(* scrapes failed and whenever the server restarted, unless a restart was    *)
(* caught up with before the next good scrape.                               *)
THEOREM QuantilesStayReal == LhInit /\ [][LhNext]_lhVars => []QuantileIsReal
BY LhInvInit, LhInvNext, LhInvReal, PTL
=============================================================================
