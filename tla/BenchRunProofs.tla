--------------------------- MODULE BenchRunProofs ---------------------------
(***************************************************************************)
(* What holds of every benchmark run, for any configurations, sweeps and    *)
(* sequences of commands, crashes and errors.                               *)
(***************************************************************************)
EXTENDS BenchRun, TLAPS

-----------------------------------------------------------------------------
(* What the ways to continue a command leave behind. *)

LEMMA GotoType ==
    ASSUME cmd \in Commands, NEW p \in Steps, Goto(p)
    PROVE  cmd' \in Commands /\ cmd'.pc = p
BY DEF Goto, Commands

LEMMA EndType ==
    ASSUME EndCmd
    PROVE  cmd' \in Commands /\ cmd'.pc = "idle"
BY DEF EndCmd, Idle, Commands, Steps, FreeSteps, Ops, NoIssue, Issues, Reasons, NoExperiment, Experiments

LEMMA DriveOnType ==
    ASSUME DriveOn
    PROVE  cmd' \in Commands /\ cmd'.pc = "drive"
BY DEF DriveOn, Idle, Commands, Steps, FreeSteps, Ops, NoIssue, Issues, Reasons, NoExperiment, Experiments

LEMMA StageDoneType ==
    ASSUME cmd \in Commands, StageDone
    PROVE  cmd' \in Commands /\ cmd'.pc \in {"idle", "drive"}
BY GotoType, EndType DEF StageDone, Steps

LEMMA BlockType ==
    ASSUME state \in States, NEW reason \in Reasons, NEW resume \in States \cup {"none"},
           Block(reason, resume)
    PROVE  state' \in States /\ cmd' \in Commands /\ cmd'.pc = "issue"
BY DEF Block, Blocked, States, Idle, Commands, Steps, FreeSteps, Ops, NoIssue, Issues,
       Reasons, NoExperiment, Experiments

LEMMA DropType ==
    ASSUME cmd \in Commands, NEW p \in Steps, NEW flags, GotoDrop(p, flags)
    PROVE  cmd' \in Commands /\ cmd'.pc = p /\ cmd'.op = cmd.op
BY DEF GotoDrop, Commands

LEMMA BeginType ==
    ASSUME cfg \in Configs \cup {NoCfg}, opts \in Options \cup {NoOptions}, NEW op \in Ops, NEW pc \in Steps,
           NEW flags \in SUBSET {"reload", "accept", "retry", "modify"},
           Begin(op, pc, flags)
    PROVE  cmd' \in Commands /\ cmd'.pc = pc
BY DEF Begin, Commands, Experiment, Experiments, NoIssue, Issues, Reasons

-----------------------------------------------------------------------------
(* Type correctness. *)

LEMMA EmptySeqRounds == <<>> \in Seq([round : Nat \ {0}, by : Experiments])
OBVIOUS

LEMMA TypeInit == Init => TypeOK
<1> SUFFICES ASSUME Init PROVE TypeOK
  OBVIOUS
<1>1. Idle \in Commands /\ Idle.pc \in FreeSteps
  BY DEF Idle, Commands, Steps, FreeSteps, Ops, NoIssue, Issues, Reasons, NoExperiment, Experiments
<1>2. NoIssue \in Issues
  BY DEF NoIssue, Issues, Reasons
<1>3. Empty \in [svc : Services \cup {NoService}, by : {"none", "run", "other", "reused"}]
  BY DEF Empty
<1>4. state \in States
  BY DEF Init, States
<1>5. runs \in Seq([round : Nat \ {0}, by : Experiments]) /\ runs = <<>>
  BY DEF Init
<1>6. started \in BOOLEAN /\ marker \in BOOLEAN /\ broken \in BOOLEAN
  BY DEF Init
<1>7. accept \subseteq Nat /\ unused \in Int
  BY DEF Init
<1>8. issue = NoIssue /\ cmd = Idle /\ container = Empty /\ pending = NoRound
      /\ cfg = NoCfg /\ opts = NoOptions
  BY DEF Init
<1> QED
  BY <1>1, <1>2, <1>3, <1>4, <1>5, <1>6, <1>7, <1>8 DEF TypeOK

LEMMA CommandsStart ==
    ASSUME BenchRunAssumption, TypeOK, BeginRun \/ BeginStage \/ BeginDone \/ BeginStop \/ Cancel
                   \/ \E flags \in ResumeFlags : BeginResume(flags)
    PROVE  TypeOK'
<1> USE DEF TypeOK
<1>0. SaveOptions => opts' \in Options \cup {NoOptions}
  BY DEF SaveOptions
<1>1. CASE BeginRun
  BY <1>0, <1>1, BeginType DEF BeginRun, Ops, Steps, FreeSteps, rounds, hist
<1>2. CASE BeginStage
  <2>1. Begin("env-check", "validate", {}) \/ Begin("start", "validate", {})
        \/ Begin("bench", "validate", {})
    BY <1>2 DEF BeginStage
  <2>2. cmd' \in Commands /\ cmd'.pc = "validate"
    BY <2>1, BeginType DEF Ops, Steps, FreeSteps
  <2>3. opts' \in Options \cup {NoOptions}
    BY <1>0, <1>2 DEF BeginStage
  <2>4. UNCHANGED <<state, cfg, rounds, issue, started, marker, container, hist>>
    BY <1>2 DEF BeginStage
  <2> QED
    BY <2>2, <2>3, <2>4 DEF FreeSteps, rounds, hist
<1>3. CASE BeginDone
  BY <1>3, BeginType DEF BeginDone, Ops, Steps, FreeSteps, States, exper, rounds, hist
<1>4. CASE BeginStop
  BY <1>4, BeginType DEF BeginStop, Ops, Steps, FreeSteps, exper, rounds, hist
<1>5. CASE Cancel
  <2>1. state' \in States /\ marker' \in BOOLEAN
    BY <1>5, ZenonT(60) DEF Cancel, CancelledFrom, States, Final
  <2>2. UNCHANGED <<cfg, opts, runs, pending, accept, issue, started, cmd, container,
                    unused, broken>>
    BY <1>5 DEF Cancel, exper, rounds, hist
  <2> QED
    BY <2>1, <2>2, Zenon
<1>6. ASSUME NEW flags \in ResumeFlags, BeginResume(flags)
      PROVE  TypeOK'
  <2>1. flags \in SUBSET {"reload", "accept", "retry", "modify"}
    BY <1>6, BenchRunAssumption DEF BenchRunAssumption
  <2>2. PICK pc \in {"reload", "validate"} : Begin("resume", pc, flags)
    BY <1>6 DEF BeginResume
  <2>3. cmd' \in Commands /\ cmd'.pc \in {"reload", "validate"}
    BY <2>1, <2>2, BeginType DEF Ops, Steps, FreeSteps
  <2>4. opts' \in Options \cup {NoOptions}
    BY <1>0, <1>6 DEF BeginResume
  <2> QED
    BY <1>6, <2>3, <2>4 DEF BeginResume, FreeSteps, rounds, hist
<1> QED
  BY <1>1, <1>2, <1>3, <1>4, <1>5, <1>6

LEMMA ConfigurationSteps ==
    ASSUME BenchRunAssumption, TypeOK,
           Reload \/ ReloadOptions \/ Freeze \/ Settle \/ Decide \/ Go \/ ClearIssue
           \/ SaveIssue
    PROVE  TypeOK'
<1> USE DEF TypeOK
<1>r. RefusedAt \in States \cup {"none"}
  BY DEF RefusedAt, States, Issues
<1>1. CASE Reload
  <2>1. CASE \E c \in Configs : /\ cfg' = c /\ UNCHANGED state
                                /\ GotoDrop("options", {"reload"})
    BY <1>1, <2>1, DropType DEF Reload, Steps, FreeSteps, rounds, hist
  <2>2. CASE Block("other", RefusedAt) /\ UNCHANGED cfg
    BY <1>1, <1>r, <2>2, BlockType DEF Reload, FreeSteps, Reasons, rounds, hist
  <2> QED
    BY <1>1, <2>1, <2>2 DEF Reload
<1>2. CASE Freeze
  <2>1. \/ /\ cfg' \in Valid /\ UNCHANGED <<state, broken>>
           /\ DriveOn \/ \E p \in {"env", "health", "probe", "compare", "settle"} : Goto(p)
        \/ /\ Block("other", RefusedAt) /\ UNCHANGED cfg
           /\ broken' = (broken \/ Experiment # cmd.before)
    BY <1>2 DEF Freeze
  <2>2. cmd' \in Commands /\ cfg' \in Configs \cup {NoCfg} /\ state' \in States
        /\ broken' \in BOOLEAN /\ (cmd'.pc \notin FreeSteps => cfg' \in Configs)
    <3>1. CASE cfg' \in Valid /\ UNCHANGED <<state, broken>> /\ DriveOn
      BY <3>1, DriveOnType, BenchRunAssumption DEF BenchRunAssumption
    <3>2. ASSUME NEW p \in {"env", "health", "probe", "compare", "settle"}, Goto(p),
                 cfg' \in Valid /\ UNCHANGED <<state, broken>>
          PROVE  <2>2!1
      BY <3>2, GotoType, BenchRunAssumption DEF BenchRunAssumption, Steps, FreeSteps
    <3>3. CASE /\ Block("other", RefusedAt) /\ UNCHANGED cfg
               /\ broken' = (broken \/ Experiment # cmd.before)
      BY <1>r, <3>3, BlockType DEF FreeSteps, Reasons
    <3> QED
      BY <2>1, <3>1, <3>2, <3>3
  <2> QED
    BY <1>2, <2>2 DEF Freeze, rounds, hist
<1>8. CASE ReloadOptions
  <2>1. cmd' \in Commands /\ cmd'.pc \in FreeSteps
    BY <1>8, GotoType DEF ReloadOptions, Steps, FreeSteps
  <2>2. opts' \in Options \cup {NoOptions}
    BY <1>8 DEF ReloadOptions, SaveOptions
  <2> QED
    BY <1>8, <2>1, <2>2 DEF ReloadOptions, rounds, hist
<1>3. CASE Settle
  <2>1. cmd.pc = "settle" /\ cfg \in Configs
    BY <1>3 DEF Settle, At, FreeSteps
  <2>2. cmd' \in Commands
    BY <1>3, GotoType DEF Settle, Steps
  <2>3. \/ UNCHANGED <<runs, pending>>
        \/ runs' = <<>> /\ pending' = NoRound
    BY <1>3 DEF Settle, DropRounds
  <2>4. UNCHANGED <<state, cfg, opts, accept, issue, started, marker, container, unused, broken>>
    BY <1>3 DEF Settle, exper, hist
  <2>5. runs' \in Seq([round : Nat \ {0}, by : Experiments])
    BY <2>3, EmptySeqRounds, Zenon
  <2>6. runs' = <<>> \/ \E c \in Configs : Len(runs') <= Rounds[c]
    BY <2>3
  <2>7. pending' = NoRound \/ pending' \in [round : Nat \ {0}, by : Experiments]
    BY <2>3
  <2> QED
    BY <2>1, <2>2, <2>4, <2>5, <2>6, <2>7 DEF NoRound
<1>4. CASE Decide
  <2>1. cmd.pc = "decide" /\ cfg \in Configs
    BY <1>4 DEF Decide, At, FreeSteps
  <2>2. EndCmd \/ GotoDrop("go", {"accept", "retry"})
    BY <1>4 DEF Decide
  <2>3. cmd' \in Commands
    BY <2>2, EndType, DropType DEF Steps
  <2>4. \/ UNCHANGED <<accept, unused>>
        \/ accept' = {Len(runs)} /\ unused' = unused + 1
    BY <1>4, Zenon DEF Decide
  <2>5. Len(runs) \in Nat
    OBVIOUS
  <2>7. accept' \subseteq Nat
    BY <2>4, <2>5, ZenonT(60)
  <2>8. unused' \in Int
    BY <2>4
  <2>9. pending' = pending \/ pending' = NoRound
    BY <1>4 DEF Decide
  <2>10. UNCHANGED <<state, cfg, opts, runs, issue, started, marker, container, broken>>
    BY <1>4 DEF Decide, exper
  <2> QED
    BY <2>1, <2>3, <2>7, <2>8, <2>9, <2>10
<1>5. CASE Go
  <2>1. cmd.pc = "go" /\ cfg \in Configs
    BY <1>5 DEF Go, At, FreeSteps
  <2>2. \/ state' \in States /\ Goto("clear")
        \/ EndCmd /\ UNCHANGED state
    BY <1>5 DEF Go, Resumable, States
  <2>3. cmd' \in Commands /\ state' \in States
    BY <2>2, EndType, GotoType DEF Steps
  <2> QED
    BY <1>5, <2>1, <2>3 DEF Go, exper, rounds, hist
<1>6. CASE ClearIssue
  BY <1>6, DriveOnType DEF ClearIssue, At, FreeSteps, NoIssue, Issues, Reasons, exper, rounds, hist
<1>7. CASE SaveIssue
  BY <1>7, EndType DEF SaveIssue, FreeSteps, Commands, exper, rounds, hist
<1> QED
  BY <1>1, <1>2, <1>3, <1>4, <1>5, <1>6, <1>7, <1>8

\* The steps of the stages that keep the rounds need four things.
LEMMA StageFrame ==
    ASSUME TypeOK, UNCHANGED <<exper, rounds, marker, unused>>,
           state' \in States, cmd' \in Commands, cmd'.pc \notin FreeSteps => cfg \in Configs,
           UNCHANGED issue \/ issue' \in Issues,
           UNCHANGED started \/ started' = TRUE,
           UNCHANGED broken \/ broken' = TRUE,
           UNCHANGED container
           \/ container' \in [svc : Services \cup {NoService},
                              by : {"none", "run", "other", "reused"}]
    PROVE  TypeOK'
BY ZenonT(60) DEF TypeOK, exper, rounds

LEMMA ProbeSteps ==
    ASSUME BenchRunAssumption, TypeOK,
           \/ Drive \/ EnvCheck \/ Probe \/ Wait
           \/ Launch \/ LaunchRefused \/ Launched \/ Health
    PROVE  TypeOK'
<1>0. state \in States /\ cmd \in Commands /\ "other" \in Reasons
  BY DEF TypeOK, Reasons
<1>1. CASE Drive
  <2>1. cfg \in Configs
    BY <1>1 DEF Drive, At, TypeOK, FreeSteps
  <2>2. EndCmd \/ \E p \in {"env", "probe", "health", "open"} : Goto(p)
    BY <1>1 DEF Drive
  <2>3. cmd' \in Commands
    BY <1>0, <2>2, EndType, GotoType DEF Steps
  <2> QED
    BY <1>0, <1>1, <2>1, <2>3, StageFrame DEF Drive, hist
<1>2. CASE EnvCheck
  <2>1. cfg \in Configs
    BY <1>2 DEF EnvCheck, At, TypeOK, FreeSteps
  <2>2. \/ state' = "ENV_CHECK" /\ UNCHANGED cmd
        \/ state' = "REPORT" /\ StageDone
        \/ Block("other", "ENV_CHECK")
    BY <1>2 DEF EnvCheck
  <2>3. state' \in States /\ cmd' \in Commands
    BY <1>0, <2>2, StageDoneType, BlockType DEF States
  <2> QED
    BY <1>2, <2>1, <2>3, StageFrame DEF EnvCheck, hist
<1>3. CASE Probe
  <2>1. cfg \in Configs
    BY <1>3 DEF Probe, At, TypeOK, FreeSteps
  <2>2. \/ state' = "PROBE_SERVICE" /\ UNCHANGED <<issue, cmd, container>>
        \/ /\ container' = [container EXCEPT !.by = IF @ = "run" THEN @ ELSE "reused"]
           /\ state' = "HEALTH" /\ Goto("health") /\ UNCHANGED issue
        \/ state' = "START_SERVICE" /\ Goto("launch") /\ UNCHANGED <<issue, container>>
        \/ /\ issue' = [reason |-> "other", resume |-> "PROBE_SERVICE"]
           /\ Goto("wait") /\ UNCHANGED <<state, container>>
        \/ Block("other", "PROBE_SERVICE") /\ UNCHANGED <<issue, container>>
    BY <1>3 DEF Probe
  <2>3. state' \in States /\ cmd' \in Commands
    BY <1>0, <2>2, EndType, GotoType, BlockType DEF States, Steps
  <2>4. UNCHANGED issue \/ issue' \in Issues
    BY <2>2 DEF Issues, Reasons, States
  <2>5. \/ UNCHANGED container
        \/ container' \in [svc : Services \cup {NoService},
                           by : {"none", "run", "other", "reused"}]
    BY <2>2 DEF TypeOK
  <2>6. UNCHANGED <<exper, rounds, started, marker, unused, broken>>
    BY <1>3 DEF Probe, hist
  <2> QED
    BY <2>1, <2>3, <2>4, <2>5, <2>6, StageFrame
<1>4. CASE Launch
  <2>1. cfg \in Configs
    BY <1>4 DEF Launch, At, TypeOK, FreeSteps
  <2>2. container' = Own \/ UNCHANGED container
    BY <1>4 DEF Launch
  <2>3. Own \in [svc : Services \cup {NoService}, by : {"none", "run", "other", "reused"}]
    BY <2>1, BenchRunAssumption DEF BenchRunAssumption, Own
  <2>4. (Goto("launched") /\ UNCHANGED state) \/ Block("other", "PROBE_SERVICE")
    BY <1>4 DEF Launch
  <2>5. state' \in States /\ cmd' \in Commands
    BY <1>0, <2>4, GotoType, BlockType DEF States, Steps
  <2> QED
    BY <1>4, <2>1, <2>2, <2>3, <2>5, StageFrame DEF Launch, hist
<1>5. CASE LaunchRefused
  <2>1. cfg \in Configs
    BY <1>5 DEF LaunchRefused, At, TypeOK, FreeSteps
  <2>2. state' \in States /\ cmd' \in Commands
    BY <1>0, <1>5, BlockType DEF LaunchRefused, States
  <2> QED
    BY <1>5, <2>1, <2>2, StageFrame DEF LaunchRefused, hist
<1>6. CASE Launched
  <2>1. cfg \in Configs
    BY <1>6 DEF Launched, At, TypeOK, FreeSteps
  <2>2. state' \in States /\ cmd' \in Commands
    BY <1>0, <1>6, GotoType DEF Launched, States, Steps
  <2> QED
    BY <1>6, <2>1, <2>2, StageFrame DEF Launched, hist
<1>7. CASE Health
  <2>1. cfg \in Configs
    BY <1>7 DEF Health, At, TypeOK, FreeSteps
  <2>2. (state' = "BENCHMARK" /\ StageDone) \/ Block("other", "PROBE_SERVICE")
    BY <1>7 DEF Health
  <2>3. state' \in States /\ cmd' \in Commands
    BY <1>0, <2>2, StageDoneType, BlockType DEF States
  <2> QED
    BY <1>7, <2>1, <2>3, StageFrame DEF Health, hist
<1>8. CASE Wait
  <2>1. cfg \in Configs
    BY <1>8 DEF Wait, At, TypeOK, FreeSteps
  <2>2. state' \in States /\ cmd' \in Commands
    BY <1>8, EndType DEF Wait, States
  <2> QED
    BY <1>8, <2>1, <2>2, StageFrame DEF Wait, hist
<1> QED
  BY <1>1, <1>2, <1>3, <1>4, <1>5, <1>6, <1>7, <1>8

LEMMA RoundSteps ==
    ASSUME BenchRunAssumption, TypeOK, PartialFits,
           Compare \/ Recheck \/ Open \/ BenchRound \/ Collect \/ CompletePartial
           \/ WriteReport \/ Analyze
    PROVE  TypeOK'
<1> DEFINE Run == [round : Nat \ {0}, by : Experiments]
<1>0. state \in States /\ cmd \in Commands
      /\ "other" \in Reasons /\ "metrics_incomplete" \in Reasons
  BY DEF TypeOK, Reasons
<1>1. CASE Compare
  <2>1. cfg \in Configs
    BY <1>1 DEF Compare, At, TypeOK, FreeSteps
  <2>2. Goto("open") \/ Goto("recheck")
    BY <1>1 DEF Compare
  <2>3. cmd' \in Commands
    BY <1>0, <2>2, GotoType DEF Steps
  <2>4. UNCHANGED <<runs, pending>> \/ (runs' = <<>> /\ pending' = NoRound)
    BY <1>1 DEF Compare, DropRounds
  <2>5. UNCHANGED <<state, cfg, opts, accept, issue, started, marker, container, unused, broken>>
    BY <1>1 DEF Compare, exper, hist
  <2>6. runs' \in Seq(Run)
    BY <2>4, EmptySeqRounds, Zenon DEF TypeOK
  <2>7. runs' = <<>> \/ \E c \in Configs : Len(runs') <= Rounds[c]
    BY <2>4 DEF TypeOK
  <2>8. pending' = NoRound \/ pending' \in Run
    BY <2>4 DEF TypeOK
  <2> QED
    BY <2>1, <2>3, <2>5, <2>6, <2>7, <2>8 DEF TypeOK, NoRound
<1>2. CASE Recheck
  <2>1. cfg \in Configs
    BY <1>2 DEF Recheck, At, TypeOK, FreeSteps
  <2>2. state' \in States /\ cmd' \in Commands
    BY <1>2, DriveOnType DEF Recheck, States
  <2> QED
    BY <1>2, <2>1, <2>2, StageFrame DEF Recheck, hist
<1>3. CASE BenchRound
  <2>1. cfg \in Configs
    BY <1>3 DEF BenchRound, At, TypeOK, FreeSteps
  <2>2. \/ pending' = [round |-> Len(runs) + 1, by |-> Experiment] /\ UNCHANGED <<state, cmd>>
        \/ Block("other", "BENCHMARK") /\ UNCHANGED pending
    BY <1>3 DEF BenchRound
  <2>3. state' \in States /\ cmd' \in Commands
    BY <1>0, <2>2, BlockType DEF States
  <2>4. Len(runs) + 1 \in Nat \ {0}
    BY DEF TypeOK
  <2>5. pending' = NoRound \/ pending' \in Run
    BY <2>1, <2>2, <2>4 DEF TypeOK, Experiment, Experiments
  <2>6. UNCHANGED <<cfg, opts, runs, accept, issue, started, marker, container, unused, broken>>
    BY <1>3 DEF BenchRound, exper, hist
  <2> QED
    BY <2>1, <2>3, <2>5, <2>6 DEF TypeOK
<1>4. CASE Complete /\ MoreRounds /\ pending # NoRound /\ UNCHANGED state /\ cfg \in Configs
           /\ UNCHANGED <<exper, issue, started, marker, container, broken>>
           /\ cmd' \in Commands /\ accept' \subseteq Nat /\ unused' \in Int
  <2>1. pending \in Run /\ Len(runs) < Rounds[cfg]
    BY <1>4 DEF MoreRounds, TypeOK
  <2>2. runs' = Append(runs, pending) /\ pending' = NoRound /\ runs \in Seq(Run)
    BY <1>4 DEF Complete, TypeOK
  <2>3. runs' \in Seq(Run) /\ Len(runs') = Len(runs) + 1
    BY <2>1, <2>2
  <2>4. Rounds[cfg] \in Nat /\ Len(runs) \in Nat
    BY <1>4, <2>2, BenchRunAssumption DEF BenchRunAssumption
  <2>5. Len(runs') <= Rounds[cfg]
    BY <2>1, <2>3, <2>4
  <2> QED
    BY <1>4, <2>2, <2>3, <2>5 DEF TypeOK, exper
<1>7. CASE Collect
  <2>1. cfg \in Configs
    BY <1>7 DEF Collect, At, TypeOK, FreeSteps
  <2>2. CASE Complete /\ UNCHANGED <<state, cmd, accept>>
    <3>1. UNCHANGED unused /\ unused \in Int /\ accept' \subseteq Nat
      BY <1>7, <2>2 DEF Collect, hist, TypeOK
    <3> QED
      BY <1>0, <1>4, <1>7, <2>1, <2>2, <3>1 DEF Collect, hist
  <2>3. CASE UseGrant /\ Goto("partial") /\ UNCHANGED <<state, runs, pending>>
    <3>1. cmd' \in Commands
      BY <1>0, <2>3, GotoType DEF Steps
    <3> QED
      BY <1>7, <2>1, <2>3, <3>1 DEF Collect, UseGrant, TypeOK, exper, hist
  <2>4. CASE Block("metrics_incomplete", "BENCHMARK") /\ UNCHANGED rounds
    <3>1. state' \in States /\ cmd' \in Commands
      BY <1>0, <2>4, BlockType DEF States
    <3> QED
      BY <1>7, <2>1, <2>4, <3>1, StageFrame DEF Collect, hist
  <2> QED
    BY <1>7, <2>2, <2>3, <2>4 DEF Collect
<1>8. CASE CompletePartial
  <2>1. cfg \in Configs /\ MoreRounds /\ pending # NoRound
    BY <1>8 DEF CompletePartial, PartialFits, At, TypeOK, FreeSteps
  <2>2. cmd' \in Commands
    BY <1>0, <1>8, GotoType DEF CompletePartial, Steps
  <2>3. accept' \subseteq Nat /\ unused' \in Int
    BY <1>8 DEF CompletePartial, TypeOK
  <2> QED
    BY <1>4, <1>8, <2>1, <2>2, <2>3 DEF CompletePartial
<1>9. CASE Open
  <2>1. cfg \in Configs
    BY <1>9 DEF Open, At, TypeOK, FreeSteps
  <2>2. (Goto("bench") /\ UNCHANGED state) \/ Block("other", "BENCHMARK")
    BY <1>9 DEF Open
  <2>3. state' \in States /\ cmd' \in Commands
    BY <1>0, <2>2, GotoType, BlockType DEF States, Steps
  <2> QED
    BY <1>9, <2>1, <2>3, StageFrame DEF Open, hist
<1>5. CASE WriteReport
  <2>1. cfg \in Configs
    BY <1>5 DEF WriteReport, At, TypeOK, FreeSteps
  <2>2. \/ state' = "COLLECT" /\ UNCHANGED cmd
        \/ Goto("analyze") /\ UNCHANGED state
        \/ Block("other", "COLLECT")
    BY <1>5 DEF WriteReport
  <2>3. state' \in States /\ cmd' \in Commands
    BY <1>0, <2>2, GotoType, BlockType DEF States, Steps
  <2> QED
    BY <1>5, <2>1, <2>3, StageFrame DEF WriteReport, hist
<1>6. CASE Analyze
  <2>1. cfg \in Configs
    BY <1>6 DEF Analyze, At, TypeOK, FreeSteps
  <2>2. (state' = "ANALYZE" /\ Goto("analyzed")) \/ (EndCmd /\ UNCHANGED state)
    BY <1>6 DEF Analyze
  <2>3. state' \in States /\ cmd' \in Commands
    BY <1>0, <2>2, GotoType, EndType DEF States, Steps
  <2> QED
    BY <1>6, <2>1, <2>3, StageFrame DEF Analyze, hist
<1> QED
  BY <1>1, <1>2, <1>3, <1>5, <1>6, <1>7, <1>8, <1>9

LEMMA EndSteps ==
    ASSUME BenchRunAssumption, TypeOK,
           Cleanup \/ Finish \/ Stop \/ Interrupt \/ ExecutionError \/ Crash \/ Outside
    PROVE  TypeOK'
<1> DEFINE Container == [svc : Services \cup {NoService},
                         by : {"none", "run", "other", "reused"}]
<1>0. /\ state \in States /\ cmd \in Commands /\ container \in Container
      /\ Empty \in Container /\ "other" \in Reasons
      /\ "idle" \in FreeSteps /\ "finish" \in FreeSteps /\ "issue" \in FreeSteps
      /\ cmd.pc \notin FreeSteps => cfg \in Configs
  BY DEF TypeOK, Empty, Reasons, FreeSteps
<1>1. CASE Cleanup
  <2>1. cmd' \in Commands /\ cmd'.pc \in FreeSteps
    BY <1>0, <1>1, GotoType DEF Cleanup, Steps
  <2>2. container' = Empty \/ UNCHANGED container
    BY <1>1 DEF Cleanup
  <2> QED
    BY <1>0, <1>1, <2>1, <2>2, StageFrame DEF Cleanup, hist
<1>2. CASE Finish
  <2>1. cmd' \in Commands /\ cmd'.pc \in FreeSteps
    BY <1>0, <1>2, EndType DEF Finish
  <2>2. state' \in States
    BY <1>2 DEF Finish, States, Final
  <2> QED
    BY <1>2, <2>1, <2>2, StageFrame DEF Finish, hist
<1>3. CASE Stop
  <2>1. cmd' \in Commands /\ cmd'.pc \in FreeSteps
    BY <1>0, <1>3, EndType DEF Stop
  <2>2. container' = Empty \/ UNCHANGED container
    BY <1>3 DEF Stop
  <2> QED
    BY <1>0, <1>3, <2>1, <2>2, StageFrame DEF Stop, hist
<1>4. CASE Interrupt
  <2>1. cmd' \in Commands /\ cmd'.pc \in FreeSteps
    BY <1>0, <1>4, EndType DEF Interrupt
  <2>2. state' \in States
    BY <1>0, <1>4 DEF Interrupt, CancelledFrom, States, Final
  <2> QED
    BY <1>0, <1>4, <2>1, <2>2, StageFrame DEF Interrupt, hist
<1>5. CASE ExecutionError
  <2>1. PICK s \in States : Block("other", s)
    BY <1>0, <1>5 DEF ExecutionError, States
  <2>2. state' \in States /\ cmd' \in Commands /\ cmd'.pc \in FreeSteps
    BY <1>0, <2>1, BlockType
  <2> QED
    BY <1>5, <2>2, StageFrame DEF ExecutionError
<1>6. CASE Crash
  <2>1. cmd' \in Commands /\ cmd'.pc \in FreeSteps
    BY <1>0, <1>6, EndType DEF Crash
  <2> QED
    BY <1>0, <1>6, <2>1, StageFrame DEF Crash
<1>7. CASE Outside
  <2>1. container' \in Container
    BY <1>0, <1>7 DEF Outside
  <2> QED
    BY <1>0, <1>7, <2>1, StageFrame DEF Outside, hist
<1> QED
  BY <1>1, <1>2, <1>3, <1>4, <1>5, <1>6, <1>7

LEMMA TypeNext ==
    ASSUME BenchRunAssumption, TypeOK, PartialFits, [Next]_vars
    PROVE  TypeOK'
<1>1. CASE UNCHANGED vars
  BY <1>1 DEF TypeOK, vars, exper, rounds, hist
<1>2. CASE Next
  BY <1>2, CommandsStart, ConfigurationSteps, ProbeSteps, RoundSteps, EndSteps DEF Next
<1> QED
  BY <1>1, <1>2

-----------------------------------------------------------------------------
(* The rounds. *)

LEMMA RoundsChange ==
    ASSUME [Next]_vars
    PROVE  UNCHANGED <<rounds, unused>>
           \/ Settle \/ Decide \/ Compare \/ BenchRound \/ Collect \/ CompletePartial
<1>1. CASE UNCHANGED vars
  BY <1>1 DEF vars, hist
<1>2. CASE BeginRun \/ BeginStage \/ BeginDone \/ BeginStop \/ Cancel
           \/ \E flags \in ResumeFlags : BeginResume(flags)
  BY <1>2 DEF BeginRun, BeginStage, BeginDone, BeginStop, Cancel, BeginResume, hist
<1>3. CASE Reload \/ ReloadOptions \/ Freeze \/ Go \/ ClearIssue \/ SaveIssue
  BY <1>3 DEF Reload, ReloadOptions, Freeze, Go, ClearIssue, SaveIssue, hist
<1>4. CASE Drive \/ EnvCheck \/ Probe \/ Wait \/ Launch \/ LaunchRefused \/ Launched \/ Health
  BY <1>4 DEF Drive, EnvCheck, Probe, Wait, Launch, LaunchRefused, Launched, Health, hist
<1>5. CASE Recheck \/ Open \/ WriteReport \/ Analyze \/ Cleanup \/ Finish \/ Stop
  BY <1>5 DEF Recheck, Open, WriteReport, Analyze, Cleanup, Finish, Stop, hist
<1>6. CASE Interrupt \/ ExecutionError \/ Crash \/ Outside
  BY <1>6 DEF Interrupt, ExecutionError, Crash, Outside, hist
<1> QED
  BY <1>1, <1>2, <1>3, <1>4, <1>5, <1>6 DEF Next

LEMMA OrderStep ==
    ASSUME TypeOK, PartialFits, RoundsInOrder, [Next]_vars
    PROVE  RoundsInOrder'
<1> USE DEF RoundsInOrder
<1>1. CASE UNCHANGED <<rounds, unused>>
  BY <1>1 DEF rounds
<1>2. CASE Settle \/ Compare
  <2>1. UNCHANGED <<runs, pending>> \/ (runs' = <<>> /\ pending' = NoRound)
    BY <1>2 DEF Settle, Compare, DropRounds
  <2> QED
    BY <2>1
<1>3. CASE Decide
  <2>1. UNCHANGED runs /\ (UNCHANGED pending \/ pending' = NoRound)
    BY <1>3 DEF Decide
  <2> QED
    BY <2>1
<1>4. CASE BenchRound
  <2>1. \/ UNCHANGED <<runs, pending>>
        \/ UNCHANGED runs /\ pending' = [round |-> Len(runs) + 1, by |-> Experiment]
    BY <1>4 DEF BenchRound
  <2> QED
    BY <2>1
<1>5. CASE Complete /\ pending # NoRound
  <2>1. pending.round = Len(runs) + 1
    BY <1>5
  <2>2. runs' = Append(runs, pending) /\ pending' = NoRound
    BY <1>5 DEF Complete
  <2>3. /\ DOMAIN runs' = 1 .. Len(runs) + 1
        /\ \A i \in 1 .. Len(runs) : runs'[i] = runs[i]
        /\ runs'[Len(runs) + 1] = pending
    BY <2>2 DEF TypeOK
  <2>4. Len(runs) \in Nat /\ DOMAIN runs = 1 .. Len(runs)
    BY DEF TypeOK
  <2> QED
    BY <2>1, <2>2, <2>3, <2>4
<1>6. CASE Collect
  <2>1. CASE UNCHANGED <<runs, pending>>
    BY <2>1
  <2> QED
    BY <1>5, <1>6, <2>1 DEF Collect, rounds
<1>7. CASE CompletePartial
  BY <1>5, <1>7 DEF CompletePartial, PartialFits
<1> QED
  BY <1>1, <1>2, <1>3, <1>4, <1>6, <1>7, RoundsChange

\* A grant of resume --accept-partial that is still saved has not been used.
LEMMA GrantStep ==
    ASSUME TypeOK, PartialFits, AcceptedOnce, accept # {} => unused >= 1, [Next]_vars
    PROVE  AcceptedOnce' /\ (accept # {} => unused >= 1)'
<1> USE DEF AcceptedOnce
<1>0. unused \in Int
  BY DEF TypeOK
<1>1. CASE UNCHANGED <<accept, unused>>
  BY <1>1
<1>2. CASE Decide
  <2>1. \/ UNCHANGED <<accept, unused>>
        \/ accept' = {Len(runs)} /\ unused' = unused + 1
    BY <1>2, Zenon DEF Decide
  <2> QED
    BY <1>0, <1>1, <2>1
<1>3. CASE Collect
  <2>1. UNCHANGED unused /\ (UNCHANGED accept \/ accept' = {})
    BY <1>3 DEF Collect, UseGrant, rounds, hist
  <2> QED
    BY <1>0, <2>1
<1>4. CASE CompletePartial
  <2>1. accept = {} /\ UNCHANGED accept /\ unused >= 1 /\ unused' = unused - 1
    BY <1>4 DEF CompletePartial, PartialFits
  <2> QED
    BY <1>0, <2>1
<1>5. CASE Settle \/ Compare \/ BenchRound
  BY <1>1, <1>5 DEF Settle, Compare, BenchRound, hist
<1> QED
  BY <1>1, <1>2, <1>3, <1>4, <1>5, RoundsChange DEF rounds

-----------------------------------------------------------------------------
(* The workflow state: a step finds the state it was written for. *)

LEMMA FitGoto ==
    ASSUME TypeOK, NEW p \in Steps, Goto(p)
    PROVE  cmd'.pc = p /\ cmd'.op = cmd.op
BY DEF TypeOK, Commands, Goto

\* Nothing is asked of the state before these steps.
Anywhere == {"idle", "issue", "settle", "decide", "go", "clear", "drive", "stop", "analyzed"}

LEMMA FitAnywhere ==
    ASSUME cmd'.pc \in Anywhere
    PROVE  StepFitsState'
BY DEF Anywhere, StepFitsState, At

LEMMA FitDrop ==
    ASSUME TypeOK, NEW p \in Steps, NEW flags, GotoDrop(p, flags)
    PROVE  cmd'.pc = p /\ cmd'.op = cmd.op
BY DropType DEF TypeOK

LEMMA FitEnd ==
    ASSUME EndCmd \/ DriveOn \/ \E reason, resume : Block(reason, resume)
    PROVE  StepFitsState'
<1>1. CASE EndCmd
  BY <1>1, FitAnywhere DEF EndCmd, Idle, Anywhere
<1>2. CASE DriveOn
  BY <1>2, FitAnywhere DEF DriveOn, Idle, Anywhere
<1>3. ASSUME NEW reason, NEW resume, Block(reason, resume)
      PROVE  StepFitsState'
  BY <1>3, FitAnywhere DEF Block, Idle, Anywhere
<1> QED
  BY <1>1, <1>2, <1>3

LEMMA FitStageDone ==
    ASSUME TypeOK, StageDone
    PROVE  StepFitsState'
<1>1. Goto("drive") \/ EndCmd
  BY DEF StageDone
<1>2. CASE Goto("drive")
  BY <1>2, FitGoto, FitAnywhere DEF Anywhere, Steps
<1> QED
  BY <1>1, <1>2, FitEnd

LEMMA FitStep ==
    ASSUME TypeOK, StepFitsState, [Next]_vars
    PROVE  StepFitsState'
<1>1. CASE UNCHANGED <<state, cmd>>
  BY <1>1 DEF StepFitsState, At
<1>2. CASE BeginRun \/ BeginStage \/ BeginDone
  BY <1>2 DEF BeginRun, BeginStage, BeginDone, Begin, StepFitsState, At
<1>3. CASE BeginStop \/ Cancel \/ \E flags \in ResumeFlags : BeginResume(flags)
  BY <1>3, <1>1 DEF BeginStop, Cancel, CancelledFrom, BeginResume, Begin, StepFitsState, At, Idle
<1>4. CASE Reload
  <2>1. (\E reason, resume : Block(reason, resume)) \/ GotoDrop("options", {"reload"})
    BY <1>4 DEF Reload
  <2>2. CASE GotoDrop("options", {"reload"})
    <3>1. cmd'.pc = "options" /\ cmd'.op = "resume"
      BY <1>4, <2>2, FitDrop DEF Reload, StepFitsState, Steps, FreeSteps
    <3> QED
      BY <3>1 DEF StepFitsState, At
  <2> QED
    BY <2>1, <2>2, FitEnd
<1>12. CASE ReloadOptions
  <2>1. cmd'.pc = "validate" /\ cmd'.op = "resume"
    BY <1>12, FitGoto DEF ReloadOptions, StepFitsState, Steps, FreeSteps
  <2> QED
    BY <2>1 DEF StepFitsState, At
<1>11. CASE Freeze
  BY <1>11, FitEnd, FitGoto DEF Freeze, StepFitsState, At, Steps
<1>5. CASE Settle \/ Decide \/ Go \/ ClearIssue \/ SaveIssue
  <2>1. \/ EndCmd \/ DriveOn \/ Goto("decide") \/ Goto("clear")
        \/ GotoDrop("go", {"accept", "retry"})
    BY <1>5 DEF Settle, Decide, Go, ClearIssue, SaveIssue
  <2>2. CASE EndCmd \/ DriveOn
    BY <2>2, FitEnd
  <2>3. CASE Goto("decide") \/ Goto("clear") \/ GotoDrop("go", {"accept", "retry"})
    BY <2>3, FitGoto, FitDrop, FitAnywhere DEF Anywhere, Steps
  <2> QED
    BY <2>1, <2>2, <2>3
<1>6. CASE Drive \/ EnvCheck \/ Health
  BY <1>6, FitEnd, FitGoto, FitStageDone
  DEF Drive, EnvCheck, Health, StepFitsState, At, Steps
<1>7. CASE Probe \/ Wait \/ Launch \/ LaunchRefused \/ Launched
  BY <1>7, FitEnd, FitGoto DEF Probe, Wait, Launch, LaunchRefused, Launched, StepFitsState, At, Steps
<1>8. CASE Compare \/ Recheck \/ Open \/ BenchRound
  BY <1>8, FitEnd, FitGoto DEF Compare, Recheck, Open, BenchRound, StepFitsState, At, Steps
<1>13. CASE Collect \/ CompletePartial
  BY <1>13, FitEnd, FitGoto DEF Collect, CompletePartial, StepFitsState, At, Steps
<1>9. CASE WriteReport \/ Analyze \/ Cleanup \/ Finish \/ Stop
  BY <1>9, FitEnd, FitGoto, FitAnywhere
  DEF WriteReport, Analyze, Cleanup, Finish, Stop, StepFitsState, At, Steps, FreeSteps, Anywhere
<1>10. CASE Interrupt \/ ExecutionError \/ Crash \/ Outside
  BY <1>1, <1>10, FitEnd DEF Interrupt, ExecutionError, Crash, Outside
<1> QED
  BY <1>1, <1>2, <1>3, <1>4, <1>5, <1>6, <1>7, <1>8, <1>9, <1>10, <1>11, <1>12,
     <1>13 DEF Next, vars

\* The step partial is only reached by taking a grant.
LEMMA PartialStep ==
    ASSUME TypeOK, PartialFits, accept # {} => unused >= 1, [Next]_vars
    PROVE  PartialFits'
<1> SUFFICES ASSUME cmd'.pc = "partial"
             PROVE  (accept = {} /\ unused >= 1 /\ pending # NoRound /\ MoreRounds)'
  BY DEF PartialFits, At
<1>0. ~EndCmd /\ ~DriveOn /\ ~StageDone /\ ~\E reason, resume : Block(reason, resume)
  <2>1. StageDone => Goto("drive") \/ EndCmd
    BY DEF StageDone
  <2>2. Goto("drive") => cmd'.pc = "drive"
    BY FitGoto DEF Steps
  <2>3. ~EndCmd /\ ~DriveOn
    <3>1. EndCmd => cmd'.pc = "idle"
      BY DEF EndCmd, Idle
    <3>2. DriveOn => cmd'.pc = "drive"
      BY DEF DriveOn, Idle
    <3> QED
      BY <3>1, <3>2
  <2>4. ASSUME NEW reason, NEW resume, Block(reason, resume)
        PROVE  FALSE
    BY <2>4 DEF Block, Idle
  <2>5. ~StageDone
    BY <2>1, <2>2, <2>3
  <2>6. ~\E reason, resume : Block(reason, resume)
    BY <2>4, Zenon
  <2> QED
    BY <2>3, <2>5, <2>6
<1>1. CASE UNCHANGED <<cmd, exper, rounds, unused>>
  BY <1>1 DEF PartialFits, At, exper, rounds, MoreRounds
<1>2. CASE BeginRun \/ BeginStage \/ BeginDone \/ BeginStop
           \/ \E flags \in ResumeFlags : BeginResume(flags)
  BY <1>2 DEF BeginRun, BeginStage, BeginDone, BeginStop, BeginResume, Begin
<1>3. CASE Cancel \/ Outside
  BY <1>1, <1>3 DEF Cancel, Outside, hist
<1>4. CASE Reload \/ ReloadOptions \/ Freeze \/ Settle \/ Decide \/ Go \/ ClearIssue \/ SaveIssue
  BY <1>0, <1>4, FitGoto, FitDrop
  DEF Reload, ReloadOptions, Freeze, Settle, Decide, Go, ClearIssue, SaveIssue, Steps, FreeSteps
<1>5. CASE Drive \/ EnvCheck \/ Probe \/ Wait
  BY <1>0, <1>5, FitGoto DEF Drive, EnvCheck, Probe, Wait, Steps, At
<1>6. CASE Launch \/ LaunchRefused \/ Launched \/ Health
  BY <1>0, <1>6, FitGoto DEF Launch, LaunchRefused, Launched, Health, Steps
<1>7. CASE Compare \/ Recheck \/ Open \/ BenchRound
  BY <1>0, <1>7, FitGoto DEF Compare, Recheck, Open, BenchRound, Steps, At
<1>8. CASE Collect
  <2>1. /\ accept = {Len(runs)} /\ accept' = {} /\ UNCHANGED <<runs, pending, exper, unused>>
        /\ pending # NoRound /\ MoreRounds
    BY <1>0, <1>8 DEF Collect, UseGrant, At, hist
  <2>2. {Len(runs)} # {}
    OBVIOUS
  <2> QED
    BY <2>1, <2>2 DEF MoreRounds, exper
<1>9. CASE CompletePartial
  BY <1>9, FitGoto DEF CompletePartial, Steps
<1>10. CASE WriteReport \/ Analyze \/ Cleanup \/ Finish \/ Stop
  BY <1>0, <1>10, FitGoto DEF WriteReport, Analyze, Cleanup, Finish, Stop, Steps, FreeSteps, At
<1>11. CASE Interrupt \/ ExecutionError \/ Crash
  BY <1>0, <1>11 DEF Interrupt, ExecutionError, Crash
<1> QED
  BY <1>1, <1>2, <1>3, <1>4, <1>5, <1>6, <1>7, <1>8, <1>9, <1>10, <1>11
  DEF Next, vars, hist

-----------------------------------------------------------------------------
(* The rounds are those of the experiment. *)

LEMMA GotoKeeps ==
    ASSUME TypeOK, NEW p \in Steps, Goto(p)
    PROVE  /\ cmd'.pc = p /\ cmd'.op = cmd.op /\ cmd'.before = cmd.before
           /\ cmd'.flags = cmd.flags /\ cmd'.issue = cmd.issue
BY DEF TypeOK, Commands, Goto

LEMMA DropKeeps ==
    ASSUME TypeOK, NEW p \in Steps, NEW flags, GotoDrop(p, flags)
    PROVE  /\ cmd'.pc = p /\ cmd'.op = cmd.op /\ cmd'.before = cmd.before
           /\ cmd'.issue = cmd.issue
BY DEF TypeOK, Commands, GotoDrop

LEMMA BeginKeeps ==
    ASSUME NEW op, NEW pc, NEW flags, Begin(op, pc, flags)
    PROVE  cmd = Idle /\ cmd'.pc = pc /\ cmd'.op = op /\ cmd'.before = Experiment
BY DEF Begin

LEMMA EndKeeps ==
    /\ EndCmd => cmd'.pc = "idle"
    /\ DriveOn => cmd'.pc = "drive"
    /\ \A reason, resume :
          Block(reason, resume) =>
             cmd'.pc = "issue" /\ cmd'.issue.resume = resume /\ state' = Blocked(state)
<1>1. EndCmd => cmd'.pc = "idle"
  BY DEF EndCmd, Idle
<1>2. DriveOn => cmd'.pc = "drive"
  BY DEF DriveOn, Idle
<1>3. ASSUME NEW reason, NEW resume, Block(reason, resume)
      PROVE  cmd'.pc = "issue" /\ cmd'.issue.resume = resume /\ state' = Blocked(state)
  BY <1>3 DEF Block, Idle
<1> QED
  BY <1>1, <1>2, <1>3, Zenon

LEMMA StageDoneKeeps ==
    ASSUME TypeOK, StageDone
    PROVE  cmd'.pc \in {"idle", "drive"}
BY GotoKeeps, EndKeeps DEF StageDone, Steps

\* Where the experiment, or what it is compared with, may change.
LEMMA QuietSteps ==
    ASSUME TypeOK, [Next]_vars
    PROVE  \/ UNCHANGED <<cmd, exper>>
           \/ cmd.pc \notin Comparing /\ cmd'.pc \notin Comparing /\ UNCHANGED exper
           \/ BeginRun \/ BeginStage \/ \E flags \in ResumeFlags : BeginResume(flags)
           \/ Reload \/ ReloadOptions \/ Freeze \/ Settle \/ Compare
           \/ Interrupt \/ ExecutionError \/ Crash
<1>1. CASE UNCHANGED vars \/ Cancel \/ Outside
  BY <1>1 DEF vars, Cancel, Outside
<1>2. CASE BeginDone \/ BeginStop
  <2>1. cmd = Idle /\ cmd'.pc \in {"cleanup", "stop"} /\ UNCHANGED exper
    BY <1>2, BeginKeeps DEF BeginDone, BeginStop
  <2> QED
    BY <2>1 DEF Idle, Comparing
<1>3. CASE Decide \/ Go \/ ClearIssue \/ SaveIssue
  <2>1. cmd.pc \in {"decide", "go", "clear", "issue"} /\ UNCHANGED exper
    BY <1>3 DEF Decide, Go, ClearIssue, SaveIssue, At
  <2>2. EndCmd \/ DriveOn \/ GotoDrop("go", {"accept", "retry"}) \/ Goto("clear")
    BY <1>3 DEF Decide, Go, ClearIssue, SaveIssue
  <2> QED
    BY <2>1, <2>2, EndKeeps, GotoKeeps, DropKeeps DEF Comparing, Steps
<1>4. CASE Drive
  <2>1. EndCmd \/ \E p \in {"env", "probe", "health", "open"} : Goto(p)
    BY <1>4 DEF Drive
  <2>2. cmd.pc = "drive" /\ UNCHANGED exper
    BY <1>4 DEF Drive, At
  <2> QED
    BY <2>1, <2>2, EndKeeps, GotoKeeps DEF Comparing, Steps
<1>5. CASE EnvCheck \/ Health
  <2>1. cmd.pc \in {"env", "health"} /\ UNCHANGED exper
    BY <1>5 DEF EnvCheck, Health, At
  <2>2. UNCHANGED cmd \/ StageDone \/ \E reason, resume : Block(reason, resume)
    BY <1>5 DEF EnvCheck, Health
  <2> QED
    BY <2>1, <2>2, EndKeeps, StageDoneKeeps DEF Comparing
<1>6. CASE Probe \/ Wait \/ Launch \/ LaunchRefused \/ Launched
  <2>1. cmd.pc \in {"probe", "wait", "launch", "launched"} /\ UNCHANGED exper
    BY <1>6 DEF Probe, Wait, Launch, LaunchRefused, Launched, At
  <2>2. \/ UNCHANGED cmd \/ EndCmd \/ \E reason, resume : Block(reason, resume)
        \/ \E p \in {"health", "launch", "wait", "launched"} : Goto(p)
    BY <1>6 DEF Probe, Wait, Launch, LaunchRefused, Launched
  <2> QED
    BY <2>1, <2>2, EndKeeps, GotoKeeps DEF Comparing, Steps
<1>7. CASE Recheck \/ Open \/ BenchRound \/ Collect \/ CompletePartial
  <2>1. cmd.pc \in {"recheck", "open", "bench", "partial"} /\ UNCHANGED exper
    BY <1>7 DEF Recheck, Open, BenchRound, Collect, CompletePartial, At
  <2>2. \/ UNCHANGED cmd \/ DriveOn \/ \E reason, resume : Block(reason, resume)
        \/ \E p \in {"bench", "partial"} : Goto(p)
    BY <1>7 DEF Recheck, Open, BenchRound, Collect, CompletePartial
  <2> QED
    BY <2>1, <2>2, EndKeeps, GotoKeeps DEF Comparing, Steps
<1>8. CASE WriteReport \/ Analyze \/ Cleanup \/ Finish \/ Stop
  <2>1. cmd.pc \in {"bench", "analyze", "analyzed", "cleanup", "finish", "stop"} /\ UNCHANGED exper
    BY <1>8 DEF WriteReport, Analyze, Cleanup, Finish, Stop, At
  <2>2. \/ UNCHANGED cmd \/ EndCmd \/ \E reason, resume : Block(reason, resume)
        \/ \E p \in {"analyze", "analyzed", "finish"} : Goto(p)
    BY <1>8 DEF WriteReport, Analyze, Cleanup, Finish, Stop
  <2> QED
    BY <2>1, <2>2, EndKeeps, GotoKeeps DEF Comparing, Steps, FreeSteps
<1> QED
  BY <1>1, <1>2, <1>3, <1>4, <1>5, <1>6, <1>7, <1>8 DEF Next

LEMMA FinalStep ==
    ASSUME StepFitsState, [Next]_vars, state \in Final
    PROVE  state' = state
<1> USE DEF Final
<1>1. CASE UNCHANGED state
  BY <1>1
<1>2. CASE BeginDone
  BY <1>2 DEF BeginDone
<1>3. CASE Cancel \/ Interrupt
  BY <1>3 DEF Cancel, Interrupt, CancelledFrom
<1>4. CASE Reload \/ Freeze \/ Open \/ Collect \/ ExecutionError
  <2>1. UNCHANGED state \/ \E reason, resume : Block(reason, resume)
    BY <1>4 DEF Reload, Freeze, Open, Collect, ExecutionError
  <2> QED
    BY <2>1 DEF Block, Blocked
<1>5. CASE Go
  <2>1. UNCHANGED state \/ Resumable(state) # {}
    BY <1>5 DEF Go
  <2>2. Resumable(state) = {}
    BY DEF Resumable, Waiting
  <2> QED
    BY <2>1, <2>2
<1>6. CASE EnvCheck \/ Probe \/ Wait \/ Launch \/ LaunchRefused \/ Launched \/ Health
  BY <1>6
  DEF EnvCheck, Probe, Wait, Launch, LaunchRefused, Launched, Health, StepFitsState, At
<1>7. CASE Recheck \/ BenchRound \/ CompletePartial \/ WriteReport \/ Analyze \/ Finish
  BY <1>7
  DEF Recheck, BenchRound, CompletePartial, WriteReport, Analyze, Finish, StepFitsState, At
<1>8. CASE BeginRun \/ BeginStage \/ BeginStop \/ \E flags \in ResumeFlags : BeginResume(flags)
  BY <1>8 DEF BeginRun, BeginStage, BeginStop, BeginResume
<1>9. CASE ReloadOptions \/ Settle \/ Decide \/ ClearIssue \/ SaveIssue \/ Drive \/ Compare
  BY <1>9 DEF ReloadOptions, Settle, Decide, ClearIssue, SaveIssue, Drive, Compare
<1>10. CASE Cleanup \/ Stop \/ Crash \/ Outside
  BY <1>10 DEF Cleanup, Stop, Crash, Outside
<1> QED
  BY <1>1, <1>2, <1>3, <1>4, <1>5, <1>6, <1>7, <1>8, <1>9, <1>10 DEF Next, vars

\* The states in which the commands that settle an experiment go on.
LEMMA SettlingStep ==
    ASSUME TypeOK, StepFitsState, SettlingFits, [Next]_vars
    PROVE  SettlingFits'
<1> DEFINE Decisions == Waiting \cup {"WAIT_USER_DECISION"}
           Free == {"idle", "issue", "drive", "env", "probe", "wait", "launch", "launched",
                    "health", "compare", "recheck", "open", "bench", "partial", "analyze",
                    "analyzed", "cleanup", "finish", "stop"}
<1>0. cmd'.pc \in Free => SettlingFits'
  BY DEF SettlingFits, At
<1>e. EndCmd \/ DriveOn \/ (\E reason, resume : Block(reason, resume)) => SettlingFits'
  BY <1>0, EndKeeps
<1>1. CASE UNCHANGED <<state, cmd, exper>>
  BY <1>1 DEF SettlingFits, At, Experiment, exper
<1>2. CASE BeginRun \/ BeginStage
  BY <1>2, BeginKeeps DEF BeginRun, BeginStage, SettlingFits, At
<1>3. ASSUME NEW flags \in ResumeFlags, BeginResume(flags)
      PROVE  SettlingFits'
  BY <1>3, BeginKeeps DEF BeginResume, SettlingFits, At, Experiment
<1>4. CASE BeginDone \/ BeginStop
  BY <1>0, <1>4, BeginKeeps DEF BeginDone, BeginStop
<1>5. CASE Cancel
  <2>1. CASE cmd = Idle /\ UNCHANGED cmd
    BY <1>0, <2>1 DEF Idle
  <2> QED
    BY <1>1, <1>5, <2>1 DEF Cancel
<1>6. CASE Reload
  <2>1. CASE GotoDrop("options", {"reload"}) /\ UNCHANGED state
    BY <1>6, <2>1, DropKeeps DEF Reload, SettlingFits, At, Steps, FreeSteps
  <2> QED
    BY <1>e, <1>6, <2>1 DEF Reload
<1>7. CASE ReloadOptions
  <2>1. cmd.pc = "options" /\ cmd'.pc = "validate" /\ cmd'.op = cmd.op /\ UNCHANGED state
    BY <1>7, GotoKeeps DEF ReloadOptions, At, Steps, FreeSteps
  <2>2. cmd.op = "resume"
    BY <2>1 DEF StepFitsState, At
  <2> QED
    BY <2>1, <2>2 DEF SettlingFits, At
<1>8. CASE Freeze
  <2>1. \/ EndCmd \/ DriveOn \/ \E reason, resume : Block(reason, resume)
        \/ \E p \in {"env", "health", "probe", "compare"} : Goto(p)
        \/ Goto("settle") /\ UNCHANGED state /\ cmd.op \notin {"run", "env-check", "start", "bench"}
    BY <1>8 DEF Freeze
  <2>2. CASE \E p \in {"env", "health", "probe", "compare"} : Goto(p)
    BY <1>0, <2>2, GotoKeeps DEF Steps
  <2>3. CASE Goto("settle") /\ UNCHANGED state /\ cmd.op \notin {"run", "env-check", "start", "bench"}
    BY <1>8, <2>3, GotoKeeps DEF Freeze, SettlingFits, At, Steps
  <2> QED
    BY <1>e, <2>1, <2>2, <2>3
<1>9. CASE Settle \/ Decide
  <2>1. EndCmd \/ (UNCHANGED state /\ (Goto("decide") \/ GotoDrop("go", {"accept", "retry"})))
    BY <1>9 DEF Settle, Decide
  <2>2. state \in Decisions
    BY <1>9 DEF Settle, Decide, SettlingFits, At
  <2>3. CASE UNCHANGED state /\ (Goto("decide") \/ GotoDrop("go", {"accept", "retry"}))
    BY <2>2, <2>3, GotoKeeps, DropKeeps DEF SettlingFits, At, Steps
  <2> QED
    BY <1>e, <2>1, <2>3
<1>10. CASE Go
  <2>1. EndCmd \/ (Goto("clear") /\ state' \in Resumable(state))
    BY <1>10 DEF Go
  <2>2. Resumable(state) \subseteq {"IDLE", "ENV_CHECK", "PROBE_SERVICE", "HEALTH", "BENCHMARK",
                                    "COLLECT"}
    BY DEF Resumable
  <2>3. CASE Goto("clear") /\ state' \in Resumable(state)
    BY <2>2, <2>3, GotoKeeps DEF SettlingFits, At, Steps, Final, Reported
  <2> QED
    BY <1>e, <2>1, <2>3
<1>11. CASE \/ ClearIssue \/ SaveIssue \/ Wait \/ LaunchRefused \/ Recheck \/ Stop \/ Finish
            \/ Interrupt \/ ExecutionError \/ Crash
  BY <1>e, <1>11 DEF ClearIssue, SaveIssue, Wait, LaunchRefused, Recheck, Stop, Finish,
                     Interrupt, ExecutionError, Crash
<1>12. CASE Drive \/ EnvCheck \/ Probe \/ Launch \/ Launched \/ Health
  <2>1. \/ cmd.pc \in Free /\ UNCHANGED cmd
        \/ EndCmd \/ StageDone \/ \E reason, resume : Block(reason, resume)
        \/ \E p \in {"env", "probe", "health", "open", "launch", "wait", "launched"} : Goto(p)
    BY <1>12 DEF Drive, EnvCheck, Probe, Launch, Launched, Health, At
  <2> QED
    BY <1>0, <1>e, <2>1, GotoKeeps, StageDoneKeeps DEF Steps
<1>13. CASE \/ Compare \/ Open \/ BenchRound \/ Collect \/ CompletePartial \/ WriteReport
            \/ Analyze \/ Cleanup
  <2>1. \/ cmd.pc \in Free /\ UNCHANGED cmd
        \/ EndCmd \/ \E reason, resume : Block(reason, resume)
        \/ \E p \in {"open", "recheck", "bench", "partial", "analyze", "analyzed", "finish"} :
              Goto(p)
    BY <1>13 DEF Compare, Open, BenchRound, Collect, CompletePartial, WriteReport, Analyze,
                 Cleanup, At
  <2> QED
    BY <1>0, <1>e, <2>1, GotoKeeps DEF Steps, FreeSteps
<1>14. CASE Outside
  BY <1>1, <1>14 DEF Outside
<1> QED
  BY <1>1, <1>2, <1>3, <1>4, <1>5, <1>6, <1>7, <1>8, <1>9, <1>10, <1>11, <1>12, <1>13, <1>14
  DEF Next, vars

LEMMA IntactBefore ==
    ASSUME TypeOK, StepFitsState, [Next]_vars, Intact'
    PROVE  Intact
<1>1. state # "CANCELLED"
  BY FinalStep DEF Intact, Final
<1>2. broken => broken'
  <2>1. CASE Freeze \/ ExecutionError \/ Crash
    BY <2>1 DEF Freeze, ExecutionError, Crash, TypeOK
  <2>2. CASE BeginRun \/ BeginStage \/ BeginDone \/ BeginStop \/ Cancel
             \/ \E flags \in ResumeFlags : BeginResume(flags)
    BY <2>2 DEF BeginRun, BeginStage, BeginDone, BeginStop, Cancel, BeginResume, hist
  <2>3. CASE Reload \/ ReloadOptions \/ Settle \/ Decide \/ Go \/ ClearIssue \/ SaveIssue
    BY <2>3 DEF Reload, ReloadOptions, Settle, Decide, Go, ClearIssue, SaveIssue, hist
  <2>4. CASE Drive \/ EnvCheck \/ Probe \/ Wait \/ Launch \/ LaunchRefused \/ Launched \/ Health
    BY <2>4 DEF Drive, EnvCheck, Probe, Wait, Launch, LaunchRefused, Launched, Health, hist
  <2>5. CASE Compare \/ Recheck \/ Open \/ BenchRound \/ Collect \/ CompletePartial
             \/ WriteReport \/ Analyze
    BY <2>5 DEF Compare, Recheck, Open, BenchRound, Collect, CompletePartial, WriteReport,
                Analyze, hist
  <2>6. CASE Cleanup \/ Finish \/ Stop \/ Interrupt \/ Outside \/ UNCHANGED vars
    BY <2>6 DEF Cleanup, Finish, Stop, Interrupt, Outside, hist, vars
  <2> QED
    BY <2>1, <2>2, <2>3, <2>4, <2>5, <2>6 DEF Next
<1> QED
  BY <1>1, <1>2 DEF Intact

\* A step that changes neither the rounds nor what they are compared with.
LEMMA MeasuredSame ==
    ASSUME RoundsAreMeasured, UNCHANGED <<runs, pending>>, Measured' = Measured
    PROVE  RoundsAreMeasured'
BY DEF RoundsAreMeasured

LEMMA MeasuredNothing ==
    ASSUME Unmeasured'
    PROVE  RoundsAreMeasured'
BY DEF RoundsAreMeasured, Unmeasured

LEMMA MeasuredMore ==
    ASSUME TypeOK, RoundsAreMeasured, pending # NoRound, Complete, MoreRounds,
           Measured = Experiment, Measured' = Measured, BenchRunAssumption, cfg \in Configs
    PROVE  RoundsAreMeasured'
<1>1. /\ DOMAIN runs' = 1 .. Len(runs) + 1 /\ Len(runs') = Len(runs) + 1
      /\ \A i \in 1 .. Len(runs) : runs'[i] = runs[i]
      /\ runs'[Len(runs) + 1] = pending
  BY DEF Complete, TypeOK
<1>2. Len(runs) \in Nat /\ DOMAIN runs = 1 .. Len(runs) /\ Rounds[cfg] \in Nat
  BY BenchRunAssumption DEF TypeOK, BenchRunAssumption
<1>3. pending' = NoRound /\ Len(runs) < Rounds[cfg] /\ Measured.cfg = cfg
  BY DEF Complete, MoreRounds, Experiment
<1> QED
  BY <1>1, <1>2, <1>3 DEF RoundsAreMeasured

LEMMA MeasuredStep ==
    ASSUME BenchRunAssumption, TypeOK, PartialFits, StepFitsState, SettlingFits,
           RoundsAreMeasured, UnmeasuredFirst, Intact, Intact', [Next]_vars
    PROVE  RoundsAreMeasured'
<1>0. UNCHANGED exper => Experiment' = Experiment
  BY DEF exper, Experiment
<1>1. CASE \/ UNCHANGED <<cmd, exper>>
           \/ cmd.pc \notin Comparing /\ cmd'.pc \notin Comparing /\ UNCHANGED exper
  <2>1. Measured' = Measured
    BY <1>0, <1>1 DEF Measured
  <2>2. CASE UNCHANGED rounds
    BY <2>1, <2>2, MeasuredSame DEF rounds
  <2>3. CASE Decide
    BY <2>1, <2>3 DEF Decide, RoundsAreMeasured
  <2>4. CASE BenchRound \/ Collect \/ CompletePartial
    <3>1. cmd.pc \in {"bench", "partial"} /\ cfg \in Configs /\ Measured = Experiment
      BY <2>4 DEF BenchRound, Collect, CompletePartial, At, TypeOK, FreeSteps, Measured, Comparing
    <3>2. \/ UNCHANGED <<runs, pending>>
          \/ UNCHANGED runs /\ pending' = [round |-> Len(runs) + 1, by |-> Experiment]
          \/ Complete /\ pending # NoRound /\ MoreRounds
      BY <2>4 DEF BenchRound, Collect, CompletePartial, PartialFits, rounds
    <3>3. CASE UNCHANGED runs /\ pending' = [round |-> Len(runs) + 1, by |-> Experiment]
      BY <2>1, <3>1, <3>3 DEF RoundsAreMeasured
    <3> QED
      BY <2>1, <3>1, <3>2, <3>3, MeasuredSame, MeasuredMore
  <2>5. CASE Settle \/ Compare
    <3>1. (UNCHANGED <<runs, pending>>) \/ Unmeasured'
      BY <2>5 DEF Settle, Compare, DropRounds, Unmeasured
    <3> QED
      BY <2>1, <3>1, MeasuredSame, MeasuredNothing
  <2> QED
    BY <2>2, <2>3, <2>4, <2>5, RoundsChange
<1>2. CASE BeginRun \/ BeginStage \/ \E flags \in ResumeFlags : BeginResume(flags)
  <2>1. cmd = Idle /\ cmd'.pc \in {"validate", "reload"} /\ cmd'.before = Experiment
    BY <1>2, BeginKeeps DEF BeginRun, BeginStage, BeginResume
  <2>2. Measured = Experiment /\ Measured' = Experiment
    BY <2>1 DEF Measured, Comparing, Idle
  <2>3. UNCHANGED rounds
    BY <1>2 DEF BeginRun, BeginStage, BeginResume
  <2> QED
    BY <2>2, <2>3, MeasuredSame DEF rounds
<1>3. CASE Reload
  <2>1. cmd.pc = "reload" /\ Experiment = cmd.before /\ UNCHANGED <<rounds, opts>>
    BY <1>3 DEF Reload, SettlingFits, At, rounds
  <2>2. \/ GotoDrop("options", {"reload"})
        \/ Block("other", RefusedAt) /\ UNCHANGED cfg
    BY <1>3, Zenon DEF Reload
  <2>3. Measured' = Measured
    BY <2>1, <2>2, <1>0, DropKeeps, EndKeeps DEF Measured, Comparing, Steps, FreeSteps, exper
  <2> QED
    BY <2>1, <2>3, MeasuredSame DEF rounds
<1>4. CASE ReloadOptions
  <2>1. Measured' = Measured /\ UNCHANGED rounds
    BY <1>4, GotoKeeps DEF ReloadOptions, At, Measured, Comparing, Steps, FreeSteps
  <2> QED
    BY <2>1, MeasuredSame DEF rounds
<1>5. CASE Freeze
  <2>1. UNCHANGED <<rounds, opts>> /\ cmd.pc = "validate"
    BY <1>5 DEF Freeze, At
  <2>2. \/ /\ (\E reason, resume : Block(reason, resume)) /\ UNCHANGED cfg
           /\ broken' = (broken \/ Experiment # cmd.before)
        \/ Goto("compare") \/ Goto("settle")
        \/ cmd.op \in {"run", "env-check", "start"}
    BY <1>5 DEF Freeze
  <2>3. CASE /\ (\E reason, resume : Block(reason, resume)) /\ UNCHANGED cfg
             /\ broken' = (broken \/ Experiment # cmd.before)
    <3>1. Experiment = cmd.before
      BY <2>3 DEF Intact
    <3>2. Measured' = Measured
      BY <2>1, <2>3, <3>1, <1>0, EndKeeps DEF Measured, Comparing, exper
    <3> QED
      BY <2>1, <3>2, MeasuredSame DEF rounds
  <2>4. CASE Goto("compare") \/ Goto("settle")
    <3>1. Measured' = Measured
      BY <2>1, <2>4, GotoKeeps DEF Measured, Comparing, Steps
    <3> QED
      BY <2>1, <3>1, MeasuredSame DEF rounds
  <2>5. CASE cmd.op \in {"run", "env-check", "start"}
    <3>1. state \in {"IDLE", "ENV_CHECK", "REPORT", "PROBE_SERVICE", "HEALTH"}
      <4>1. cmd.op = "env-check" => state \in {"IDLE", "ENV_CHECK"}
        BY <2>1, Zenon DEF StepFitsState, At
      <4>2. cmd.op = "start" => state \in {"REPORT", "PROBE_SERVICE", "HEALTH"}
        BY <2>1 DEF StepFitsState, At
      <4>3. cmd.op = "run" => state = "IDLE"
        BY <2>1 DEF SettlingFits, At
      <4> QED
        BY <2>5, <4>1, <4>2, <4>3
    <3>2. Unmeasured
      BY <3>1 DEF UnmeasuredFirst, Early, States, Measuring, Reported
    <3> QED
      BY <2>1, <3>2, MeasuredNothing DEF rounds, Unmeasured
  <2> QED
    BY <2>2, <2>3, <2>4, <2>5
<1>6. CASE Settle \/ Compare
  <2>1. /\ cmd.pc \in Comparing /\ UNCHANGED exper
        /\ IF Experiment # cmd.before THEN DropRounds ELSE UNCHANGED <<runs, pending>>
    BY <1>6 DEF Settle, Compare, At, Comparing
  <2>2. \E p \in {"decide", "open", "recheck"} : Goto(p)
    BY <1>6 DEF Settle, Compare
  <2>3. cmd'.pc \notin Comparing
    BY <2>2, GotoKeeps DEF Comparing, Steps
  <2>4. CASE Experiment = cmd.before
    <3>1. Measured' = Measured
      BY <1>0, <2>1, <2>3, <2>4 DEF Measured
    <3> QED
      BY <2>1, <2>4, <3>1, MeasuredSame
  <2>5. CASE Experiment # cmd.before
    BY <2>1, <2>5, MeasuredNothing DEF DropRounds, Unmeasured
  <2> QED
    BY <2>4, <2>5
<1>7. CASE Interrupt
  <2>1. state \in Final /\ UNCHANGED <<exper, rounds>>
    BY <1>7 DEF Interrupt, CancelledFrom, Intact
  <2>2. cmd.pc \notin Comparing
    <3>1. cmd.pc = "validate" /\ cmd.op = "env-check" => state \in {"IDLE", "ENV_CHECK"}
      BY Zenon DEF StepFitsState, At
    <3>2. cmd.pc = "validate" /\ cmd.op = "start" => state \in {"REPORT", "PROBE_SERVICE", "HEALTH"}
      BY DEF StepFitsState, At
    <3>3. cmd.pc = "validate" /\ cmd.op = "bench" => state \in {"BENCHMARK", "COLLECT"}
      BY DEF StepFitsState, At
    <3> QED
      BY <2>1, <3>1, <3>2, <3>3 DEF StepFitsState, SettlingFits, At, Comparing, Final, Waiting
  <2>3. cmd'.pc \notin Comparing
    BY <1>7, EndKeeps DEF Interrupt, Comparing
  <2>4. Measured' = Measured
    BY <1>0, <2>1, <2>2, <2>3 DEF Measured
  <2> QED
    BY <2>1, <2>4, MeasuredSame DEF rounds
<1>8. CASE ExecutionError \/ Crash
  BY <1>8 DEF ExecutionError, Crash, Intact
<1> QED
  BY <1>1, <1>2, <1>3, <1>4, <1>5, <1>6, <1>7, <1>8, QuietSteps

\* Only a benchmarked round ends the time without rounds.
LEMMA UnmeasuredKept ==
    ASSUME PartialFits, Unmeasured, [Next]_vars, ~At("bench") \/ UNCHANGED <<runs, pending>>
    PROVE  Unmeasured'
<1>1. ~BenchRound \/ UNCHANGED <<runs, pending>>
  BY DEF BenchRound
<1> QED
  BY <1>1, RoundsChange
  DEF Unmeasured, rounds, Settle, Compare, DropRounds, Decide, Collect, CompletePartial, PartialFits

LEMMA UnmeasuredFrame ==
    ASSUME UnmeasuredFirst, PartialFits, [Next]_vars,
           ~At("bench") \/ UNCHANGED <<runs, pending>>,
           cmd'.pc \notin {"issue", "recheck", "decide", "go"},
           state' \in Early => state \in Early \/ Unmeasured,
           state' = "WAIT_USER_DECISION" => state' = state /\ ~At("issue") /\ UNCHANGED issue
    PROVE  UnmeasuredFirst'
<1>1. Early' = Early /\ Measuring' = Measuring
  BY DEF Early, States, Measuring, Reported, Waiting, Final
<1> QED
  BY <1>1, UnmeasuredKept DEF UnmeasuredFirst, At

LEMMA UnmeasuredBlock ==
    ASSUME NEW reason, NEW resume, Block(reason, resume), resume \in Measuring \/ Unmeasured,
           UNCHANGED <<runs, pending>>
    PROVE  UnmeasuredFirst'
<1>1. cmd'.pc = "issue" /\ cmd'.issue.resume = resume /\ state' = Blocked(state)
  BY EndKeeps
<1>2. Blocked(state) \notin Early
  BY DEF Blocked, Early, Final, Reported
<1>3. Early' = Early /\ Measuring' = Measuring /\ (Unmeasured => Unmeasured')
  BY DEF Early, States, Measuring, Reported, Waiting, Final, Unmeasured
<1> QED
  BY <1>1, <1>2, <1>3 DEF UnmeasuredFirst, At

\* Where a resume that is refused, or goes on, without rounds of its own.
LEMMA RefusedFits ==
    ASSUME StepFitsState, SettlingFits, UnmeasuredFirst, At("reload") \/ At("validate")
    PROVE  RefusedAt \in Measuring \/ Unmeasured
<1>1. state \in Waiting \/ state \in {"IDLE", "ENV_CHECK", "REPORT", "PROBE_SERVICE", "HEALTH"}
      => Unmeasured
  BY DEF UnmeasuredFirst, Early, States, Waiting, Measuring, Reported
<1>2. CASE cmd.op = "resume"
  <2>1. RefusedAt = IF issue = NoIssue THEN "IDLE" ELSE issue.resume
    BY <1>2, Zenon DEF RefusedAt
  <2>2. state \in Waiting \cup {"WAIT_USER_DECISION"}
    BY <1>2 DEF SettlingFits, At
  <2>3. issue = NoIssue => issue.resume \notin Measuring
    BY DEF NoIssue, Measuring
  <2> QED
    BY <1>1, <2>1, <2>2, <2>3 DEF UnmeasuredFirst, At
<1>3. CASE cmd.op \in {"run", "env-check", "start"} /\ At("validate")
  <2>1. cmd.op = "env-check" => state \in {"IDLE", "ENV_CHECK"}
    BY <1>3, Zenon DEF StepFitsState, At
  <2>2. cmd.op = "start" => state \in {"REPORT", "PROBE_SERVICE", "HEALTH"}
    BY <1>3 DEF StepFitsState, At
  <2>3. cmd.op = "run" => state = "IDLE"
    BY <1>3 DEF SettlingFits, At
  <2> QED
    BY <1>1, <1>3, <2>1, <2>2, <2>3
<1>4. CASE cmd.op = "bench"
  BY <1>4, Zenon DEF RefusedAt, Measuring
<1>5. At("reload") => cmd.op = "resume"
  BY DEF StepFitsState
<1> QED
  BY <1>2, <1>3, <1>4, <1>5 DEF SettlingFits

\* The commands begin and settle their experiment.
LEMMA UnmeasuredConfiguration ==
    ASSUME TypeOK, PartialFits, StepFitsState, SettlingFits, UnmeasuredFirst, [Next]_vars,
           \/ BeginRun \/ BeginStage \/ BeginDone \/ BeginStop
           \/ (\E flags \in ResumeFlags : BeginResume(flags))
           \/ Reload \/ ReloadOptions \/ Freeze \/ Settle \/ Decide \/ Go \/ ClearIssue \/ SaveIssue
    PROVE  UnmeasuredFirst'
<1> DEFINE Elsewhere == cmd'.pc \notin {"issue", "recheck", "decide", "go"}
<1>0. Early' = Early /\ Measuring' = Measuring
  BY DEF Early, States, Measuring, Reported, Waiting, Final
<1>1. CASE \/ BeginRun \/ BeginStage \/ BeginDone \/ BeginStop
           \/ (\E flags \in ResumeFlags : BeginResume(flags))
  <2>1. cmd = Idle /\ Elsewhere /\ (UNCHANGED state \/ state' = "STOP_SERVICE")
    BY <1>1, BeginKeeps DEF BeginRun, BeginStage, BeginDone, BeginStop, BeginResume
  <2>2. UNCHANGED <<rounds, issue>>
    BY <1>1 DEF BeginRun, BeginStage, BeginDone, BeginStop, BeginResume
  <2>3. "STOP_SERVICE" \notin Early
    BY DEF Early, Reported
  <2> QED
    BY <2>1, <2>2, <2>3, UnmeasuredFrame DEF At, Idle, rounds
<1>2. CASE Reload
  <2>1. At("reload") /\ UNCHANGED <<rounds, issue>>
    BY <1>2 DEF Reload
  <2>2. CASE GotoDrop("options", {"reload"}) /\ UNCHANGED state
    BY <2>1, <2>2, DropKeeps, UnmeasuredFrame DEF At, Steps, FreeSteps
  <2>3. CASE Block("other", RefusedAt)
    BY <2>1, <2>3, RefusedFits, UnmeasuredBlock DEF rounds
  <2> QED
    BY <1>2, <2>2, <2>3 DEF Reload
<1>3. CASE ReloadOptions
  BY <1>3, GotoKeeps, UnmeasuredFrame DEF ReloadOptions, At, Steps, FreeSteps
<1>4. CASE Freeze
  <2>1. At("validate") /\ UNCHANGED <<rounds, issue>>
    BY <1>4 DEF Freeze
  <2>2. \/ UNCHANGED state
           /\ (DriveOn \/ \E p \in {"env", "health", "probe", "compare", "settle"} : Goto(p))
        \/ Block("other", RefusedAt)
    BY <1>4 DEF Freeze
  <2>3. CASE UNCHANGED state
             /\ (DriveOn \/ \E p \in {"env", "health", "probe", "compare", "settle"} : Goto(p))
    <3>1. Elsewhere
      BY <2>3, EndKeeps, GotoKeeps DEF Steps
    <3> QED
      BY <2>1, <2>3, <3>1, UnmeasuredFrame DEF At
  <2>4. CASE Block("other", RefusedAt)
    BY <2>1, <2>4, RefusedFits, UnmeasuredBlock DEF rounds
  <2> QED
    BY <2>2, <2>3, <2>4
<1>5. CASE Settle \/ Decide
  <2>1. ~At("bench") /\ ~At("issue") /\ UNCHANGED <<state, exper, issue>>
    BY <1>5 DEF Settle, Decide, At
  <2>2. Unmeasured => Unmeasured'
    BY <2>1, UnmeasuredKept
  <2>3. \/ Settle /\ Goto("decide")
        \/ Decide /\ EndCmd
        \/ Decide /\ GotoDrop("go", {"accept", "retry"})
    BY <1>5 DEF Settle, Decide
  <2>4. CASE Decide /\ EndCmd
    BY <2>1, <2>4, EndKeeps, UnmeasuredFrame
  <2>5. CASE ~(Decide /\ EndCmd)
    <3>1. cmd'.pc \in {"decide", "go"} /\ cmd'.before = cmd.before
      BY <2>3, <2>5, GotoKeeps, DropKeeps DEF Steps
    <3>2. Experiment' = Experiment
      BY <2>1 DEF Experiment, exper
    <3>3. Experiment # cmd.before => Unmeasured'
      <4>1. Settle => (Experiment # cmd.before => Unmeasured')
        BY DEF Settle, DropRounds, Unmeasured
      <4>2. Decide => (Experiment # cmd.before => Unmeasured)
        BY DEF Decide, UnmeasuredFirst
      <4> QED
        BY <1>5, <2>2, <4>1, <4>2
    <3> QED
      BY <1>0, <2>1, <2>2, <3>1, <3>2, <3>3 DEF UnmeasuredFirst, At
  <2> QED
    BY <2>4, <2>5
<1>6. CASE Go
  <2>1. At("go") /\ UNCHANGED <<rounds, issue>>
    BY <1>6 DEF Go
  <2>2. CASE EndCmd /\ UNCHANGED state
    BY <2>1, <2>2, EndKeeps, UnmeasuredFrame DEF At
  <2>3. CASE Goto("clear") /\ state' = Target /\ Target \in Resumable(state)
    <3>1. cmd'.pc = "clear"
      BY <2>3, GotoKeeps DEF Steps
    <3>2. state' # "WAIT_USER_DECISION"
      BY <2>3 DEF Resumable
    <3>3. state' \in Early => Unmeasured
      <4>1. CASE Experiment # cmd.before
        BY <2>1, <4>1 DEF UnmeasuredFirst
      <4>2. CASE Experiment = cmd.before
        <5>1. Target = IF issue = NoIssue THEN "PROBE_SERVICE" ELSE issue.resume
          BY <4>2 DEF Target, ResumeAt
        <5>2. state \in Waiting \cup {"WAIT_USER_DECISION"}
          BY <2>1 DEF SettlingFits
        <5>3. issue = NoIssue => issue.resume \notin Measuring
          BY DEF NoIssue, Measuring
        <5>4. Waiting \subseteq Early
          BY DEF Waiting, Early, States, Measuring, Reported
        <5>5. Early \cap Measuring = {}
          BY DEF Early
        <5> QED
          BY <2>1, <2>3, <5>1, <5>2, <5>3, <5>4, <5>5 DEF UnmeasuredFirst, At
      <4> QED
        BY <4>1, <4>2
    <3> QED
      BY <2>1, <3>1, <3>2, <3>3, UnmeasuredFrame DEF At
  <2> QED
    BY <1>6, <2>2, <2>3 DEF Go
<1>7. CASE ClearIssue
  <2>1. state # "WAIT_USER_DECISION"
    BY <1>7 DEF ClearIssue, SettlingFits
  <2> QED
    BY <1>7, <2>1, EndKeeps, UnmeasuredFrame DEF ClearIssue, At
<1>8. CASE SaveIssue
  <2>1. At("issue") /\ UNCHANGED <<state, rounds>> /\ issue' = cmd.issue /\ cmd'.pc = "idle"
    BY <1>8, EndKeeps DEF SaveIssue
  <2>2. Unmeasured' = Unmeasured
    BY <2>1 DEF Unmeasured, rounds
  <2> QED
    BY <1>0, <2>1, <2>2 DEF UnmeasuredFirst, At
<1> QED
  BY <1>1, <1>2, <1>3, <1>4, <1>5, <1>6, <1>7, <1>8

\* The stages before the rounds.
LEMMA UnmeasuredService ==
    ASSUME TypeOK, PartialFits, StepFitsState, UnmeasuredFirst, [Next]_vars,
           \/ Drive \/ EnvCheck \/ Probe \/ Wait \/ Launch \/ LaunchRefused \/ Launched \/ Health
    PROVE  UnmeasuredFirst'
<1> DEFINE Elsewhere == cmd'.pc \notin {"issue", "recheck", "decide", "go"}
<1>0. Waiting \cup {"IDLE", "ENV_CHECK", "REPORT", "PROBE_SERVICE", "START_SERVICE", "HEALTH"}
        \subseteq Early
  BY DEF Early, States, Measuring, Reported, Waiting
<1>1. CASE Drive
  <2>1. At("drive") /\ UNCHANGED <<state, rounds, issue>>
    BY <1>1 DEF Drive
  <2>2. EndCmd \/ \E p \in {"env", "probe", "health", "open"} : Goto(p)
    BY <1>1 DEF Drive
  <2>3. Elsewhere
    BY <2>2, EndKeeps, GotoKeeps DEF Steps
  <2> QED
    BY <2>1, <2>3, UnmeasuredFrame DEF At
<1>2. CASE EnvCheck
  <2>1. At("env") /\ UNCHANGED <<rounds, issue>> /\ Unmeasured
    BY <1>0, <1>2 DEF EnvCheck, StepFitsState, UnmeasuredFirst
  <2>2. \/ state' \in {"ENV_CHECK", "REPORT"} /\ (UNCHANGED cmd \/ StageDone)
        \/ Block("other", "ENV_CHECK")
    BY <1>2 DEF EnvCheck
  <2>3. CASE state' \in {"ENV_CHECK", "REPORT"} /\ (UNCHANGED cmd \/ StageDone)
    BY <2>1, <2>3, StageDoneKeeps, UnmeasuredFrame DEF At
  <2> QED
    BY <2>1, <2>2, <2>3, UnmeasuredBlock DEF rounds
<1>3. CASE Probe
  <2>1. At("probe") /\ UNCHANGED rounds /\ Unmeasured /\ state # "WAIT_USER_DECISION"
    BY <1>0, <1>3 DEF Probe, StepFitsState, UnmeasuredFirst
  <2>2. \/ /\ state' \in {state, "PROBE_SERVICE", "HEALTH", "START_SERVICE"}
           /\ UNCHANGED cmd \/ \E p \in {"health", "launch", "wait"} : Goto(p)
        \/ Block("other", "PROBE_SERVICE")
    BY <1>3 DEF Probe
  <2>3. CASE /\ state' \in {state, "PROBE_SERVICE", "HEALTH", "START_SERVICE"}
             /\ UNCHANGED cmd \/ \E p \in {"health", "launch", "wait"} : Goto(p)
    BY <2>1, <2>3, GotoKeeps, UnmeasuredFrame DEF At, Steps
  <2> QED
    BY <2>1, <2>2, <2>3, UnmeasuredBlock DEF rounds
<1>4. CASE Wait
  <2>1. At("wait") /\ Unmeasured /\ state' \in Waiting /\ EndCmd
    BY <1>0, <1>4 DEF Wait, StepFitsState, UnmeasuredFirst
  <2>2. "WAIT_USER_DECISION" \notin Waiting
    BY DEF Waiting
  <2> QED
    BY <2>1, <2>2, EndKeeps, UnmeasuredFrame DEF At
<1>5. CASE Launch \/ LaunchRefused \/ Launched
  <2>1. /\ At("launch") \/ At("launched")
        /\ UNCHANGED <<rounds, issue>> /\ Unmeasured /\ state = "START_SERVICE"
    BY <1>0, <1>5 DEF Launch, LaunchRefused, Launched, StepFitsState, UnmeasuredFirst
  <2>2. \/ Goto("launched") /\ UNCHANGED state
        \/ Goto("health") /\ state' = "HEALTH"
        \/ Block("other", "PROBE_SERVICE")
    BY <1>5 DEF Launch, LaunchRefused, Launched
  <2>3. CASE \/ Goto("launched") /\ UNCHANGED state
             \/ Goto("health") /\ state' = "HEALTH"
    BY <2>1, <2>3, GotoKeeps, UnmeasuredFrame DEF At, Steps
  <2> QED
    BY <2>1, <2>2, <2>3, UnmeasuredBlock DEF rounds
<1>6. CASE Health
  <2>1. At("health") /\ UNCHANGED <<rounds, issue>> /\ Unmeasured
    BY <1>0, <1>6 DEF Health, StepFitsState, UnmeasuredFirst
  <2>2. (state' = "BENCHMARK" /\ StageDone) \/ Block("other", "PROBE_SERVICE")
    BY <1>6 DEF Health
  <2>3. CASE state' = "BENCHMARK" /\ StageDone
    BY <2>1, <2>3, StageDoneKeeps, UnmeasuredFrame DEF At
  <2> QED
    BY <2>1, <2>2, <2>3, UnmeasuredBlock DEF rounds
<1> QED
  BY <1>1, <1>2, <1>3, <1>4, <1>5, <1>6

\* The rounds, the report, and the end of the run.
LEMMA UnmeasuredStages ==
    ASSUME TypeOK, PartialFits, StepFitsState, UnmeasuredFirst, [Next]_vars,
           \/ Compare \/ Recheck \/ Open \/ BenchRound \/ Collect \/ CompletePartial
           \/ WriteReport \/ Analyze \/ Cleanup \/ Finish \/ Stop
    PROVE  UnmeasuredFirst'
<1> DEFINE Elsewhere == cmd'.pc \notin {"issue", "recheck", "decide", "go"}
<1>0. /\ Early' = Early /\ Measuring' = Measuring
      /\ Early \cap (Measuring \cup {"ANALYZE", "DONE", "WAIT_USER_DECISION"}) = {}
  BY DEF Early, States, Measuring, Reported, Waiting, Final
<1>1. CASE Compare
  <2>1. At("compare") /\ UNCHANGED <<state, issue>> /\ state \in Measuring
    BY <1>1 DEF Compare, StepFitsState, Measuring
  <2>2. CASE Goto("open")
    BY <2>1, <2>2, GotoKeeps, UnmeasuredFrame DEF At, Steps
  <2>3. CASE Goto("recheck") /\ Unmeasured'
    <3>1. cmd'.pc = "recheck" /\ state' \in Measuring
      BY <2>1, <2>3, GotoKeeps DEF Steps
    <3> QED
      BY <1>0, <2>3, <3>1 DEF UnmeasuredFirst, At, Measuring
  <2> QED
    BY <1>1, <2>2, <2>3 DEF Compare, DropRounds, Unmeasured
<1>2. CASE Recheck
  <2>1. At("recheck") /\ Unmeasured /\ state' = "PROBE_SERVICE" /\ DriveOn
    BY <1>2 DEF Recheck, UnmeasuredFirst
  <2> QED
    BY <2>1, EndKeeps, UnmeasuredFrame DEF At
<1>3. CASE Open
  <2>1. At("open") /\ UNCHANGED <<rounds, issue>>
    BY <1>3 DEF Open
  <2>2. CASE Goto("bench") /\ UNCHANGED state
    BY <2>1, <2>2, GotoKeeps, UnmeasuredFrame DEF At, Steps
  <2> QED
    BY <1>3, <2>1, <2>2, UnmeasuredBlock DEF Open, rounds, Measuring
<1>4. CASE BenchRound \/ Collect
  <2>1. At("bench") /\ UNCHANGED issue /\ state \in Measuring
    BY <1>4 DEF BenchRound, Collect, StepFitsState, Measuring
  <2>2. \/ UNCHANGED state /\ (UNCHANGED cmd \/ Goto("partial"))
        \/ \E reason \in Reasons : Block(reason, "BENCHMARK") /\ UNCHANGED <<runs, pending>>
    BY <1>4 DEF BenchRound, Collect, Reasons, rounds
  <2>3. CASE UNCHANGED state /\ (UNCHANGED cmd \/ Goto("partial"))
    <3>1. cmd'.pc \in {"bench", "partial"} /\ state' \in Measuring
      BY <2>1, <2>3, GotoKeeps DEF Steps, At
    <3> QED
      BY <1>0, <3>1 DEF UnmeasuredFirst, At, Measuring
  <2> QED
    BY <2>2, <2>3, UnmeasuredBlock DEF Measuring
<1>5. CASE CompletePartial
  BY <1>5, GotoKeeps, UnmeasuredFrame DEF CompletePartial, At, Steps
<1>6. CASE WriteReport
  <2>1. At("bench") /\ UNCHANGED <<rounds, issue>>
    BY <1>6 DEF WriteReport
  <2>2. \/ state' = "COLLECT" /\ (UNCHANGED cmd \/ Goto("analyze"))
        \/ Block("other", "COLLECT")
    BY <1>6 DEF WriteReport
  <2>3. CASE state' = "COLLECT" /\ (UNCHANGED cmd \/ Goto("analyze"))
    BY <1>0, <2>1, <2>3, GotoKeeps, UnmeasuredFrame DEF At, Steps, Measuring, rounds
  <2> QED
    BY <2>1, <2>2, <2>3, UnmeasuredBlock DEF rounds, Measuring
<1>7. CASE Analyze \/ Cleanup \/ Finish \/ Stop
  <2>1. ~At("bench") /\ ~At("issue") /\ UNCHANGED issue /\ (UNCHANGED state \/ state' \in {"ANALYZE", "DONE"})
    BY <1>7 DEF Analyze, Cleanup, Finish, Stop, At
  <2>2. EndCmd \/ \E p \in {"analyzed", "finish"} : Goto(p)
    BY <1>7 DEF Analyze, Cleanup, Finish, Stop
  <2>3. Elsewhere
    BY <2>2, EndKeeps, GotoKeeps DEF Steps, FreeSteps
  <2> QED
    BY <1>0, <2>1, <2>3, UnmeasuredFrame
<1> QED
  BY <1>1, <1>2, <1>3, <1>4, <1>5, <1>6, <1>7

LEMMA UnmeasuredStep ==
    ASSUME TypeOK, PartialFits, StepFitsState, SettlingFits, UnmeasuredFirst, Intact', [Next]_vars
    PROVE  UnmeasuredFirst'
<1>1. CASE UNCHANGED vars \/ Outside
  BY <1>1 DEF vars, Outside, UnmeasuredFirst, Unmeasured, At, Experiment, exper, rounds, Early,
              States, Measuring, Reported, Waiting, Final
<1>2. CASE Cancel \/ Interrupt
  <2>1. CASE UNCHANGED <<state, cmd>>
    BY <1>2, <2>1 DEF Cancel, Interrupt, UnmeasuredFirst, Unmeasured, At, Experiment, exper, rounds,
                      Early, States, Measuring, Reported, Waiting, Final
  <2>2. CASE state' \in Final /\ cmd'.pc = "idle"
    BY <2>2 DEF UnmeasuredFirst, At, Early, Reported, Final
  <2>3. state' = CancelledFrom(state) => state' \in Final
    BY DEF CancelledFrom, Final
  <2>4. Cancel => UNCHANGED <<state, cmd>> \/ (state' = CancelledFrom(state) /\ cmd'.pc = "idle")
    BY DEF Cancel, Idle
  <2>5. Interrupt => state' = CancelledFrom(state) /\ cmd'.pc = "idle"
    BY EndKeeps DEF Interrupt
  <2> QED
    BY <1>2, <2>1, <2>2, <2>3, <2>4, <2>5
<1>3. CASE ExecutionError \/ Crash
  BY <1>3 DEF ExecutionError, Crash, Intact
<1> QED
  BY <1>1, <1>2, <1>3, UnmeasuredConfiguration, UnmeasuredService, UnmeasuredStages DEF Next

LEMMA AnalyzeFrom ==
    ASSUME TypeOK, [Next]_vars, ~WriteReport, cmd'.pc = "analyze"
    PROVE  At("analyze")
<1>0. ~EndCmd /\ ~DriveOn /\ ~StageDone /\ ~\E reason, resume : Block(reason, resume)
  BY EndKeeps, StageDoneKeeps
<1>1. CASE UNCHANGED vars \/ Cancel \/ Outside
  BY <1>1 DEF vars, Cancel, Outside, At
<1>2. CASE \/ BeginRun \/ BeginStage \/ BeginDone \/ BeginStop
           \/ \E flags \in ResumeFlags : BeginResume(flags)
  BY <1>2, BeginKeeps DEF BeginRun, BeginStage, BeginDone, BeginStop, BeginResume
<1>3. CASE Reload \/ ReloadOptions \/ Freeze \/ Settle \/ Decide \/ Go \/ ClearIssue \/ SaveIssue
  BY <1>0, <1>3, GotoKeeps, DropKeeps
  DEF Reload, ReloadOptions, Freeze, Settle, Decide, Go, ClearIssue, SaveIssue, Steps, FreeSteps
<1>4. CASE Drive \/ EnvCheck \/ Probe \/ Wait \/ Launch \/ LaunchRefused \/ Launched \/ Health
  <2>1. \/ UNCHANGED cmd
        \/ \E p \in {"env", "probe", "health", "open", "launch", "wait", "launched"} : Goto(p)
    BY <1>0, <1>4 DEF Drive, EnvCheck, Probe, Wait, Launch, LaunchRefused, Launched, Health
  <2> QED
    BY <2>1, GotoKeeps DEF Steps, At
<1>5. CASE Compare \/ Recheck \/ Open \/ BenchRound \/ Collect \/ CompletePartial
  <2>1. UNCHANGED cmd \/ \E p \in {"open", "recheck", "bench", "partial"} : Goto(p)
    BY <1>0, <1>5 DEF Compare, Recheck, Open, BenchRound, Collect, CompletePartial
  <2> QED
    BY <2>1, GotoKeeps DEF Steps, At
<1>6. CASE Analyze \/ Cleanup \/ Finish \/ Stop \/ Interrupt \/ ExecutionError \/ Crash
  BY <1>0, <1>6, GotoKeeps
  DEF Analyze, Cleanup, Finish, Stop, Interrupt, ExecutionError, Crash, At, Steps, FreeSteps
<1> QED
  BY <1>1, <1>2, <1>3, <1>4, <1>5, <1>6 DEF Next

LEMMA ReportedFrom ==
    ASSUME TypeOK, StepFitsState, [Next]_vars, ~WriteReport, At("analyze")' \/ state' \in Reported
    PROVE  At("analyze") \/ state \in Reported
<1> SUFFICES ASSUME state' \in Reported
             PROVE  At("analyze") \/ state \in Reported
  BY AnalyzeFrom DEF At
<1>0. Reported \cap (Waiting \cup {"WAIT_USER_DECISION", "CANCELLED", "IDLE", "ENV_CHECK", "REPORT",
                    "PROBE_SERVICE", "START_SERVICE", "HEALTH", "BENCHMARK", "COLLECT"}) = {}
  BY DEF Reported, Waiting
<1>1. CASE UNCHANGED state
  BY <1>1
<1>2. CASE BeginDone \/ Analyze \/ Finish
  BY <1>2 DEF BeginDone, Analyze, Finish, StepFitsState, Reported, At
<1>3. CASE \E reason, resume : Block(reason, resume)
  BY <1>0, <1>3 DEF Block, Blocked
<1>4. CASE Cancel \/ Interrupt
  BY <1>0, <1>4 DEF Cancel, Interrupt, CancelledFrom
<1>5. CASE \/ BeginRun \/ BeginStage \/ BeginStop
           \/ \E flags \in ResumeFlags : BeginResume(flags)
  BY <1>1, <1>5 DEF BeginRun, BeginStage, BeginStop, BeginResume
<1>6. CASE Reload \/ ReloadOptions \/ Freeze \/ Settle \/ Decide \/ ClearIssue \/ SaveIssue
  <2>1. UNCHANGED state \/ \E reason, resume : Block(reason, resume)
    BY <1>6 DEF Reload, ReloadOptions, Freeze, Settle, Decide, ClearIssue, SaveIssue
  <2> QED
    BY <1>1, <1>3, <2>1
<1>7. CASE Go
  <2>1. Resumable(state) \cap Reported = {}
    BY DEF Resumable, Reported
  <2> QED
    BY <1>1, <1>7, <2>1 DEF Go
<1>8. CASE Drive \/ EnvCheck \/ Probe \/ Wait \/ Launch \/ LaunchRefused \/ Launched \/ Health
  BY <1>0, <1>1, <1>3, <1>8
  DEF Drive, EnvCheck, Probe, Wait, Launch, LaunchRefused, Launched, Health
<1>9. CASE Compare \/ Recheck \/ Open \/ BenchRound \/ Collect \/ CompletePartial
  BY <1>0, <1>1, <1>3, <1>9 DEF Compare, Recheck, Open, BenchRound, Collect, CompletePartial
<1>10. CASE Cleanup \/ Stop \/ ExecutionError \/ Crash \/ Outside \/ UNCHANGED vars
  BY <1>1, <1>3, <1>10 DEF Cleanup, Stop, ExecutionError, Crash, Outside, vars
<1> QED
  BY <1>1, <1>2, <1>3, <1>4, <1>5, <1>6, <1>7, <1>8, <1>9, <1>10 DEF Next

LEMMA ReportedKeeps ==
    ASSUME TypeOK, StepFitsState, SettlingFits, [Next]_vars, At("analyze") \/ state \in Reported
    PROVE  UNCHANGED <<cfg, runs>>
<1>0. Reported \cap (Waiting \cup {"WAIT_USER_DECISION", "CANCELLED", "IDLE", "ENV_CHECK", "REPORT",
                    "PROBE_SERVICE", "START_SERVICE", "HEALTH", "BENCHMARK", "COLLECT"}) = {}
  BY DEF Reported, Waiting
<1>1. ~At("reload") /\ ~At("settle") /\ ~At("decide")
  BY <1>0 DEF SettlingFits, At
<1>2. ~At("compare") /\ ~At("bench") /\ ~At("partial")
  BY <1>0 DEF StepFitsState, At
<1>3. ~At("validate")
  <2>1. At("validate") /\ cmd.op = "env-check" => state \in {"IDLE", "ENV_CHECK"}
    BY Zenon DEF StepFitsState
  <2>2. At("validate") /\ cmd.op = "start" => state \in {"REPORT", "PROBE_SERVICE", "HEALTH"}
    BY DEF StepFitsState
  <2>3. At("validate") /\ cmd.op = "bench" => state \in {"BENCHMARK", "COLLECT"}
    BY DEF StepFitsState
  <2> QED
    BY <1>0, <2>1, <2>2, <2>3 DEF SettlingFits, At
<1>4. UNCHANGED runs
  BY <1>1, <1>2, RoundsChange DEF rounds, Settle, Decide, Compare, BenchRound, Collect, CompletePartial
<1>5. UNCHANGED cfg
  <2>1. ~Reload /\ ~Freeze /\ ~Settle /\ ~Compare
    BY <1>1, <1>2, <1>3 DEF Reload, Freeze, Settle, Compare
  <2>2. BeginRun \/ BeginStage \/ ReloadOptions \/ (\E flags \in ResumeFlags : BeginResume(flags))
        => UNCHANGED cfg
    BY DEF BeginRun, BeginStage, ReloadOptions, BeginResume
  <2>3. Interrupt \/ ExecutionError \/ Crash => UNCHANGED cfg
    BY DEF Interrupt, ExecutionError, Crash, exper
  <2> QED
    BY <2>1, <2>2, <2>3, QuietSteps DEF exper
<1> QED
  BY <1>4, <1>5

\* The report is written behind the last round, and nothing it holds changes
\* afterwards.
LEMMA FinishedStep ==
    ASSUME BenchRunAssumption, TypeOK, StepFitsState, SettlingFits, RoundsAreMeasured, Finished,
           Intact, Intact', [Next]_vars
    PROVE  Finished'
<1> SUFFICES ASSUME At("analyze")' \/ state' \in Reported
             PROVE  Len(runs') = Rounds[cfg']
  BY DEF Finished, Reported
<1>1. CASE WriteReport
  <2>1. /\ cmd.pc = "bench" /\ cfg \in Configs /\ UNCHANGED <<cfg, runs>>
        /\ ~(Len(runs) < Rounds[cfg])
    BY <1>1 DEF WriteReport, At, TypeOK, FreeSteps, MoreRounds, exper, rounds
  <2>2. Len(runs) \in Nat /\ Rounds[cfg] \in Nat \ {0} /\ Measured.cfg = cfg
    BY <2>1, BenchRunAssumption DEF TypeOK, BenchRunAssumption, Measured, Comparing, Experiment
  <2> QED
    BY <2>1, <2>2 DEF RoundsAreMeasured
<1>2. CASE ~WriteReport
  <2>1. At("analyze") \/ state \in Reported
    BY <1>2, ReportedFrom
  <2>2. UNCHANGED <<cfg, runs>>
    BY <2>1, ReportedKeeps
  <2> QED
    BY <2>1, <2>2 DEF Finished
<1> QED
  BY <1>1, <1>2

-----------------------------------------------------------------------------
(* The inductive invariant and what follows. *)

LEMMA InvInit == Init => InductiveInv
<1> SUFFICES ASSUME Init PROVE InductiveInv
  OBVIOUS
<1>1. RoundsInOrder /\ AcceptedOnce /\ accept = {} /\ cmd.pc = "idle" /\ state = "IDLE" /\ Unmeasured
  BY DEF Init, RoundsInOrder, AcceptedOnce, Idle, Unmeasured
<1>2. StepFitsState /\ SettlingFits /\ PartialFits
  BY <1>1 DEF StepFitsState, SettlingFits, PartialFits, At
<1>3. RoundsAreMeasured /\ UnmeasuredFirst /\ Finished
  BY <1>1 DEF RoundsAreMeasured, UnmeasuredFirst, Finished, Unmeasured, Reported, At
<1> QED
  BY <1>1, <1>2, <1>3, TypeInit DEF InductiveInv

LEMMA InvNext == InductiveInv /\ [Next]_vars => InductiveInv'
<1> SUFFICES ASSUME InductiveInv, [Next]_vars PROVE InductiveInv'
  OBVIOUS
<1>1. /\ TypeOK' /\ RoundsInOrder' /\ AcceptedOnce' /\ (accept # {} => unused >= 1)'
      /\ PartialFits' /\ StepFitsState' /\ SettlingFits'
  BY TypeNext, OrderStep, GrantStep, FitStep, PartialStep, SettlingStep, BenchRunAssumption
  DEF InductiveInv
<1>2. ASSUME Intact'
      PROVE  (RoundsAreMeasured /\ UnmeasuredFirst /\ Finished)'
  <2>1. Intact
    BY <1>2, IntactBefore DEF InductiveInv
  <2> QED
    BY <1>2, <2>1, MeasuredStep, UnmeasuredStep, FinishedStep, BenchRunAssumption DEF InductiveInv
<1> QED
  BY <1>1, <1>2 DEF InductiveInv

\* The saved state, the frozen experiment and the command in progress have
\* their types after any commands, crashes and errors, and every step finds a
\* frozen configuration and the state it was written for (_config_for_run,
\* _drive and the guards of the stages, main.py).
THEOREM Invariance == Spec => []InductiveInv
BY InvInit, InvNext, PTL DEF Spec

\* The rounds kept in completed_runs are those of the sweep in its order, and
\* the pending one is the next, whatever is interrupted (cmd_bench, main.py).
THEOREM RoundsStayInOrder == Spec => []RoundsInOrder
<1>1. InductiveInv => RoundsInOrder
  BY DEF InductiveInv
<1> QED
  BY <1>1, Invariance, PTL

\* No round without all its metrics is completed but by an accept-partial of
\* its own (cmd_resume and cmd_bench, main.py).
THEOREM GrantsAreUsedOnce == Spec => []AcceptedOnce
<1>1. InductiveInv => AcceptedOnce
  BY DEF InductiveInv
<1> QED
  BY <1>1, Invariance, PTL

\* As long as no command has crashed, raised, or refused overrides that it had
\* saved in part, a report holds all rounds of its experiment and no round of
\* another one (_settle of cmd_resume, cmd_bench and _generate_report, main.py).
THEOREM ReportStaysWhole == Spec => []ReportIsWhole
<1>1. InductiveInv => ReportIsWhole
  <2> SUFFICES ASSUME InductiveInv, state \in Reported, ~broken
               PROVE  Len(runs) = Rounds[cfg] /\ \A i \in DOMAIN runs : runs[i].by = Experiment
    BY DEF ReportIsWhole
  <2>1. RoundsAreMeasured /\ Finished /\ StepFitsState /\ SettlingFits
    BY DEF InductiveInv, Intact, Reported
  <2>2. cmd.pc \notin Comparing
    <3>1. At("validate") /\ cmd.op = "env-check" => state \in {"IDLE", "ENV_CHECK"}
      BY <2>1, Zenon DEF StepFitsState
    <3>2. At("validate") /\ cmd.op = "start" => state \in {"REPORT", "PROBE_SERVICE", "HEALTH"}
      BY <2>1 DEF StepFitsState
    <3>3. At("validate") /\ cmd.op = "bench" => state \in {"BENCHMARK", "COLLECT"}
      BY <2>1 DEF StepFitsState
    <3> QED
      BY <2>1, <3>1, <3>2, <3>3 DEF StepFitsState, SettlingFits, At, Comparing, Reported, Waiting
  <2> QED
    BY <2>1, <2>2 DEF RoundsAreMeasured, Finished, Measured
<1> QED
  BY <1>1, Invariance, PTL

\* Under the same proviso nothing has been measured before the service of the
\* configuration is healthy, so that the overrides of a start, which drop no
\* rounds, hit none (cmd_start and cmd_resume, main.py).
THEOREM NothingIsMeasuredEarly == Spec => []NothingMeasuredEarly
<1>1. InductiveInv => NothingMeasuredEarly
  BY DEF InductiveInv, NothingMeasuredEarly, Intact, UnmeasuredFirst, Early
<1> QED
  BY <1>1, Invariance, PTL

\* A finished or cancelled run stays so, whatever command, marker or error
\* comes after (transition, cmd_cancel and _block, main.py).
THEOREM FinalStaysFinal == Spec => FinalIsFinal
<1>1. InductiveInv /\ [Next]_vars => [(state \in Final) => state' = state]_vars
  BY FinalStep DEF InductiveInv
<1> QED
  BY <1>1, Invariance, PTL DEF Spec, FinalIsFinal
=============================================================================
