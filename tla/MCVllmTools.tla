---------------------------- MODULE MCVllmTools ----------------------------
(***************************************************************************)
(* The tools under a run of the vLLM benchmark agent, which BenchRun takes *)
(* as single steps: the locks of the devices, the probe and the launch of  *)
(* the service, the processes that measure a round, and the quantiles of   *)
(* its report; and several commands that find their runs by one pointer.   *)
(* Each works on files and processes of its own; a behaviour looks at one  *)
(* of them, the focus, and the others stand still.                         *)
(***************************************************************************)
EXTENDS DeviceLocks, ServiceProbe, RoundMeasure, LatencyHistogram, RunPointer, TLC

VARIABLE focus

vars == <<focus, locksVars, probeVars, roundVars, lhVars, pointerVars>>

(* What a focus leaves alone has one initial state.                          *)
Init ==
  /\ focus \in {"locks", "probe", "round", "quantiles", "pointer"}
  /\ LocksInit /\ ProbeInit /\ RoundInit /\ LhInit /\ PointerInit
  /\ focus # "locks" => \A r \in Runs : want[r] = CHOOSE w \in Wishes : TRUE
  /\ focus # "probe" => ~up /\ other = CHOOSE o \in Others : TRUE
  /\ focus # "round" => select = CHOOSE groups \in Selections : TRUE

OfLocks == /\ focus = "locks" /\ LocksNext
           /\ UNCHANGED <<focus, probeVars, roundVars, lhVars, pointerVars>>
OfProbe == /\ focus = "probe" /\ ProbeNext
           /\ UNCHANGED <<focus, locksVars, roundVars, lhVars, pointerVars>>
OfRound == /\ focus = "round" /\ RoundNext
           /\ UNCHANGED <<focus, locksVars, probeVars, lhVars, pointerVars>>
OfQuantiles == /\ focus = "quantiles" /\ LhNext
               /\ UNCHANGED <<focus, locksVars, probeVars, roundVars, pointerVars>>
OfPointer == /\ focus = "pointer" /\ PointerNext
             /\ UNCHANGED <<focus, locksVars, probeVars, roundVars, lhVars>>

Next == OfLocks \/ OfProbe \/ OfRound \/ OfQuantiles \/ OfPointer

Spec == Init /\ [][Next]_vars
-----------------------------------------------------------------------------
(* TLC instance of VllmTools: two runs whose services live in one container,  *)
(* two NPUs, three processes, two attempts at a round of two requests, a      *)
(* histogram of two finite buckets, and four commands in two shells.           *)
MCContainer == [r \in Runs |-> "vllm-bench"]
MCWishes == {{1}, {1, 2}}
MCOthers == {[port |-> TRUE, options |-> "config"], [port |-> FALSE, options |-> "model"]}
MCSelections == {{"queue_time", "request_timeline"}}
MCSymmetry == Permutations(Runs)
=============================================================================
