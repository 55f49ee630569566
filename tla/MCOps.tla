------------------------------- MODULE MCOps -------------------------------
(***************************************************************************)
(* The daemons of openeuler-ops-agent side by side: an incremental dataset *)
(* and the mailing list dataset of kernel-dataset-agent, and the patrol    *)
(* with its alerts; and the experience base.  The datasets keep their state *)
(* under their own key and directory and the others are programs of their  *)
(* own, so a behaviour looks at one of them, the focus, and the others     *)
(* stand still.                                                            *)
(***************************************************************************)
EXTENDS Watermark, EmailShards, PatrolAlerts, ExperienceBase, TLC

VARIABLE focus

vars == <<focus, wmVars, emVars, paVars, ebVars>>

Init == focus \in {"watermark", "email", "patrol", "experience"}
        /\ WmInit /\ EmInit /\ PaInit /\ EbInit

OfWatermark == focus = "watermark" /\ WmNext /\ UNCHANGED <<focus, emVars, paVars, ebVars>>
OfEmail     == focus = "email" /\ EmNext /\ UNCHANGED <<focus, wmVars, paVars, ebVars>>
OfPatrol    == focus = "patrol" /\ PaNext /\ UNCHANGED <<focus, wmVars, emVars, ebVars>>

OfExperience == focus = "experience" /\ EbNext /\ UNCHANGED <<focus, wmVars, emVars, paVars>>

Next == OfWatermark \/ OfEmail \/ OfPatrol \/ OfExperience

Spec == Init /\ [][Next]_vars
-----------------------------------------------------------------------------
(* TLC instance of Ops: three upstream items over three dates and two rounds, *)
(* three parts of mail, a warning and a critical rule on one value; two rows  *)
(* of experiences and a limit of one hot skill.                              *)
MCKinds == {"commits", "issues", "bugs"}
MCThreshold == ("warn" :> 1) @@ ("crit" :> 2)
MCTypeOf == ("s1" :> "SKILL") @@ ("s2" :> "SKILL") @@ ("w1" :> "WIKI") @@ ("" :> "none")
MCSymmetry == Permutations(Runs)
=============================================================================
