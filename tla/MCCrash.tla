------------------------------ MODULE MCCrash ------------------------------
(***************************************************************************)
(* The tools of shennong-crash side by side: crash_matcher's search for    *)
(* community cases, its base of known issues and its extraction of         *)
(* features, and the scripts that make the crash report.  They share no    *)
(* state (two bases, no cache in common), so a behaviour looks at one of   *)
(* them, the focus, and the others stand still.                            *)
(***************************************************************************)
EXTENDS CommunitySearch, KnowledgeMatch, CrashFeatures, CrashReport, ReportBlock, TLC

VARIABLE focus

vars == <<focus, searchVars, kmVars, cfVars, crVars, rbVars>>

Init ==
  /\ focus \in {"community", "issues", "features", "report", "block"}
  /\ SearchInit /\ KmInit /\ CfInit /\ CrInit /\ RbInit

OfCommunity == focus = "community" /\ SearchNext /\ UNCHANGED <<focus, kmVars, cfVars, crVars, rbVars>>
OfIssues    == focus = "issues" /\ KmNext /\ UNCHANGED <<focus, searchVars, cfVars, crVars, rbVars>>
OfFeatures  == focus = "features" /\ CfNext /\ UNCHANGED <<focus, searchVars, kmVars, crVars, rbVars>>
OfReport    == focus = "report" /\ CrNext /\ UNCHANGED <<focus, searchVars, kmVars, cfVars, rbVars>>
OfBlock     == focus = "block" /\ RbNext /\ UNCHANGED <<focus, searchVars, kmVars, cfVars, crVars>>

Next == OfCommunity \/ OfIssues \/ OfFeatures \/ OfReport \/ OfBlock

Spec == Init /\ [][Next]_vars

(* What the report's scripts pass is sound: the validated copy, and each     *)
(* quoted block about which the validator says nothing.                      *)
ReportIsSound == CopyIsSound /\ WarnedOrShown
-----------------------------------------------------------------------------
(* TLC instance of Crash: a base of one document, three upstream commits, two *)
(* of them one patch; two signatures, one contained in the other; a report of *)
(* two sections, and a quoted block of three lines.                           *)
MCSeeds == {[sha |-> "a", title |-> "curated"]}
MCOnline == {[sha |-> "a", title |-> "fix"], [sha |-> "c", title |-> "fix"],
             [sha |-> "d", title |-> "new"]}
MCLike == ("s" :> {"s", "sx"}) @@ ("sx" :> {"sx"})
=============================================================================
