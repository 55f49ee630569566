----------------------------- MODULE MCAnalysis -----------------------------
(***************************************************************************)
(* The two log analysers.  What a worker of witty-log-detection computes,  *)
(* part by part: parsing a file, vectors and their cache, merging          *)
(* templates, the model's answers, picking the anomalies, storing them;    *)
(* and the scan and the alerts of buddy-log-analyzer.  One part hands      *)
(* values to the next and no state is shared between them, so a behaviour  *)
(* looks at one, the focus, and the others stand still.                    *)
(***************************************************************************)
EXTENDS LogParse, EmbeddingCache, TemplateMerge, LlmStream, AnomalyPick, ResultStore,
        LogScan, LogAlerts, TLC

VARIABLE focus

vars == <<focus, lpVars, ecVars, tmVars, llVars, apVars, storeVars, lsVars, laVars>>

Init == /\ focus \in {"parse", "vectors", "templates", "model", "pick", "store", "scan", "alerts"}
        /\ LpInit /\ EcInit /\ TmInit /\ LlInit /\ PickInit /\ StoreInit /\ LsInit /\ LaInit

OfParse == /\ focus = "parse" /\ LpNext
           /\ UNCHANGED <<focus, ecVars, tmVars, llVars, apVars, storeVars, lsVars, laVars>>
OfVectors == /\ focus = "vectors" /\ EcNext
             /\ UNCHANGED <<focus, lpVars, tmVars, llVars, apVars, storeVars, lsVars, laVars>>
OfTemplates == /\ focus = "templates" /\ TmNext
               /\ UNCHANGED <<focus, lpVars, ecVars, llVars, apVars, storeVars, lsVars, laVars>>
OfModel == /\ focus = "model" /\ LlNext
           /\ UNCHANGED <<focus, lpVars, ecVars, tmVars, apVars, storeVars, lsVars, laVars>>
OfPick == /\ focus = "pick" /\ PickNext
          /\ UNCHANGED <<focus, lpVars, ecVars, tmVars, llVars, storeVars, lsVars, laVars>>
OfStore == /\ focus = "store" /\ StoreNext
           /\ UNCHANGED <<focus, lpVars, ecVars, tmVars, llVars, apVars, lsVars, laVars>>
OfScan == /\ focus = "scan" /\ LsNext
          /\ UNCHANGED <<focus, lpVars, ecVars, tmVars, llVars, apVars, storeVars, laVars>>
OfAlerts == /\ focus = "alerts" /\ LaNext
            /\ UNCHANGED <<focus, lpVars, ecVars, tmVars, llVars, apVars, storeVars, lsVars>>

Next == OfParse \/ OfVectors \/ OfTemplates \/ OfModel
        \/ OfPick \/ OfStore \/ OfScan \/ OfAlerts

Spec == Init /\ [][Next]_vars
(* Producers, callers and the model answer in the end: requests time out.    *)
FairSpec == Spec /\ (focus = "model" => LlFairness)
-----------------------------------------------------------------------------
(* TLC instance of Analysis: files of up to four lines, two workers with two *)
(* texts and two models, files of up to four templates, two logs sent to the *)
(* model, two files of up to three scored logs, five results in batches of   *)
(* two, a log of up to four lines, and two processes that alert up to four   *)
(* times.                                                                    *)
MCSymmetry == Permutations(Texts) \cup Permutations(Models) \cup Permutations(Workers) \cup Permutations(Analysts)
MCRank == <<3, 1, 4, 2, 5>>
MCFiles == ("keywords" :> 2) @@ ("embedding" :> 2) @@ ("llm" :> 1)
=============================================================================
