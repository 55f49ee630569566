----------------------------- MODULE TemplateMerge -----------------------------
(***************************************************************************)
(* The logs of one file in the clustering worker                           *)
(* (log_detection_base_on_clustering.py, service/cluster.py): each log is  *)
(* united with the nearest logs an index returns, the roots that remain    *)
(* are clustered by DBSCAN and the outliers among them by KMeans, and the  *)
(* logs of the clusters furthest from the normal ones are the candidates.  *)
(* Which logs are near, the labels and the distances are the data's.       *)
(***************************************************************************)
EXTENDS Integers, Sequences, FiniteSets

CONSTANTS LogCounts,      \* numbers of logs a file may have
          MaxRounds,      \* max_iterations of the clustering
          AnomalyCount    \* max_anomaly_log_count
ASSUME MergeAssumption == LogCounts \subseteq Nat \ {0} /\ {MaxRounds, AnomalyCount} \subseteq Nat

NoParent == -1
VARIABLES tmAt,          \* "parse", "merge", "dbscan", "kmeans", "choose", "mark", "done"
          tmForest,      \* log -> parent, rank, sz
          tmNext,        \* logs united so far
          tmClusters,    \* set of [logs, outlier]
          tmRound, tmNormal, tmPicked
tmVars == <<tmAt, tmForest, tmNext, tmClusters, tmRound, tmNormal, tmPicked>>

TmInit == /\ tmForest = <<>> /\ tmAt = "parse" /\ tmNext = 0 /\ tmClusters = {} /\ tmRound = 0 /\ tmNormal = {} /\ tmPicked = {}

ParseLogs == /\ tmAt = "parse" /\ tmAt' = "merge"
             /\ \E n \in LogCounts : tmForest' = [x \in 0..(n - 1) |-> [parent |-> NoParent, rank |-> 0, sz |-> 1]]
             /\ UNCHANGED <<tmNext, tmClusters, tmRound, tmNormal, tmPicked>>

MergeLogs == DOMAIN tmForest
Count == Cardinality(MergeLogs)
(* Following parents from x, at most as often as there are logs.             *)
Climb(f, x) == LET up[n \in 0..Count] == IF n = 0 THEN x
                                          ELSE IF f[up[n - 1]].parent = NoParent THEN up[n - 1] ELSE f[up[n - 1]].parent
               IN up[Count]
Ends(f, x) == f[Climb(f, x)].parent = NoParent

(* The trees of log i and of log j become one.  NoParent as a position is    *)
(* Python's last log: the index returns it when there are fewer logs than    *)
(* it was asked for, which only a file of one log can have.                  *)
Under(f, a, b, rank) == [f EXCEPT ![b].parent = a, ![a].sz = @ + f[b].sz, ![a].rank = @ + rank]
United(f, i, j) == LET a == Climb(f, i)  b == IF j = NoParent THEN Count - 1 ELSE Climb(f, j) IN
                   IF a = b /\ j # NoParent THEN f
                   ELSE IF f[a].rank < f[b].rank THEN Under(f, a, b, 0)
                   ELSE IF f[a].rank > f[b].rank THEN Under(f, b, a, 0) ELSE Under(f, a, b, 1)
Nearest == IF Count = 1 THEN {<<0, NoParent>>} ELSE {near \in MergeLogs \X MergeLogs : near[1] # near[2]}

MergeTemplate == /\ tmAt = "merge" /\ tmNext < Count
                 /\ \E near \in Nearest : tmForest' = United(United(tmForest, tmNext, near[1]), tmNext, near[2])
                 /\ tmNext' = tmNext + 1 /\ UNCHANGED <<tmAt, tmClusters, tmRound, tmNormal, tmPicked>>

Roots == {x \in MergeLogs : tmForest[x].parent = NoParent}
Singles(xs) == {[logs |-> {x}, outlier |-> FALSE] : x \in xs}
LogsOf(clusters) == UNION {c.logs : c \in clusters}
KeepRoots == /\ tmAt = "merge" /\ tmNext = Count /\ tmAt' = "dbscan" /\ tmClusters' = Singles(Roots)
             /\ UNCHANGED <<tmForest, tmNext, tmRound, tmNormal, tmPicked>>

(* Clusters with one label become one; label 0 stands for DBSCAN's -1, each  *)
(* of whose clusters stays by itself.                                        *)
Labels == [tmClusters -> 0..Cardinality(tmClusters)]
WithLabel(label, n) == {c \in tmClusters : label[c] = n}
\* mutant: the first cluster of a label is kept, not extended
RegroupedFirst(label) ==
  {[c EXCEPT !.outlier = TRUE] : c \in WithLabel(label, 0)}
    \cup {[logs |-> (CHOOSE c \in WithLabel(label, n) : TRUE).logs, outlier |-> FALSE] : n \in {label[c] : c \in tmClusters} \ {0}}
Regrouped(label) ==
  {[c EXCEPT !.outlier = TRUE] : c \in WithLabel(label, 0)}
    \cup {[logs |-> LogsOf(WithLabel(label, n)), outlier |-> FALSE] : n \in {label[c] : c \in tmClusters} \ {0}}

(* Too many clusters are first grouped batch by batch, a bounded number of   *)
(* rounds; the last round has them all.                                      *)
DbscanRound == /\ tmAt = "dbscan" /\ tmRound < MaxRounds /\ tmRound' = tmRound + 1
               /\ \E label \in Labels : tmClusters' = Regrouped(label)
               /\ UNCHANGED <<tmAt, tmForest, tmNext, tmNormal, tmPicked>>
DbscanLast == /\ tmAt = "dbscan" /\ tmAt' = "kmeans" /\ tmRound' = 0
              /\ \E label \in Labels :
                   /\ tmNormal' = LogsOf({c \in Regrouped(label) : ~c.outlier})
                   /\ tmClusters' = Singles(LogsOf({c \in Regrouped(label) : c.outlier}))
              /\ UNCHANGED <<tmForest, tmNext, tmPicked>>
KMeansRound == /\ tmAt = "kmeans"
               /\ \E label \in [tmClusters -> 1..Cardinality(tmClusters)] : tmClusters' = Regrouped(label)
               /\ \/ tmRound < MaxRounds /\ tmRound' = tmRound + 1 /\ UNCHANGED tmAt
                  \/ tmAt' = "choose" /\ tmRound' = 0
               /\ UNCHANGED <<tmForest, tmNext, tmNormal, tmPicked>>

(* The clusters furthest from the normal ones, 2 * max_anomaly_log_count.    *)
Chosen == IF Cardinality(tmClusters) < 2 * AnomalyCount THEN Cardinality(tmClusters) ELSE 2 * AnomalyCount
Choose == /\ tmAt = "choose" /\ tmAt' = "mark"
          /\ \E far \in SUBSET tmClusters : Cardinality(far) = Chosen /\ tmPicked' = LogsOf(far)
          /\ UNCHANGED <<tmForest, tmNext, tmClusters, tmRound, tmNormal>>
(* The loop climbs from every log to its root and compares the root's        *)
(* position with the candidates' identifiers, which never match.             *)
Mark == /\ tmAt = "mark" /\ \A x \in MergeLogs : Ends(tmForest, x)
        /\ tmAt' = "done" /\ UNCHANGED <<tmForest, tmNext, tmClusters, tmRound, tmNormal, tmPicked>>

TmNext == ParseLogs \/ MergeTemplate \/ KeepRoots \/ DbscanRound \/ DbscanLast \/ KMeansRound \/ Choose \/ Mark

(* Uniting templates one nearest neighbour at a time keeps a forest: every   *)
(* climb in the loops that follow parents ends, and the sizes at the roots   *)
(* count every log once.  A file of one log is the exception below.          *)
ForestKept == Count > 1 =>
  /\ \A x \in MergeLogs : Ends(tmForest, x)
  /\ \A r \in Roots : tmForest[r].sz = Cardinality({x \in MergeLogs : Climb(tmForest, x) = r})
(* However labels fall, round after round, a template is in one cluster      *)
(* only or among the normal ones, and none is dropped on the way to the      *)
(* candidates when the clusters fit the places.                              *)
TemplatesKept ==
  /\ tmAt \in {"dbscan", "kmeans", "choose"} =>
       /\ LogsOf(tmClusters) \cup tmNormal = Roots /\ LogsOf(tmClusters) \cap tmNormal = {}
       /\ \A c, d \in tmClusters : c # d => c.logs \cap d.logs = {}
  /\ tmAt \in {"mark", "done"} =>
       /\ tmPicked \subseteq Roots \ tmNormal
       /\ Cardinality(tmClusters) <= 2 * AnomalyCount => tmPicked = Roots \ tmNormal
(* Both: what is known of the clusters of a file from the first merge on.    *)
ClustersAreSound == ForestKept /\ TemplatesKept
(* parser and clustering are written for any file that has a log (the guard  *)
(* at line 142 sends back empty files only): marking ends.                   *)
MarkingEnds == tmAt = "mark" => \A x \in MergeLogs : Ends(tmForest, x)
=============================================================================
