------------------------------ MODULE AnomalyPick ------------------------------
(***************************************************************************)
(* From scored logs to marked rows, in the keywords, embedding and LLM     *)
(* workers of witty-log-detection (worker/*.py): each file gives its logs  *)
(* and its candidates; all candidates are ranked and cut to                *)
(* max_anomaly_log_count, copies are dropped, and the rows that are saved  *)
(* are marked.  Scores are the data's; a copy of a log is its content      *)
(* again in the same file.  A log is known by its place in apLogs.         *)
(***************************************************************************)
EXTENDS Integers, Sequences, FiniteSets, SequencesExt

CONSTANTS Kinds,                      \* subset of {"keywords", "embedding", "llm"}
          Contents, Keywords,
          FilesOf,                    \* bound: kind -> files of a task
          FileLogs, MaxScore,         \* bounds: logs of a file, scores
          PickCount,                  \* max_anomaly_log_count
          CopyPercent                 \* deduplication_threshold
ASSUME PickAssumption == /\ Kinds \subseteq {"keywords", "embedding", "llm"} /\ IsFiniteSet(Keywords)
                         /\ \A kind \in Kinds : FilesOf[kind] \in Nat
                         /\ {FileLogs, MaxScore, PickCount, CopyPercent} \subseteq Nat \ {0}

VARIABLES apKind,
          apDedup,     \* enable_deduplication
          apFiles,     \* files still to be handled
          apLogs,      \* log_models of all files so far: [file, content, score, words]
          apPicks,     \* places in apLogs of candidate_unnormal_log_models
          apSaved, apRows  \* the rows saved in the end: [log, marked]
apVars == <<apKind, apDedup, apFiles, apLogs, apPicks, apSaved, apRows>>

PickInit == /\ apKind = "none" /\ apDedup = FALSE /\ apFiles = 0
            /\ apLogs = <<>> /\ apPicks = <<>> /\ apSaved = FALSE /\ apRows = {}

TakeTask == /\ apKind = "none" /\ apKind' \in Kinds /\ apDedup' \in BOOLEAN /\ apFiles' \in 1..FilesOf[apKind']
            /\ UNCHANGED <<apLogs, apPicks, apSaved, apRows>>

(* list.sort(key=anomaly_score, reverse=True) of the logs at the places S:   *)
(* equal scores keep their order.                                            *)
Above(logs, i, j) == logs[i].score > logs[j].score \/ (logs[i].score = logs[j].score /\ i < j)
Ranked(logs, S) == [n \in 1..Cardinality(S) |-> CHOOSE i \in S : Cardinality({j \in S : Above(logs, j, i)}) = n - 1]
FirstOf(seq, n) == SubSeq(seq, 1, IF Len(seq) < n THEN Len(seq) ELSE n)

(* keywords: the best of the file; embedding: the best of those that reached *)
(* the lowest score that counts, which gives the others none.                *)
\* mutant: the file's logs are cut before they are ranked
PickByCutFirst(logs) == Ranked(logs, {i \in 1..Len(logs) : i <= PickCount})
PickByScore(logs) == FirstOf(Ranked(logs, 1..Len(logs)), PickCount)
PickByReach(logs) == FirstOf(Ranked(logs, {i \in 1..Len(logs) : logs[i].score > 0}), PickCount)

(* llm: each keyword, the one with the highest score first, has its best     *)
(* logs taken, PickCount shared out; then the best logs fill the places left.*)
WithWord(logs, kw) == {i \in 1..Len(logs) : kw \in logs[i].words}
Keyworded(logs, kw) == Ranked(logs, WithWord(logs, kw))
Named(logs) == {kw \in Keywords : WithWord(logs, kw) # {}}
TakeNum(logs) == IF PickCount \div Cardinality(Named(logs)) < 1 THEN 1 ELSE PickCount \div Cardinality(Named(logs))
TakeNew(picked, i, logs) == IF logs[i].score = 0 \/ (\E n \in 1..Len(picked) : picked[n] = i) \/ Len(picked) >= PickCount
                            THEN picked ELSE Append(picked, i)
TakeAll(picked, list, logs) ==
  LET taken[n \in 0..Len(list)] == IF n = 0 THEN picked ELSE TakeNew(taken[n - 1], list[n], logs)
  IN taken[Len(list)]
PickByWord(logs, order) ==
  LET quota[n \in 0..Len(order)] ==
        IF n = 0 THEN <<>> ELSE TakeAll(quota[n - 1], FirstOf(Keyworded(logs, order[n]), TakeNum(logs)), logs)
  IN TakeAll(quota[Len(order)], Ranked(logs, 1..Len(logs)), logs)
(* Keywords of one highest score come in the order the model named them.     *)
Orders(logs) == {order \in SetToSeqs(Named(logs)) :
                   \A m, n \in 1..Len(order) : m < n => logs[Keyworded(logs, order[m])[1]].score
                                                          >= logs[Keyworded(logs, order[n])[1]].score}
PicksOf(logs) == CASE apKind = "keywords" -> {PickByScore(logs)}
                   [] apKind = "embedding" -> {PickByReach(logs)}
                   [] apKind = "llm" -> {PickByWord(logs, order) : order \in Orders(logs)}

(* A file: its logs, scored.  Copies score the same except by the model.     *)
ScoredLogs == {logs \in UNION {[1..n -> [content : Contents, score : 0..MaxScore, words : SUBSET Keywords]] : n \in 0..FileLogs} :
                 apKind # "llm" => /\ \A i, j \in 1..Len(logs) : logs[i].content = logs[j].content => logs[i].score = logs[j].score
                                   /\ \A i \in 1..Len(logs) : logs[i].words = {}}
HandleFile ==
  /\ apFiles > 0 /\ apFiles' = apFiles - 1
  /\ \E logs \in ScoredLogs :
       /\ apLogs' = apLogs \o [i \in 1..Len(logs) |-> [file |-> apFiles, content |-> logs[i].content,
                                                   score |-> logs[i].score, words |-> logs[i].words]]
       /\ \E picks \in PicksOf(logs) : apPicks' = apPicks \o [i \in 1..Len(picks) |-> Len(apLogs) + picks[i]]
  /\ UNCHANGED <<apKind, apDedup, apSaved, apRows>>

(* add_log_parse_results: copies go when the task asks for it or when more   *)
(* than a share of the logs are copies; of each log the copy with the        *)
(* highest score stays, the first of equals.                                 *)
Places == 1..Len(apLogs)
Copy(i, j) == apLogs[i].file = apLogs[j].file /\ apLogs[i].content = apLogs[j].content
Copies == Cardinality({j \in Places : \E i \in Places : i < j /\ Copy(i, j)})
NeedDedup == apDedup \/ Copies * 100 > CopyPercent * Len(apLogs)
Kept(i) == \A j \in Places : Copy(i, j) /\ j # i => (apLogs[j].score < apLogs[i].score \/ (apLogs[j].score = apLogs[i].score /\ i < j))
Candidates == [n \in 1..Len(apPicks) |-> apLogs[apPicks[n]]]
BestPicks == FirstOf(Ranked(Candidates, 1..Len(apPicks)), PickCount)
Finalists == {apPicks[BestPicks[n]] : n \in 1..Len(BestPicks)}
SaveRows == /\ apKind # "none" /\ apFiles = 0 /\ ~apSaved /\ apSaved' = TRUE
            /\ apRows' = LET final == Finalists
                         IN {[log |-> i, marked |-> i \in final /\ apLogs[i].score > 0] :
                               i \in {i \in Places : NeedDedup => Kept(i)}}
            /\ UNCHANGED <<apKind, apDedup, apFiles, apLogs, apPicks>>
PickNext == TakeTask \/ HandleFile \/ SaveRows

Marked == {r.log : r \in {r \in apRows : r.marked}}
Scored == {i \in Places : apLogs[i].score > 0}
(* Ranking and cutting file by file and then over all files marks what one   *)
(* ranking of all logs would: no log that is left out outscores a marked     *)
(* one, and no place stays free while a scored log is left out.              *)
BestAreMarked == apSaved /\ ~NeedDedup /\ apKind # "llm" =>
  /\ \A i \in Marked, j \in Places \ Marked : apLogs[i].score >= apLogs[j].score
  /\ Cardinality(Marked) = IF Cardinality(Scored) < PickCount THEN Cardinality(Scored) ELSE PickCount
(* The copy that stays is the one that was selected: a log marked anomalous  *)
(* is not lost when its copies are dropped.                                  *)
SelectedSurvives == apSaved /\ apKind # "llm" =>
  \A i \in Finalists \cap Scored : \E j \in Marked : Copy(i, j)
(* With no more keywords than places, each keyword the model named in a file *)
(* has a log among the file's candidates (log_detection_base_on_llm.py:183). *)
KeywordsHeard == apKind = "llm" => \A i \in Places :
  LET theirs == {j \in Places : apLogs[j].file = apLogs[i].file} IN
  apLogs[i].score > 0 /\ Cardinality(UNION {apLogs[j].words : j \in theirs}) <= PickCount =>
    \A kw \in apLogs[i].words : \E j \in Range(apPicks) : j \in theirs /\ kw \in apLogs[j].words
(* All three: picking and dropping copies lose no log that should be marked. *)
PickIsKept == BestAreMarked /\ SelectedSurvives /\ KeywordsHeard
(* base.py:41 keeps "the log with the highest anomaly score" of the copies:  *)
(* what the LLM worker selected is still marked afterwards.                  *)
SelectedSurvivesLlm == apSaved => \A i \in Finalists \cap Scored : \E j \in Marked : Copy(i, j)
=============================================================================
