----------------------------- MODULE AnalysisProofs -----------------------------
(***************************************************************************)
(* Proofs about eight parts of the log analysis: the text of an answer of  *)
(* the language model (LlmStream), the results that a worker stores and a  *)
(* client pages through (ResultStore), the stacks that scan_file finds     *)
(* (LogScan), the alerts of one cooldown (LogAlerts), the vectors that     *)
(* workers share (EmbeddingCache), the blocks of a file (LogParse), its    *)
(* templates and clusters (TemplateMerge), and the logs that are picked    *)
(* (AnomalyPick), for every number of logs, chunks, results, lines,        *)
(* processes, workers and texts, every size of a queue, a batch, a chunk   *)
(* and a cooldown, any limit of a client and any number of picked logs.    *)
(***************************************************************************)
EXTENDS LlmStream, ResultStore, LogScan, LogAlerts, EmbeddingCache, LogParse, TemplateMerge,
        AnomalyPick, RecursionLemmas, FiniteSetTheorems, TLAPS

-----------------------------------------------------------------------------
(* The text of an answer.                                                   *)

Upto(n) == [i \in 1..n |-> i]

\* The end mark of log l is in its queue.
EndIsQueued(l) == llTask[l] \in {"ended", "failed"} /\ llScore[l] = "none"

\* The chunks of log l in its queue, and those that its producer has put there.
Queued(l) == IF EndIsQueued(l) THEN Len(llQueue[l]) - 1 ELSE Len(llQueue[l])
Sent(l) == IF llTask[l] = "put" THEN llRead[l] - 1 ELSE llRead[l]

LlType ==
    /\ llTask \in [Logs -> {"create", "again", "dead", "read", "put", "whole", "broken", "ended", "failed"}]
    /\ llHave \in [Logs -> Int] /\ llRead \in [Logs -> Nat]
    /\ llQueue \in [Logs -> Seq(Int)] /\ llText \in [Logs -> Seq(Int)]
    /\ llScore \in [Logs -> {"none", "model", "zero"}]

\* What the caller has joined and what is queued are the chunks sent, in their order,
\* and the end mark is behind them.
ChunksInOrder(l) ==
    /\ llText[l] = Upto(Len(llText[l]))
    /\ \A i \in 1 .. Queued(l) : llQueue[l][i] = Len(llText[l]) + i
    /\ llTask[l] = "put" => llHave[l] = llRead[l]
    /\ Len(llText[l]) + Queued(l) = Sent(l)
    /\ EndIsQueued(l) => Len(llQueue[l]) >= 1 /\ llQueue[l][Len(llQueue[l])] = EndMark
    /\ llScore[l] # "none" => llQueue[l] = <<>> /\ llTask[l] \in {"ended", "failed"}

LlInv == LlType /\ \A l \in Logs : ChunksInOrder(l)

-----------------------------------------------------------------------------
(* The results.                                                             *)

StoreType ==
    /\ writing \in [first : Nat \ {0}, next : Nat \ {0}, attempt : {1, 2},
                    told : {"none", "stored", "failed"}]
    /\ paging \in [pc : {"off", "count", "page", "done"}, limit : Int, offset : Nat, total : Nat,
                   got : [ResultIds -> Nat]]
    /\ disturbed \in BOOLEAN

\* The rows that this attempt has passed are stored.
PassedAreStored == \E last \in 0 .. Results :
    /\ stored = 1 .. last /\ writing.first <= last + 1 /\ last <= BatchEnd
    /\ writing.told = "none" => writing.next <= last + 1
    /\ writing.told = "stored" => last = Results

\* A client that is not disturbed has got the results up to its offset, once.
GotUpToOffset == ~disturbed /\ paging.pc # "off" =>
    /\ \A r \in stored : paging.got[r] = IF Place(r) <= paging.offset THEN 1 ELSE 0
    /\ paging.pc = "page" => paging.total = Cardinality(stored)
    /\ paging.pc = "done" => Cardinality(stored) <= paging.offset

StoreInv == StoreType /\ PassedAreStored /\ GotUpToOffset

-----------------------------------------------------------------------------
(* Proofs about the text.                                                   *)

LEMMA UptoSeq ==
    ASSUME NEW n \in Nat
    PROVE  Upto(n) \in Seq(Int) /\ Len(Upto(n)) = n /\ Append(Upto(n), n + 1) = Upto(n + 1)
BY DEF Upto

LEMMA LlInvInit == LlInit => LlInv
<1> SUFFICES ASSUME LlInit PROVE LlInv OBVIOUS
<1>1. LlType BY DEF LlInit, LlType
<1>2. <<>> = Upto(0) BY DEF Upto
<1>3. ASSUME NEW l \in Logs PROVE ChunksInOrder(l)
      BY <1>2 DEF LlInit, ChunksInOrder, Queued, Sent, EndIsQueued
<1> QED BY <1>1, <1>3 DEF LlInv

\* A step of log l.
LlStep(l) == \/ Create(l) \/ CreateAgain(l) \/ ReadChunk(l) \/ ReadEnd(l) \/ Put(l) \/ PutEnd(l)
             \/ Take(l) \/ \E score \in {"model", "zero"} : Judged(l, score)

LEMMA LlTypeStep == ASSUME LlType, NEW l \in Logs, LlStep(l) PROVE LlType'
<1> USE DEF LlType, Producer
<1>1. CASE Create(l) BY <1>1 DEF Create
<1>2. CASE CreateAgain(l) BY <1>2 DEF CreateAgain
<1>3. CASE ReadChunk(l) BY <1>3 DEF ReadChunk
<1>4. CASE ReadEnd(l) BY <1>4 DEF ReadEnd
<1>5. CASE Put(l) BY <1>5 DEF Put
<1>6. CASE PutEnd(l)
      <2>1. Append(llQueue[l], EndMark) \in Seq(Int) BY DEF EndMark
      <2> QED BY <1>6, <2>1 DEF PutEnd
<1>7. CASE Take(l) BY <1>7 DEF Take
<1>8. ASSUME NEW score \in {"model", "zero"}, Judged(l, score) PROVE LlType'
      BY <1>8 DEF Judged
<1> QED BY <1>1, <1>2, <1>3, <1>4, <1>5, <1>6, <1>7, <1>8 DEF LlStep

LEMMA LlOthersStay ==
    ASSUME LlType, NEW l \in Logs, LlStep(l), NEW m \in Logs \ {l}, ChunksInOrder(m)
    PROVE  ChunksInOrder(m)'
<1>1. /\ llTask'[m] = llTask[m] /\ llHave'[m] = llHave[m] /\ llRead'[m] = llRead[m]
      /\ llQueue'[m] = llQueue[m] /\ llText'[m] = llText[m] /\ llScore'[m] = llScore[m]
      BY DEF LlType, LlStep, Create, CreateAgain, ReadChunk, ReadEnd, Put, PutEnd, Take, Judged,
             Producer
<1> QED BY <1>1 DEF ChunksInOrder, Queued, Sent, EndIsQueued

LEMMA AppendSeq ==
    ASSUME NEW q \in Seq(Int), NEW x \in Int
    PROVE  /\ Len(q) \in Nat /\ Len(Append(q, x)) = Len(q) + 1
           /\ \A i \in 1 .. Len(q) : Append(q, x)[i] = q[i]
           /\ Append(q, x)[Len(q) + 1] = x
OBVIOUS

LEMMA TailSeq ==
    ASSUME NEW q \in Seq(Int), q # <<>>
    PROVE  /\ Len(q) \in Nat \ {0} /\ Head(q) = q[1] /\ Len(Tail(q)) = Len(q) - 1
           /\ \A i \in 1 .. Len(q) - 1 : Tail(q)[i] = q[i + 1]
           /\ Len(q) = 1 => Tail(q) = <<>>
<1>1. Len(q) \in Nat \ {0} OBVIOUS
<1>2. Tail(q) \in Seq(Int) /\ Len(Tail(q)) = Len(q) - 1 BY <1>1
<1>3. \A i \in 1 .. Len(q) - 1 : Tail(q)[i] = q[i + 1] BY <1>1
<1>4. \A s \in Seq(Int) : Len(s) = 0 => s = <<>> OBVIOUS
<1>5. ASSUME Len(q) = 1 PROVE Tail(q) = <<>>
      <2>1. Len(Tail(q)) = 0 BY <1>2, <1>5
      <2> QED BY ONLY <1>2, <1>4, <2>1
<1> QED BY <1>1, <1>2, <1>3, <1>5

\* A step of the producer that leaves its queue alone.
LEMMA QueueUnchanged ==
    ASSUME LlType, NEW l \in Logs, ChunksInOrder(l), llQueue'[l] = llQueue[l],
           llText'[l] = llText[l], llScore'[l] = llScore[l],
           llTask[l] \notin {"ended", "failed"}, llTask'[l] \notin {"ended", "failed"},
           Sent(l)' = Sent(l), llTask'[l] = "put" => llHave'[l] = llRead'[l]
    PROVE  ChunksInOrder(l)'
<1>1. Queued(l)' = Queued(l) /\ ~EndIsQueued(l)' BY DEF Queued, EndIsQueued
<1>2. llText'[l] = Upto(Len(llText'[l])) BY DEF ChunksInOrder
<1>3. \A i \in 1 .. Queued(l)' : llQueue'[l][i] = Len(llText'[l]) + i BY <1>1 DEF ChunksInOrder
<1>4. Len(llText'[l]) + Queued(l)' = Sent(l)' BY <1>1 DEF ChunksInOrder
<1>5. llScore'[l] = "none" BY DEF ChunksInOrder
<1> QED BY <1>1, <1>2, <1>3, <1>4, <1>5 DEF ChunksInOrder

LEMMA ChunksInOrderStep ==
    ASSUME LlType, NEW l \in Logs, ChunksInOrder(l), LlStep(l)
    PROVE  ChunksInOrder(l)'
<1> DEFINE t == Len(llText[l])
           k == Len(llQueue[l])
<1>0. /\ llText[l] \in Seq(Int) /\ llQueue[l] \in Seq(Int) /\ DOMAIN llTask = Logs
      /\ DOMAIN llScore = Logs /\ llHave \in [Logs -> Int] /\ llRead \in [Logs -> Nat]
      /\ llQueue \in [Logs -> Seq(Int)] /\ llText \in [Logs -> Seq(Int)]
      BY DEF LlType
<1>a. t \in Nat /\ k \in Nat /\ llRead[l] \in Nat BY <1>0
<1>b. Queued(l) = IF EndIsQueued(l) THEN k - 1 ELSE k BY DEF Queued
<1>1. CASE Create(l)
      <2>1. llTask'[l] \in {"read", "again"} /\ llTask[l] = "create"
            BY <1>0, <1>1 DEF Create, Producer
      <2> QED BY <1>0, <1>1, <2>1, QueueUnchanged DEF Create, Sent
<1>2. CASE CreateAgain(l)
      <2>1. llTask'[l] \in {"read", "dead"} /\ llTask[l] = "again"
            BY <1>0, <1>2 DEF CreateAgain, Producer
      <2> QED BY <1>0, <1>2, <2>1, QueueUnchanged DEF CreateAgain, Sent
<1>3. CASE ReadChunk(l)
      <2>1. /\ llTask'[l] = "put" /\ llTask[l] = "read"
            /\ llRead'[l] = llRead[l] + 1 /\ llHave'[l] = llRead[l] + 1
            BY <1>0, <1>3 DEF ReadChunk, Producer
      <2>2. Sent(l)' = Sent(l) BY <1>a, <2>1 DEF Sent
      <2> QED BY <1>0, <1>3, <2>1, <2>2, QueueUnchanged DEF ReadChunk
<1>4. CASE ReadEnd(l)
      <2>1. llTask'[l] \in {"whole", "broken"} /\ llTask[l] = "read"
            BY <1>0, <1>4 DEF ReadEnd, Producer
      <2> QED BY <1>0, <1>4, <2>1, QueueUnchanged DEF ReadEnd, Sent
<1>5. CASE Put(l)
      <2>1. /\ llTask[l] = "put" /\ llTask'[l] = "read" /\ llScore[l] = "none"
            /\ UNCHANGED <<llRead, llText, llScore>> /\ llHave[l] = llRead[l]
            BY <1>0, <1>5 DEF Put, Producer, ChunksInOrder
      <2>2. llQueue'[l] = Append(llQueue[l], llRead[l]) BY <1>0, <1>5, <2>1 DEF Put
      <2>3. /\ Len(llQueue'[l]) = k + 1
            /\ \A i \in 1 .. k : llQueue'[l][i] = llQueue[l][i]
            /\ llQueue'[l][k + 1] = llRead[l]
            BY <1>0, <2>2, AppendSeq
      <2>4. ~EndIsQueued(l) /\ ~EndIsQueued(l)' BY <2>1 DEF EndIsQueued
      <2>5. Queued(l) = k /\ Queued(l)' = k + 1 BY <2>3, <2>4 DEF Queued
      <2>6. Sent(l) = llRead[l] - 1 /\ Sent(l)' = llRead[l] BY <2>1 DEF Sent
      <2>7. t + k = llRead[l] - 1 /\ \A i \in 1 .. k : llQueue[l][i] = t + i
            BY <2>5, <2>6 DEF ChunksInOrder
      <2> HIDE DEF t, k
      <2>8. ASSUME NEW i \in 1 .. k + 1 PROVE llQueue'[l][i] = t + i
            <3>1. i = k + 1 \/ i \in 1 .. k BY ONLY <1>a, <2>8
            <3>2. CASE i \in 1 .. k BY ONLY <2>3, <2>7, <3>2
            <3>3. llRead[l] = t + (k + 1) BY ONLY <1>a, <2>7
            <3>4. CASE i = k + 1 BY ONLY <2>3, <3>3, <3>4
            <3> QED BY ONLY <3>1, <3>2, <3>4
      <2>9. t + (k + 1) = llRead[l] BY ONLY <1>a, <2>7
      <2> USE DEF t
      <2>10. Len(llText'[l]) = t /\ llText'[l] = Upto(t) BY <2>1 DEF ChunksInOrder
      <2>11. Len(llText'[l]) + Queued(l)' = Sent(l)' BY <2>5, <2>6, <2>9, <2>10
      <2>12. \A i \in 1 .. Queued(l)' : llQueue'[l][i] = Len(llText'[l]) + i
             BY <2>5, <2>8, <2>10
      <2> QED BY <2>1, <2>4, <2>10, <2>11, <2>12 DEF ChunksInOrder
<1>6. CASE PutEnd(l)
      <2>1. /\ llTask[l] \in {"whole", "broken"} /\ llTask'[l] \in {"ended", "failed"}
            /\ llScore[l] = "none" /\ UNCHANGED <<llRead, llText, llScore>>
            BY <1>0, <1>6 DEF PutEnd, Producer, ChunksInOrder
      <2>2. llQueue'[l] = Append(llQueue[l], EndMark) BY <1>0, <1>6 DEF PutEnd
      <2>3. /\ Len(llQueue'[l]) = k + 1
            /\ \A i \in 1 .. k : llQueue'[l][i] = llQueue[l][i]
            /\ llQueue'[l][k + 1] = EndMark
            BY <1>0, <2>2, AppendSeq DEF EndMark
      <2>4. ~EndIsQueued(l) /\ EndIsQueued(l)' /\ Sent(l)' = Sent(l)
            BY <2>1 DEF EndIsQueued, Sent
      <2>5. Queued(l) = k /\ Queued(l)' = k BY <1>a, <2>3, <2>4 DEF Queued
      <2>6. Len(llText'[l]) = t /\ llText'[l] = Upto(t) BY <2>1 DEF ChunksInOrder
      <2>7. t + k = Sent(l)' /\ \A i \in 1 .. k : llQueue[l][i] = t + i
            BY <2>4, <2>5 DEF ChunksInOrder
      <2>8. \A i \in 1 .. Queued(l)' : llQueue'[l][i] = Len(llText'[l]) + i
            BY <2>3, <2>5, <2>6, <2>7
      <2>9. Len(llText'[l]) + Queued(l)' = Sent(l)' BY <2>5, <2>6, <2>7
      <2>10. Len(llQueue'[l]) >= 1 /\ llQueue'[l][Len(llQueue'[l])] = EndMark BY <1>a, <2>3
      <2>11. llTask'[l] # "put" /\ llScore'[l] = "none" BY <2>1
      <2> QED BY <2>6, <2>8, <2>9, <2>10, <2>11 DEF ChunksInOrder
<1>7. CASE Take(l)
      <2>1. /\ llScore[l] = "none" /\ llQueue[l] # <<>> /\ Head(llQueue[l]) # EndMark
            /\ llText'[l] = Append(llText[l], Head(llQueue[l])) /\ llQueue'[l] = Tail(llQueue[l])
            /\ UNCHANGED <<llTask, llHave, llRead, llScore>>
            BY <1>0, <1>7 DEF Take
      <2>2. /\ k \in Nat \ {0} /\ Head(llQueue[l]) = llQueue[l][1] /\ Len(llQueue'[l]) = k - 1
            /\ \A i \in 1 .. k - 1 : llQueue'[l][i] = llQueue[l][i + 1]
            BY <1>0, <2>1, TailSeq
      <2> DEFINE j == Queued(l)
      <2>3. j \in Int /\ j <= k /\ j >= 1
            <3>1. ~(EndIsQueued(l) /\ k = 1) BY <2>1, <2>2 DEF ChunksInOrder
            <3> HIDE DEF k
            <3>2. CASE EndIsQueued(l) BY <1>b, <2>2, <3>1, <3>2
            <3>3. CASE ~EndIsQueued(l) BY <1>b, <2>2, <3>3
            <3> QED BY <3>2, <3>3
      <2>4. \A i \in 1 .. j : llQueue[l][i] = t + i BY DEF ChunksInOrder
      <2>5. (EndIsQueued(l)' <=> EndIsQueued(l)) /\ Sent(l)' = Sent(l)
            BY <2>1 DEF EndIsQueued, Sent
      <2>6. Queued(l)' = j - 1 BY <1>b, <2>2, <2>5 DEF Queued
      <2>7. t + j = Sent(l) /\ llText[l] = Upto(t) BY DEF ChunksInOrder
      <2>8. EndIsQueued(l) => llQueue[l][k] = EndMark /\ k - 1 >= 1 /\ k - 1 \in 1 .. k - 1
            BY <1>b, <2>2, <2>3 DEF ChunksInOrder
      <2> HIDE DEF t, k, j
      <2>9. Head(llQueue[l]) = t + 1 BY ONLY <1>a, <2>2, <2>3, <2>4
      <2>10. llText'[l] = Upto(t + 1) /\ Len(llText'[l]) = t + 1
             <3>1. llText'[l] = Append(Upto(t), t + 1) BY <2>1, <2>7, <2>9
             <3>2. llText'[l] = Upto(t + 1) BY <1>a, <3>1, UptoSeq
             <3>3. t + 1 \in Nat BY <1>a
             <3> QED BY <3>2, <3>3, UptoSeq
      <2>11. \A i \in 1 .. j - 1 : llQueue'[l][i] = (t + 1) + i
             <3>1. ASSUME NEW i \in 1 .. j - 1 PROVE llQueue'[l][i] = (t + 1) + i
                   <4>1. i \in 1 .. k - 1 /\ i + 1 \in 1 .. j BY ONLY <2>2, <2>3, <3>1
                   <4>2. llQueue'[l][i] = t + (i + 1) BY ONLY <2>2, <2>4, <4>1
                   <4>3. t + (i + 1) = (t + 1) + i BY ONLY <1>a, <2>3, <3>1
                   <4> QED BY ONLY <4>2, <4>3
             <3> QED BY <3>1
      <2>12. (t + 1) + (j - 1) = Sent(l)
             <3>1. (t + 1) + (j - 1) = t + j BY <1>a, <2>3
             <3> QED BY <2>7, <3>1
      <2>13. EndIsQueued(l) => k - 1 >= 1 /\ llQueue'[l][k - 1] = EndMark
             <3>1. SUFFICES ASSUME EndIsQueued(l) PROVE k - 1 >= 1 /\ llQueue'[l][k - 1] = EndMark
                   OBVIOUS
             <3>2. llQueue'[l][k - 1] = llQueue[l][(k - 1) + 1] BY <2>2, <2>8, <3>1
             <3>3. (k - 1) + 1 = k BY <2>2
             <3> QED BY <2>8, <3>1, <3>2, <3>3
      <2>14. Len(llText'[l]) + Queued(l)' = Sent(l)' BY <2>5, <2>6, <2>10, <2>12
      <2>15. \A i \in 1 .. Queued(l)' : llQueue'[l][i] = Len(llText'[l]) + i
             BY <2>6, <2>10, <2>11
      <2>16. EndIsQueued(l)' => Len(llQueue'[l]) >= 1 /\ llQueue'[l][Len(llQueue'[l])] = EndMark
             BY <2>2, <2>5, <2>13
      <2>17. llScore'[l] = "none" /\ llTask'[l] = llTask[l] /\ llHave'[l] = llHave[l]
             /\ llRead'[l] = llRead[l] /\ llText'[l] = Upto(Len(llText'[l]))
             BY <2>1, <2>10
      <2> QED BY <2>14, <2>15, <2>16, <2>17 DEF ChunksInOrder
<1>8. ASSUME NEW score \in {"model", "zero"}, Judged(l, score) PROVE ChunksInOrder(l)'
      <2>1. /\ llScore[l] = "none" /\ llQueue[l] # <<>> /\ Head(llQueue[l]) = EndMark
            /\ llScore'[l] = score /\ llQueue'[l] = Tail(llQueue[l])
            /\ UNCHANGED <<llTask, llHave, llRead, llText>>
            BY <1>0, <1>8 DEF Judged
      <2>2. k \in Nat \ {0} /\ llQueue[l][1] = -1 /\ (k = 1 => llQueue'[l] = <<>>)
            BY <1>0, <2>1, TailSeq DEF EndMark
      <2>3. ~(Queued(l) >= 1)
            <3>1. Queued(l) \in Int BY <1>b, <2>2
            <3>2. SUFFICES ASSUME Queued(l) >= 1 PROVE FALSE OBVIOUS
            <3>3. llQueue[l][1] = t + 1 BY <3>1, <3>2 DEF ChunksInOrder
            <3> QED BY <1>a, <2>2, <3>3
      <2>4. EndIsQueued(l) BY <1>b, <2>2, <2>3
      <2>5. Queued(l) = k - 1 BY <1>b, <2>4
      <2> HIDE DEF k
      <2>6. k = 1 BY <2>2, <2>3, <2>5
      <2> USE DEF k
      <2>7. llQueue'[l] = <<>> /\ Len(llQueue'[l]) = 0 BY <2>2, <2>6
      <2>8. ~EndIsQueued(l)' /\ Sent(l)' = Sent(l) BY <2>1 DEF EndIsQueued, Sent
      <2>9. Queued(l)' = 0 /\ Queued(l) = 0 BY <2>5, <2>6, <2>7, <2>8 DEF Queued
      <2>10. llTask[l] \in {"ended", "failed"} BY <2>4 DEF EndIsQueued
      <2>11. Len(llText'[l]) + Queued(l)' = Sent(l)' BY <2>1, <2>8, <2>9 DEF ChunksInOrder
      <2>12. \A i \in 1 .. Queued(l)' : llQueue'[l][i] = Len(llText'[l]) + i BY <2>9
      <2>13. llText'[l] = Upto(Len(llText'[l])) BY <2>1 DEF ChunksInOrder
      <2> QED BY <2>1, <2>7, <2>8, <2>10, <2>11, <2>12, <2>13 DEF ChunksInOrder
<1> QED BY <1>1, <1>2, <1>3, <1>4, <1>5, <1>6, <1>7, <1>8 DEF LlStep

LEMMA LlInvStep == LlInv /\ [LlNext]_llVars => LlInv'
<1>1. ASSUME LlInv, NEW l \in Logs, LlStep(l) PROVE LlInv'
      BY <1>1, LlTypeStep, LlOthersStay, ChunksInOrderStep DEF LlInv
<1>2. ASSUME LlInv, UNCHANGED llVars PROVE LlInv'
      BY <1>2 DEF LlInv, llVars, LlType, ChunksInOrder, Queued, Sent, EndIsQueued
<1>3. LlNext => \E l \in Logs : LlStep(l) BY DEF LlNext, LlStep
<1> QED BY <1>1, <1>2, <1>3

LEMMA LlInvImpliesTextIsWhole == LlInv => TextIsWhole
<1> SUFFICES ASSUME LlInv, NEW l \in Logs, llScore[l] # "none"
             PROVE  llText[l] = [n \in 1..llRead[l] |-> n]
    BY DEF TextIsWhole
<1>1. ChunksInOrder(l) /\ Len(llText[l]) \in Nat BY DEF LlInv, LlType
<1>2. Len(llText[l]) = llRead[l]
      <2>1. llQueue[l] = <<>> /\ llTask[l] \in {"ended", "failed"} BY <1>1 DEF ChunksInOrder
      <2>2. Queued(l) = 0 /\ Sent(l) = llRead[l] BY <2>1 DEF Queued, Sent, EndIsQueued
      <2>3. Len(llText[l]) + Queued(l) = Sent(l) BY <1>1 DEF ChunksInOrder
      <2> QED BY <1>1, <2>2, <2>3
<1> QED BY <1>1, <1>2 DEF ChunksInOrder, Upto

\* A log is judged by every chunk that the model sent, in order (TextIsWhole, about
\* handle_single_log_model and data_producer), whatever the size of the queue.
THEOREM NoChunkIsLost == LlInit /\ [][LlNext]_llVars => []TextIsWhole
<1> QED BY LlInvInit, LlInvStep, LlInvImpliesTextIsWhole, PTL

-----------------------------------------------------------------------------
(* Proofs about the results.                                                *)

LEMMA StoredIsFinite ==
    ASSUME PassedAreStored
    PROVE  /\ IsFiniteSet(stored) /\ stored \subseteq ResultIds /\ Cardinality(stored) \in Nat
           /\ \A r \in stored : Place(r) \in 1 .. Cardinality(stored)
<1>1. IsFiniteSet(stored) /\ stored \subseteq ResultIds
      <2>1. PICK last \in 0 .. Results : stored = 1 .. last BY DEF PassedAreStored
      <2>2. IsFiniteSet(1 .. last) BY <2>1, FS_Interval, ResultStoreAssumption
      <2> QED BY <2>1, <2>2, ResultStoreAssumption DEF ResultIds
<1>2. Cardinality(stored) \in Nat BY <1>1, FS_CardinalityType
<1>3. ASSUME NEW r \in stored PROVE Place(r) \in 1 .. Cardinality(stored)
      <2> DEFINE P == {q \in stored : Rank[q] <= Rank[r]}
      <2>1. P \subseteq stored /\ r \in P
            BY <1>1, ResultStoreAssumption
      <2>2. IsFiniteSet(P) /\ Cardinality(P) <= Cardinality(stored) /\ Cardinality(P) \in Nat
            BY <1>1, <2>1, FS_Subset, FS_CardinalityType
      <2>3. Cardinality(P) # 0 BY <2>1, <2>2, FS_EmptySet
      <2> HIDE DEF P
      <2>4. Cardinality(P) \in 1 .. Cardinality(stored) BY <1>2, <2>2, <2>3
      <2> USE DEF P
      <2> QED BY <2>4 DEF Place
<1> QED BY <1>1, <1>2, <1>3

LEMMA StoreInvInit == StoreInit => StoreInv
<1> SUFFICES ASSUME StoreInit PROVE StoreInv OBVIOUS
<1> USE ResultStoreAssumption DEF StoreInit
<1>1. StoreType
      <2>1. /\ writing \in [first : Nat \ {0}, next : Nat \ {0}, attempt : {1, 2},
                           told : {"none", "stored", "failed"}]
            /\ [r \in ResultIds |-> 0] \in [ResultIds -> Nat]
            OBVIOUS
      <2>2. paging \in [pc : {"off", "count", "page", "done"}, limit : Int, offset : Nat, total : Nat,
                        got : [ResultIds -> Nat]]
            BY <2>1 DEF NoPaging
      <2> QED BY <2>1, <2>2 DEF StoreType
<1>2. BatchEnd \in Nat BY DEF BatchEnd
<1>3. PassedAreStored BY <1>2 DEF PassedAreStored
<1>4. GotUpToOffset BY DEF GotUpToOffset, NoPaging
<1> QED BY <1>1, <1>3, <1>4 DEF StoreInv

LEMMA BatchEndType ==
    ASSUME StoreType
    PROVE  /\ BatchEnd \in Int /\ BatchEnd <= Results
           /\ BatchEnd = Results \/ BatchEnd >= writing.first
BY ResultStoreAssumption DEF StoreType, BatchEnd

\* The client's offset grows by the limit that is in effect.
LEMMA TurnedType ==
    ASSUME StoreType, PassedAreStored, NEW page
    PROVE  /\ Effective(paging.limit) \in Nat
           /\ Turned(page) \in [pc : {"off", "count", "page", "done"}, limit : Int, offset : Nat,
                                total : Nat, got : [ResultIds -> Nat]]
           /\ Turned(page).offset = paging.offset + Effective(paging.limit)
           /\ Turned(page).pc = IF Turned(page).offset < paging.total THEN "count" ELSE "done"
           /\ \A r \in ResultIds :
                 Turned(page).got[r] = IF r \in page THEN paging.got[r] + 1 ELSE paging.got[r]
<1>1. Effective(paging.limit) \in Nat
      BY ResultStoreAssumption DEF StoreType, Effective
<1> DEFINE behind == paging.offset + Effective(paging.limit)
           got == [r \in ResultIds |-> IF r \in page THEN paging.got[r] + 1 ELSE paging.got[r]]
           pc == IF behind < paging.total THEN "count" ELSE "done"
<1>2. behind \in Nat BY <1>1 DEF StoreType
<1>3. got \in [ResultIds -> Nat] BY DEF StoreType
<1>4. pc \in {"count", "done"} OBVIOUS
<1>5. Turned(page) = [paging EXCEPT !.pc = pc, !.offset = behind, !.got = got] BY DEF Turned
<1>6. \A r \in ResultIds : got[r] = IF r \in page THEN paging.got[r] + 1 ELSE paging.got[r] OBVIOUS
<1> HIDE DEF pc, behind, got
<1>7. /\ Turned(page) \in [pc : {"off", "count", "page", "done"}, limit : Int, offset : Nat,
                           total : Nat, got : [ResultIds -> Nat]]
      /\ Turned(page).offset = behind /\ Turned(page).pc = pc /\ Turned(page).got = got
      BY <1>2, <1>3, <1>4, <1>5 DEF StoreType
<1> QED BY <1>1, <1>6, <1>7 DEF pc, behind

LEMMA StoreTypeStep ==
    ASSUME StoreType, PassedAreStored, StoreNext PROVE StoreType'
<1> USE ResultStoreAssumption
<1> DEFINE P == [pc : {"off", "count", "page", "done"}, limit : Int, offset : Nat, total : Nat,
                 got : [ResultIds -> Nat]]
           W == [first : Nat \ {0}, next : Nat \ {0}, attempt : {1, 2},
                 told : {"none", "stored", "failed"}]
<1>1. writing \in W /\ paging \in P /\ disturbed \in BOOLEAN BY DEF StoreType
<1>2. CASE InsertRow
      <2>1. writing' \in W BY <1>1, <1>2 DEF InsertRow
      <2> QED BY <1>1, <1>2, <2>1 DEF InsertRow, StoreType
<1>3. CASE NextBatch
      <2>1. BatchEnd # Results => BatchEnd + 1 \in Nat \ {0} BY <1>1, BatchEndType DEF StoreType
      <2>2. writing' \in W BY <1>1, <1>3, <2>1 DEF NextBatch
      <2> QED BY <1>1, <1>3, <2>2 DEF NextBatch, StoreType
<1>4. CASE WriteFails \/ KeyIsThere
      <2>1. writing' \in W BY <1>1, <1>4 DEF WriteFails, KeyIsThere, Retried, GivenUp
      <2>2. UNCHANGED <<paging, disturbed>> BY <1>4 DEF WriteFails, KeyIsThere
      <2> QED BY <1>1, <2>1, <2>2 DEF StoreType
<1>5. CASE AsksFirst
      <2>1. [r \in ResultIds |-> 0] \in [ResultIds -> Nat] OBVIOUS
      <2>2. paging' \in P
            <3>1. PICK limit \in Limits : paging' = [NoPaging EXCEPT !.pc = "count", !.limit = limit]
                  BY <1>5 DEF AsksFirst
            <3>2. NoPaging \in P BY <2>1 DEF NoPaging
            <3> QED BY <3>1, <3>2
      <2>3. disturbed' \in BOOLEAN BY <1>5 DEF AsksFirst
      <2>4. writing' = writing BY <1>5 DEF AsksFirst
      <2> QED BY <1>1, <2>2, <2>3, <2>4 DEF StoreType
<1>6. CASE CountRows
      <2>1. paging' \in P BY <1>1, <1>6, StoredIsFinite DEF CountRows
      <2> QED BY <1>1, <1>6, <2>1 DEF CountRows, StoreType
<1>7. CASE ReadPage BY <1>1, <1>7, TurnedType DEF ReadPage, StoreType
<1>8. CASE QueryFails
      <2>1. [paging EXCEPT !.pc = "page", !.total = 0] \in P BY <1>1
      <2>2. paging' \in P BY <1>8, <2>1, TurnedType DEF QueryFails
      <2>3. disturbed' \in BOOLEAN /\ writing' = writing BY <1>8 DEF QueryFails
      <2> QED BY <1>1, <2>2, <2>3 DEF StoreType
<1> QED BY <1>2, <1>3, <1>4, <1>5, <1>6, <1>7, <1>8 DEF StoreNext

LEMMA PassedAreStoredStep ==
    ASSUME StoreType, PassedAreStored, StoreNext PROVE PassedAreStored'
<1> USE ResultStoreAssumption
<1>0. PICK last \in 0 .. Results :
         /\ stored = 1 .. last /\ writing.first <= last + 1 /\ last <= BatchEnd
         /\ writing.told = "none" => writing.next <= last + 1
         /\ writing.told = "stored" => last = Results
      BY DEF PassedAreStored
<1>1. /\ BatchEnd \in Int /\ BatchEnd <= Results
      /\ writing.first \in Nat \ {0} /\ writing.next \in Nat \ {0}
      /\ writing \in [first : Nat \ {0}, next : Nat \ {0}, attempt : {1, 2},
                      told : {"none", "stored", "failed"}]
      BY BatchEndType DEF StoreType
<1>2. CASE InsertRow
      <2>1. /\ writing.told = "none" /\ writing.next <= BatchEnd /\ writing.next \notin stored
            /\ stored' = stored \cup {writing.next}
            /\ writing' = [writing EXCEPT !.next = writing.next + 1]
            BY <1>2 DEF InsertRow, Adding
      <2>2. writing.next = last + 1 BY <1>0, <1>1, <2>1
      <2>3. last + 1 \in 0 .. Results /\ stored' = 1 .. last + 1 BY <1>0, <1>1, <2>1, <2>2
      <2>4. /\ writing'.first = writing.first /\ writing'.next = last + 2 /\ writing'.told = "none"
            BY <1>1, <2>1, <2>2
      <2>5. BatchEnd' = BatchEnd BY <2>4 DEF BatchEnd
      <2>6. /\ writing'.first <= (last + 1) + 1 /\ last + 1 <= BatchEnd'
            /\ writing'.next <= (last + 1) + 1
            BY <1>0, <1>1, <2>1, <2>2, <2>4, <2>5
      <2> QED BY <2>3, <2>4, <2>6 DEF PassedAreStored
<1>3. CASE NextBatch
      <2>1. writing.told = "none" /\ writing.next > BatchEnd /\ stored' = stored
            BY <1>3 DEF NextBatch, Adding
      <2>2. last = BatchEnd BY <1>0, <1>1, <2>1
      <2>3. CASE BatchEnd = Results
            <3>1. writing' = [writing EXCEPT !.told = "stored"] BY <1>3, <2>3 DEF NextBatch
            <3>2. writing'.first = writing.first /\ writing'.told = "stored" BY <1>1, <3>1
            <3>3. BatchEnd' = BatchEnd BY <3>2 DEF BatchEnd
            <3> QED BY <1>0, <2>1, <2>2, <2>3, <3>2, <3>3 DEF PassedAreStored
      <2>4. CASE BatchEnd # Results
            <3>1. writing'.first = last + 1 /\ writing'.next = last + 1 /\ writing'.told = "none"
                  BY <1>3, <2>2, <2>4 DEF NextBatch
            <3>2. BatchEnd' = IF (last + 1) + BatchSize - 1 < Results
                              THEN (last + 1) + BatchSize - 1 ELSE Results
                  BY <3>1 DEF BatchEnd
            <3>3. last <= BatchEnd' BY <1>0, <3>2
            <3> QED BY <1>0, <2>1, <3>1, <3>3 DEF PassedAreStored
      <2> QED BY <2>3, <2>4
<1>4. CASE WriteFails \/ KeyIsThere
      <2>1. /\ writing.told = "none" /\ writing' = Retried /\ stored' = stored
            BY <1>4 DEF WriteFails, KeyIsThere, Adding
      <2>2. /\ writing'.first = writing.first /\ writing'.told \in {"none", "failed"}
            /\ writing'.next \in {writing.first, writing.next}
            BY <1>1, <2>1 DEF Retried, GivenUp
      <2>3. BatchEnd' = BatchEnd BY <2>2 DEF BatchEnd
      <2> QED BY <1>0, <2>1, <2>2, <2>3 DEF PassedAreStored
<1>5. CASE AsksFirst \/ CountRows \/ ReadPage \/ QueryFails
      <2>1. UNCHANGED <<stored, writing>> BY <1>5 DEF AsksFirst, CountRows, ReadPage, QueryFails
      <2>2. BatchEnd' = BatchEnd BY <2>1 DEF BatchEnd
      <2> QED BY <1>0, <2>1, <2>2 DEF PassedAreStored
<1> QED BY <1>2, <1>3, <1>4, <1>5 DEF StoreNext

LEMMA GotUpToOffsetStep ==
    ASSUME StoreInv, StoreNext PROVE GotUpToOffset'
<1> USE DEF StoreInv
<1>0. /\ IsFiniteSet(stored) /\ stored \subseteq ResultIds /\ Cardinality(stored) \in Nat
      /\ \A r \in stored : Place(r) \in 1 .. Cardinality(stored)
      BY StoredIsFinite
<1>1. CASE InsertRow \/ QueryFails
      <2>1. disturbed' BY <1>1 DEF InsertRow, QueryFails
      <2> QED BY <2>1 DEF GotUpToOffset
<1>2. CASE NextBatch \/ WriteFails \/ KeyIsThere
      <2>1. UNCHANGED <<stored, paging, disturbed>> BY <1>2 DEF NextBatch, WriteFails, KeyIsThere
      <2> QED BY <2>1 DEF GotUpToOffset, Place
<1>3. CASE AsksFirst
      <2>1. /\ stored' = stored /\ paging'.pc = "count" /\ paging'.offset = 0
            /\ \A r \in ResultIds : paging'.got[r] = 0
            BY <1>3 DEF AsksFirst, NoPaging
      <2>2. \A r \in stored : Place(r)' = Place(r) /\ ~(Place(r) <= 0) BY <1>0, <2>1 DEF Place
      <2> QED BY <1>0, <2>1, <2>2 DEF GotUpToOffset
<1>4. CASE CountRows
      <2>1. /\ paging.pc = "count" /\ paging'.pc = "page" /\ paging'.total = Cardinality(stored)
            /\ paging'.offset = paging.offset /\ paging'.got = paging.got
            /\ UNCHANGED <<stored, disturbed>>
            BY <1>4 DEF CountRows, StoreType
      <2>2. \A r \in stored : Place(r)' = Place(r) BY <2>1 DEF Place
      <2> QED BY <2>1, <2>2 DEF GotUpToOffset
<1>5. CASE ReadPage
      <2>1. /\ paging.pc = "page" /\ paging' = Turned(PageRows) /\ UNCHANGED <<stored, disturbed>>
            BY <1>5 DEF ReadPage
      <2>2. SUFFICES ASSUME ~disturbed
                     PROVE  /\ \A r \in stored :
                                  paging'.got[r] = IF Place(r) <= paging'.offset THEN 1 ELSE 0
                            /\ paging'.pc = "done" => Cardinality(stored) <= paging'.offset
                            /\ paging'.pc # "page"
            <3>1. \A r \in stored : Place(r)' = Place(r) BY <2>1 DEF Place
            <3> QED BY <2>1, <3>1 DEF GotUpToOffset
      <2> DEFINE n == Cardinality(stored)
                 e == Effective(paging.limit)
                 o == paging.offset
                 from == IF o < paging.total THEN o ELSE paging.total
      <2>3. /\ paging.total = n
            /\ \A r \in stored : paging.got[r] = IF Place(r) <= o THEN 1 ELSE 0
            BY <2>1, <2>2 DEF GotUpToOffset
      <2>4. e \in Nat /\ o \in Nat /\ n \in Nat BY <1>0, TurnedType DEF StoreType
      <2>5. /\ paging'.offset = o + e
            /\ paging'.pc = IF o + e < n THEN "count" ELSE "done"
            /\ \A r \in stored : paging'.got[r] = IF r \in PageRows THEN paging.got[r] + 1
                                                  ELSE paging.got[r]
            BY <1>0, <2>1, <2>3, TurnedType
      <2>6. PageRows = {r \in stored : from < Place(r) /\ Place(r) <= from + e} BY DEF PageRows
      <2>7. ASSUME NEW r \in stored
            PROVE  paging'.got[r] = IF Place(r) <= o + e THEN 1 ELSE 0
            <3> DEFINE p == Place(r)
            <3>1. p \in 1 .. n /\ paging.got[r] = (IF p <= o THEN 1 ELSE 0)
                  /\ paging'.got[r] = IF from < p /\ p <= from + e THEN paging.got[r] + 1
                                      ELSE paging.got[r]
                  BY <1>0, <2>3, <2>5, <2>6
            <3>2. from = IF o < n THEN o ELSE n BY <2>3
            <3> HIDE DEF p, n, e, o, from
            <3>3. paging'.got[r] = IF p <= o + e THEN 1 ELSE 0 BY ONLY <2>4, <3>1, <3>2
            <3> QED BY <3>3 DEF p, e, o
      <2>8. paging'.pc = "done" => n <= o + e
            <3> HIDE DEF n, e, o
            <3> QED BY ONLY <2>4, <2>5
      <2>9. paging'.pc # "page" BY <2>5
      <2> QED BY <2>5, <2>7, <2>8, <2>9
<1> QED BY <1>1, <1>2, <1>3, <1>4, <1>5 DEF StoreNext

LEMMA StoreInvStep == StoreInv /\ [StoreNext]_storeVars => StoreInv'
<1>1. ASSUME StoreInv, StoreNext PROVE StoreInv'
      BY <1>1, StoreTypeStep, PassedAreStoredStep, GotUpToOffsetStep DEF StoreInv
<1>2. ASSUME StoreInv, UNCHANGED storeVars PROVE StoreInv'
      BY <1>2 DEF StoreInv, storeVars, StoreType, PassedAreStored, GotUpToOffset, BatchEnd, Place
<1> QED BY <1>1, <1>2

LEMMA StoreInvImpliesKept == StoreInv => ResultsAreKept
<1> SUFFICES ASSUME StoreInv PROVE ResultsAreKept OBVIOUS
<1> USE ResultStoreAssumption DEF StoreInv
<1>1. StoredAsTold
      <2>1. PICK last \in 0 .. Results :
               /\ stored = 1 .. last /\ writing.first <= last + 1 /\ last <= BatchEnd
               /\ writing.told = "stored" => last = Results
            BY DEF PassedAreStored
      <2>2. last >= writing.first - 1 BY <2>1 DEF StoreType
      <2> QED BY <2>1, <2>2 DEF StoredAsTold, ResultIds
<1>2. PagesAreWhole
      <2>1. SUFFICES ASSUME paging.pc = "done", ~disturbed, NEW r \in stored PROVE paging.got[r] = 1
            BY DEF PagesAreWhole
      <2>2. Place(r) \in 1 .. Cardinality(stored) /\ Cardinality(stored) \in Nat
            /\ Cardinality(stored) <= paging.offset /\ paging.offset \in Nat
            BY <2>1, StoredIsFinite DEF GotUpToOffset, StoreType
      <2>3. Place(r) <= paging.offset BY <2>2
      <2> QED BY <2>1, <2>3 DEF GotUpToOffset
<1> QED BY <1>1, <1>2 DEF ResultsAreKept

\* What add_log_parse_results returns is true, and a client that turns its pages
\* undisturbed gets every result once (ResultsAreKept, about sqlite.py and
\* get_task_result), for every number of results, every batch and every limit.
THEOREM ResultsStayKept == StoreInit /\ [][StoreNext]_storeVars => []ResultsAreKept
<1> QED BY StoreInvInit, StoreInvStep, StoreInvImpliesKept, PTL
-----------------------------------------------------------------------------
(* LogScan: a stack that was begun is reported *)

Event == [key : ScanKeys, line : Nat]
Pass  == [at : Nat, buffer : Seq(ScanKeys), start : Nat, seen : SUBSET ScanKeys,
          critical : Seq(Event), warnings : Seq(Event), count : [ScanKeys -> Nat],
          patterns : SUBSET ScanKeys, done : BOOLEAN]

\* The keys of the events of a pass, and the key of a stack under way.
KeysIn(s)  == {e.key : e \in Range(s.critical) \cup Range(s.warnings)}
Pending(s) == IF s.buffer = <<>> THEN {} ELSE {s.buffer[1]}

\* A key is taken for seen only when an event has it, so that a key is never
\* left out for good; and a stack that was begun is an event or under way.
ScanInv ==
    /\ scan \in Pass
    /\ scan.seen \subseteq KeysIn(scan)
    /\ opened \subseteq KeysIn(scan) \cup Pending(scan)
    /\ scan.done => scan.buffer = <<>>

ScanSpec == LsInit /\ [][LsNext]_lsVars

LEMMA RangeOfAppend ==
    ASSUME NEW S, NEW s \in Seq(S), NEW e \in S
    PROVE  Append(s, e) \in Seq(S) /\ Range(Append(s, e)) = Range(s) \cup {e}
<1>1. /\ Append(s, e) \in Seq(S) /\ DOMAIN s = 1 .. Len(s) /\ Len(s) \in Nat
      /\ DOMAIN Append(s, e) = 1 .. Len(s) + 1
      /\ Append(s, e)[Len(s) + 1] = e
      /\ \A i \in 1 .. Len(s) : Append(s, e)[i] = s[i]
  OBVIOUS
<1> QED
  BY <1>1 DEF Range

\* Only the stack under way changes when it is cleared.
LEMMA BufferCleared ==
    ASSUME NEW s \in Pass
    PROVE  LET t == [s EXCEPT !.buffer = <<>>] IN
           /\ t \in Pass /\ t.buffer = <<>> /\ t.seen = s.seen /\ t.done = s.done /\ t.at = s.at
           /\ t.critical = s.critical /\ t.warnings = s.warnings
<1>1. <<>> \in Seq(ScanKeys)
  OBVIOUS
<1> QED
  BY <1>1 DEF Pass

\* A trigger keeps what is known, and its key is that of an event then.
LEMMA TriggeredTells ==
    ASSUME NEW s \in Pass, s.seen \subseteq KeysIn(s), NEW k \in ScanKeys, NEW line \in Nat,
           NEW level \in {"critical", "warnings"}
    PROVE  LET t == Triggered(s, level, k, line) IN
           /\ t \in Pass /\ t.seen \subseteq KeysIn(t)
           /\ KeysIn(s) \cup {k} \subseteq KeysIn(t)
           /\ t.buffer = s.buffer /\ t.done = s.done /\ t.at = s.at
<1> DEFINE t == Triggered(s, level, k, line)
           e == [key |-> k, line |-> line]
<1>0. e \in Event
  BY DEF Event
<1>1. /\ s.critical \in Seq(Event) /\ s.warnings \in Seq(Event) /\ s.count \in [ScanKeys -> Nat]
      /\ s.seen \in SUBSET ScanKeys
  BY DEF Pass
<1>2. /\ [s.count EXCEPT ![k] = @ + 1] \in [ScanKeys -> Nat]
      /\ s.seen \cup {k} \in SUBSET ScanKeys
      /\ Append(s.critical, e) \in Seq(Event) /\ Append(s.warnings, e) \in Seq(Event)
  BY <1>0, <1>1
<1>3. /\ Range(Append(s.critical, e)) = Range(s.critical) \cup {e}
      /\ Range(Append(s.warnings, e)) = Range(s.warnings) \cup {e}
  BY <1>0, <1>1, RangeOfAppend
<1> HIDE DEF e
<1>4. /\ t \in Pass /\ t.buffer = s.buffer /\ t.done = s.done /\ t.at = s.at
      /\ t.seen = s.seen \cup {k}
      /\ t.critical = IF level = "critical" /\ k \notin s.seen THEN Append(s.critical, e) ELSE s.critical
      /\ t.warnings = IF level = "warnings" /\ k \notin s.seen THEN Append(s.warnings, e) ELSE s.warnings
  BY <1>1, <1>2 DEF Triggered, Pass, e
<1>5. KeysIn(s) \cup {k} \subseteq KeysIn(t)
  <2>1. CASE k \in s.seen
    BY <1>4, <2>1 DEF KeysIn
  <2>2. CASE k \notin s.seen
    <3>1. Range(t.critical) \cup Range(t.warnings) = Range(s.critical) \cup Range(s.warnings) \cup {e}
      BY <1>3, <1>4, <2>2
    <3>2. e.key = k
      BY DEF e
    <3> QED
      BY <3>1, <3>2 DEF KeysIn
  <2> QED
    BY <2>1, <2>2
<1> QED
  BY <1>4, <1>5

\* _flush_stack turns the stack under way into an event.
LEMMA FlushedTells ==
    ASSUME NEW s \in Pass, s.seen \subseteq KeysIn(s)
    PROVE  LET t == Flushed(s) IN
           /\ t \in Pass /\ t.seen \subseteq KeysIn(t) /\ t.buffer = <<>>
           /\ KeysIn(s) \cup Pending(s) \subseteq KeysIn(t)
           /\ t.done = s.done /\ t.at = s.at
<1>1. CASE s.buffer = <<>>
  BY <1>1 DEF Flushed, Pending
<1>2. CASE s.buffer # <<>>
  <2> DEFINE k == s.buffer[1]
             u == Triggered(s, "critical", k, s.start)
             t == [u EXCEPT !.buffer = <<>>]
  <2>1. k \in ScanKeys /\ s.start \in Nat
    BY <1>2 DEF Pass
  <2>2. /\ u \in Pass /\ u.seen \subseteq KeysIn(u) /\ KeysIn(s) \cup {k} \subseteq KeysIn(u)
        /\ u.done = s.done /\ u.at = s.at
    BY <2>1, TriggeredTells
  <2>3. Flushed(s) = t /\ Pending(s) = {k}
    BY <1>2 DEF Flushed, Pending
  <2> HIDE DEF u
  <2>4. /\ t \in Pass /\ t.buffer = <<>> /\ t.seen = u.seen /\ t.done = u.done /\ t.at = u.at
        /\ t.critical = u.critical /\ t.warnings = u.warnings
    BY <2>2, BufferCleared
  <2>5. KeysIn(t) = KeysIn(u)
    BY <2>4 DEF KeysIn
  <2> HIDE DEF t
  <2> QED
    BY <2>2, <2>3, <2>4, <2>5
<1> QED
  BY <1>1, <1>2

\* What the next line changes besides: the line number.
LEMMA MovedTells ==
    ASSUME NEW s \in Pass
    PROVE  /\ Moved(s) \in Pass /\ Moved(s).seen = s.seen /\ KeysIn(Moved(s)) = KeysIn(s)
           /\ Moved(s).buffer = s.buffer /\ Moved(s).done = s.done
<1> DEFINE t == Moved(s)
<1>1. s.at + 1 \in Nat
  BY DEF Pass
<1>2. /\ t \in Pass /\ t.seen = s.seen /\ t.critical = s.critical /\ t.warnings = s.warnings
      /\ t.buffer = s.buffer /\ t.done = s.done
  BY <1>1 DEF Moved, Pass
<1> HIDE DEF t
<1>3. KeysIn(t) = KeysIn(s)
  BY <1>2 DEF KeysIn
<1> QED
  BY <1>2, <1>3 DEF t

LEMMA ScanStep ==
    ASSUME ScanInv, [LsNext]_lsVars
    PROVE  ScanInv'
<1>0. /\ scan \in Pass /\ scan.seen \subseteq KeysIn(scan)
      /\ opened \subseteq KeysIn(scan) \cup Pending(scan)
      /\ scan.done => scan.buffer = <<>>
  BY DEF ScanInv
<1>f. /\ Flushed(scan) \in Pass /\ Flushed(scan).seen \subseteq KeysIn(Flushed(scan))
      /\ Flushed(scan).buffer = <<>> /\ opened \subseteq KeysIn(Flushed(scan))
      /\ Flushed(scan).done = scan.done /\ Flushed(scan).at = scan.at
  BY <1>0, FlushedTells
<1>1. ASSUME NEW kind \in LineKinds, SkipLine(kind) PROVE ScanInv'
  <2>1. scan' = Moved(Flushed(scan)) /\ opened' = opened
    BY <1>1 DEF SkipLine
  <2> QED
    BY <1>f, <2>1, MovedTells DEF ScanInv
<1>2. ASSUME NEW kind \in LineKinds, NEW k \in ScanKeys, JoinStack(kind, k) PROVE ScanInv'
  <2> DEFINE t == Moved(scan)
  <2>1. /\ scan' = [t EXCEPT !.buffer = Append(@, k)] /\ ~scan.done
        /\ opened' = IF scan.buffer = <<>> THEN opened \cup {k} ELSE opened
    BY <1>2 DEF JoinStack, Reads
  <2>2. /\ t \in Pass /\ t.seen = scan.seen /\ KeysIn(t) = KeysIn(scan)
        /\ t.buffer = scan.buffer /\ t.done = scan.done /\ scan.buffer \in Seq(ScanKeys)
    BY <1>0, MovedTells DEF Pass
  <2> HIDE DEF t
  <2>3. Append(scan.buffer, k) \in Seq(ScanKeys) /\ Append(scan.buffer, k) # <<>>
    BY <2>2
  <2>4. /\ scan' \in Pass /\ scan'.seen = scan.seen /\ scan'.buffer = Append(scan.buffer, k)
        /\ scan'.done = scan.done /\ scan'.critical = t.critical /\ scan'.warnings = t.warnings
    BY <2>1, <2>2, <2>3 DEF Pass
  <2>5. KeysIn(scan') = KeysIn(scan)
    BY <2>2, <2>4 DEF KeysIn
  <2>6. Pending(scan') = IF scan.buffer = <<>> THEN {k} ELSE Pending(scan)
    <3>1. Append(scan.buffer, k)[1] = IF scan.buffer = <<>> THEN k ELSE scan.buffer[1]
      BY <2>2
    <3> QED
      BY <2>3, <2>4, <3>1 DEF Pending
  <2>7. opened' \subseteq KeysIn(scan') \cup Pending(scan')
    BY <1>0, <2>1, <2>5, <2>6 DEF Pending
  <2> QED
    BY <1>0, <2>1, <2>4, <2>5, <2>7 DEF ScanInv
<1>3. ASSUME NEW kind \in LineKinds, NEW k \in ScanKeys, OpenStack(kind, k) PROVE ScanInv'
  <2> DEFINE t == Moved(scan)
  <2>1. /\ scan' = [t EXCEPT !.buffer = <<k>>, !.start = scan.at + 1] /\ ~scan.done
        /\ opened' = opened \cup {k} /\ scan.buffer = <<>>
    BY <1>3 DEF OpenStack, Reads, Opens
  <2>2. /\ t \in Pass /\ t.seen = scan.seen /\ KeysIn(t) = KeysIn(scan)
        /\ t.done = scan.done /\ scan.at \in Nat
    BY <1>0, MovedTells DEF Pass
  <2> HIDE DEF t
  <2>4. /\ scan' \in Pass /\ scan'.seen = scan.seen /\ scan'.buffer = <<k>>
        /\ scan'.done = scan.done /\ scan'.critical = t.critical /\ scan'.warnings = t.warnings
    <3>1. <<k>> \in Seq(ScanKeys) /\ scan.at + 1 \in Nat
      BY <2>2
    <3> QED
      BY <2>1, <2>2, <3>1 DEF Pass
  <2>5. KeysIn(scan') = KeysIn(scan)
    BY <2>2, <2>4 DEF KeysIn
  <2> QED
    BY <1>0, <2>1, <2>4, <2>5 DEF ScanInv, Pending
<1>4. ASSUME NEW kind \in LineKinds, NEW k \in ScanKeys, PlainLine(kind, k) PROVE ScanInv'
  <2> DEFINE f == Flushed(scan)
             h == Triggered(f, "critical", k, scan.at + 1)
  <2>0. scan.at + 1 \in Nat
    BY <1>0 DEF Pass
  <2>1. PICK hard \in {f, h} : \/ scan' = Moved(hard)
                               \/ scan' = Moved(Triggered(hard, "warnings", k, scan.at + 1))
    BY <1>4 DEF PlainLine
  <2>2. ~scan.done /\ opened' = opened
    BY <1>4 DEF PlainLine, Reads
  <2>3. /\ h \in Pass /\ h.seen \subseteq KeysIn(h) /\ h.buffer = <<>>
        /\ opened \subseteq KeysIn(h) /\ h.done = scan.done
    BY <1>f, <2>0, TriggeredTells
  <2>4. /\ hard \in Pass /\ hard.seen \subseteq KeysIn(hard) /\ hard.buffer = <<>>
        /\ opened \subseteq KeysIn(hard) /\ hard.done = scan.done
    BY <1>f, <2>3
  <2> DEFINE w == Triggered(hard, "warnings", k, scan.at + 1)
  <2>5. /\ w \in Pass /\ w.seen \subseteq KeysIn(w) /\ w.buffer = <<>>
        /\ opened \subseteq KeysIn(w) /\ w.done = scan.done
    BY <2>0, <2>4, TriggeredTells
  <2> HIDE DEF w, h, f
  <2> QED
    BY <2>1, <2>2, <2>4, <2>5, MovedTells DEF ScanInv, w
<1>5. CASE EndScan
  <2> DEFINE t == Flushed(scan)
  <2>1. scan' = [t EXCEPT !.done = TRUE, !.patterns = {k \in ScanKeys : t.count[k] >= Frequent}]
    BY <1>5 DEF EndScan, LastFlush
  <2>2. opened' = opened
    BY <1>5 DEF EndScan
  <2> HIDE DEF t
  <2>3. t \in Pass
    BY <1>f DEF t
  <2>4. /\ scan' \in Pass /\ scan'.seen = t.seen /\ scan'.buffer = t.buffer
        /\ scan'.critical = t.critical /\ scan'.warnings = t.warnings
    BY <2>1, <2>3 DEF Pass
  <2>5. KeysIn(scan') = KeysIn(t)
    BY <2>4 DEF KeysIn
  <2> QED
    BY <1>f, <2>2, <2>4, <2>5 DEF ScanInv, t
<1>6. CASE UNCHANGED lsVars
  BY <1>6 DEF lsVars, ScanInv, KeysIn, Pending
<1> QED
  BY <1>1, <1>2, <1>3, <1>4, <1>5, <1>6 DEF LsNext

\* However the lines of a file alternate between frames, traces, events and
\* others: when the scan is over every stack that was begun is an event.
THEOREM StacksAreReported == ScanSpec => []StacksReported
<1>1. LsInit => ScanInv
  <2> SUFFICES ASSUME LsInit PROVE ScanInv
    OBVIOUS
  <2>1. scan \in Pass /\ scan.seen = {} /\ opened = {} /\ scan.buffer = <<>>
    BY DEF LsInit, Pass
  <2> QED
    BY <2>1 DEF ScanInv
<1>2. ScanInv => StacksReported
  BY DEF ScanInv, StacksReported, Reported, KeysIn, Pending
<1>3. ScanInv /\ [LsNext]_lsVars => ScanInv'
  BY ScanStep
<1> QED
  BY <1>1, <1>2, <1>3, PTL DEF ScanSpec

-----------------------------------------------------------------------------
(* The alerts of buddy-log-analyzer.                                         *)

CooledEntry == [file : LogFiles, p0 : P0Counts, ts : Nat]

AnalystType == [pc : {"idle", "check", "look", "touch", "read", "write", "rename", "unlink", "post"},
                file : LogFiles \cup {""}, p0 : Nat, tries : Nat, read : Seq(CooledEntry)]
LaType ==
    /\ now \in Nat /\ lockFile \in BOOLEAN /\ runs \in Nat
    /\ cooling \in Seq(CooledEntry) /\ tmpFile \in Seq(CooledEntry)
    /\ analyst \in [Analysts -> AnalystType]
    /\ alerts \subseteq [file : LogFiles, p0 : P0Counts, ts : Nat, run : Nat] /\ IsFiniteSet(alerts)

\* Two alerts tell of the same error when file and number of critical events agree.
ErrorOf(e) == <<e.file, e.p0>>
Warm(e) == now - e.ts < Cooldown
AlertsFit ==
    /\ \A a \in alerts : a.ts <= now /\ Warm(a)
    /\ \A a, b \in alerts : ErrorOf(a) = ErrorOf(b) => a = b

\* A cooldown list: in the order of time, and an entry that still counts is the last
\* of its error; the errors after it were alerted after it was written.
AlertedSince(e, error) == \E b \in alerts : ErrorOf(b) = error /\ e.ts <= b.ts
ListFits(s) ==
    /\ Len(s) <= KeptEntries
    /\ \A i \in 1 .. Len(s) : s[i].ts <= now
    /\ \A i, j \in 1 .. Len(s) : i < j =>
         /\ s[i].ts <= s[j].ts
         /\ Warm(s[i]) => ErrorOf(s[i]) # ErrorOf(s[j]) /\ AlertedSince(s[i], ErrorOf(s[j]))
Known(a, s) == \E i \in 1 .. Len(s) : ErrorOf(s[i]) = ErrorOf(a) /\ a.ts <= s[i].ts
Complete(s) == ListFits(s) /\ \A a \in alerts : Known(a, s)

\* The list of the file lacks the alert of the one that is about to write it.
Awaits(error) ==
    /\ ListFits(cooling)
    /\ \A a \in alerts : ErrorOf(a) = error \/ Known(a, cooling)
    /\ \A i \in 1 .. Len(cooling) :
         Warm(cooling[i]) => ErrorOf(cooling[i]) # error /\ AlertedSince(cooling[i], error)

Busy(p) == analyst[p].pc # "idle"
AnalystFits(p) ==
    /\ analyst[p].file \in LogFiles /\ analyst[p].p0 \in P0Counts
    /\ analyst[p].pc \in {"check", "look", "touch", "read", "write", "rename", "unlink", "post"}
    /\ analyst[p].pc \in {"check", "unlink", "post"} => Complete(cooling)
    /\ analyst[p].pc \in {"look", "touch", "read"} => Awaits(ErrorOf(analyst[p]))
    /\ analyst[p].pc = "write" => Complete(analyst[p].read) /\ analyst[p].read # <<>>
    /\ IF analyst[p].pc = "rename" THEN Complete(tmpFile) /\ tmpFile # <<>> ELSE tmpFile = <<>>
    /\ lockFile <=> analyst[p].pc \in {"read", "write", "rename", "unlink"}
AtRestFits == Complete(cooling) /\ ~lockFile /\ tmpFile = <<>>

\* One process at a time, and what each place in send_alert may rely on.
QuietInv ==
    orderly =>
      /\ LaType /\ AlertsFit
      /\ \A p, q \in Analysts : Busy(p) /\ Busy(q) => p = q
      /\ \A p \in Analysts : Busy(p) => AnalystFits(p)
      /\ (\A p \in Analysts : ~Busy(p)) => AtRestFits

\* No more errors were alerted in the last Cooldown ticks than the file has room for.
FewErrors == Cardinality({ErrorOf(a) : a \in alerts}) <= KeptEntries

LEMMA InvIsQuiet == QuietInv => QuietWindow
<1> SUFFICES ASSUME QuietInv, orderly PROVE QuietWindow
  BY DEF QuietWindow
<1>1. AlertsFit /\ LaType /\ ((\A p \in Analysts : ~Busy(p)) => AtRestFits)
  BY DEF QuietInv
<1>2. Repeats = {}
  <2> SUFFICES ASSUME NEW pair \in Repeats PROVE FALSE
    OBVIOUS
  <2>1. /\ pair[1] \in alerts /\ pair[2] \in alerts /\ pair[1].run < pair[2].run
        /\ pair[1].file = pair[2].file /\ pair[1].p0 = pair[2].p0
    BY DEF Repeats
  <2>2. ErrorOf(pair[1]) = ErrorOf(pair[2])
    BY <2>1 DEF ErrorOf
  <2>3. pair[1] = pair[2]
    BY <1>1, <2>1, <2>2 DEF AlertsFit
  <2>4. pair[1].run \in Nat
    BY <1>1, <2>1 DEF LaType
  <2>5. pair[1].run < pair[1].run
    BY <2>1, <2>3
  <2> QED
    BY <2>4, <2>5
<1> QED
  BY <1>1, <1>2 DEF QuietWindow, AtRestFits, Busy

\* A step of one process while the others are at rest: what is left to show of it.
LEMMA OneActs ==
    ASSUME QuietInv, orderly, NEW p \in Analysts, \A q \in Analysts \ {p} : ~Busy(q),
           LaType', AlertsFit', \A q \in Analysts \ {p} : analyst'[q] = analyst[q],
           Busy(p)' => AnalystFits(p)', ~Busy(p)' => AtRestFits'
    PROVE  QuietInv'
<1>1. \A q \in Analysts \ {p} : ~Busy(q)'
  BY DEF Busy
<1>2. (\A x, q \in Analysts : Busy(x) /\ Busy(q) => x = q)'
  BY <1>1
<1>3. (\A q \in Analysts : Busy(q) => AnalystFits(q))'
  BY <1>1
<1> QED
  BY <1>1, <1>2, <1>3 DEF QuietInv

\* Of a busy process: the others are at rest.
LEMMA BusyIsAlone ==
    ASSUME QuietInv, orderly, NEW p \in Analysts, Busy(p)
    PROVE  /\ LaType /\ AlertsFit /\ AnalystFits(p) /\ \A q \in Analysts \ {p} : ~Busy(q)
BY DEF QuietInv

LEMMA ListsStand ==
    ASSUME UNCHANGED <<now, alerts>>
    PROVE  /\ \A s : (ListFits(s) <=> ListFits(s)') /\ (Complete(s) <=> Complete(s)')
           /\ AlertsFit => AlertsFit'
BY DEF ListFits, Complete, Known, Warm, AlertedSince, AlertsFit

LEMMA AnalyseKeeps ==
    ASSUME QuietInv, orderly, orderly', NEW p \in Analysts, NEW f \in LogFiles, NEW n \in P0Counts, Analyse(p, f, n)
    PROVE  QuietInv'
<1>1. /\ analyst[p].pc = "idle" /\ runs' = runs + 1 /\ UNCHANGED <<now, cooling, tmpFile, lockFile, alerts>>
      /\ n = 0 \/ \A q \in Analysts \ {p} : analyst[q].pc = "idle"
      /\ analyst' = (IF n = 0 THEN analyst ELSE [analyst EXCEPT ![p] = [AtRest EXCEPT !.pc = "check", !.file = f, !.p0 = n]])
  BY DEF Analyse
<1>2. LaType /\ AlertsFit
  BY DEF QuietInv
<1>3. AlertsFit' /\ \A s : Complete(s) <=> Complete(s)'
  BY <1>1, <1>2, ListsStand
<1>4. CASE n = 0
  <2>1. LaType' /\ analyst' = analyst
    BY <1>1, <1>2, <1>4 DEF LaType
  <2>2. \A error : Awaits(error) <=> Awaits(error)'
    BY <1>1 DEF Awaits, ListFits, Known, Warm, AlertedSince
  <2>3. \A q \in Analysts : (Busy(q) <=> Busy(q)') /\ (AnalystFits(q) => AnalystFits(q)')
    BY <1>1, <1>3, <2>1, <2>2 DEF Busy, AnalystFits
  <2>4. AtRestFits => AtRestFits'
    BY <1>1, <1>3 DEF AtRestFits
  <2> QED
    BY <1>3, <2>1, <2>3, <2>4 DEF QuietInv
<1>5. CASE n # 0
  <2>1. \A q \in Analysts : ~Busy(q)
    BY <1>1, <1>5 DEF Busy
  <2>2. AtRestFits
    BY <2>1 DEF QuietInv
  <2>3. /\ analyst'[p].pc = "check" /\ analyst'[p].file = f /\ analyst'[p].p0 = n
        /\ \A q \in Analysts \ {p} : analyst'[q] = analyst[q]
    BY <1>1, <1>2, <1>5 DEF LaType, AtRest, AnalystType
  <2>4. LaType'
    <3>1. n \in Nat /\ <<>> \in Seq(CooledEntry)
      BY AlertsAssumption
    <3>2. [AtRest EXCEPT !.pc = "check", !.file = f, !.p0 = n]
             \in AnalystType
      BY <3>1 DEF AtRest, AnalystType
    <3> QED
      BY <1>1, <1>2, <1>5, <3>2 DEF LaType
  <2>5. AnalystFits(p)' /\ Busy(p)'
    BY <1>1, <1>3, <2>2, <2>3 DEF AnalystFits, AtRestFits, Busy
  <2> QED
    BY <1>3, <2>1, <2>3, <2>4, <2>5, OneActs
<1> QED
  BY <1>4, <1>5

LEMMA AlertKeeps ==
    ASSUME QuietInv, orderly, NEW p \in Analysts, Alerts(p)
    PROVE  QuietInv'
<1>0. PICK error : error = ErrorOf(analyst[p])
  OBVIOUS
<1>1. /\ analyst[p].pc = "check" /\ ~Suppressed(p) /\ UNCHANGED <<now, cooling, tmpFile, lockFile, orderly, runs>>
      /\ analyst' = [analyst EXCEPT ![p].pc = "look"]
  BY DEF Alerts
<1>2. /\ LaType /\ AlertsFit /\ AnalystFits(p) /\ Busy(p) /\ \A q \in Analysts \ {p} : ~Busy(q)
  BY <1>1, BusyIsAlone DEF Busy
<1>3. Complete(cooling) /\ ~lockFile /\ tmpFile = <<>> /\ analyst[p].file \in LogFiles /\ analyst[p].p0 \in P0Counts
  BY <1>1, <1>2 DEF AnalystFits
<1>4. PICK x : x = [file |-> analyst[p].file, p0 |-> analyst[p].p0, ts |-> now, run |-> runs]
  OBVIOUS
<1>5. /\ x \in [file : LogFiles, p0 : P0Counts, ts : Nat, run : Nat] /\ ErrorOf(x) = error /\ x.ts = now
      /\ alerts' = alerts \cup {x}
  BY <1>0, <1>2, <1>3, <1>4 DEF Alerts, LaType, ErrorOf
<1>6. /\ analyst' \in [Analysts -> AnalystType] /\ analyst'[p].pc = "look" /\ analyst'[p].file = analyst[p].file
      /\ analyst'[p].p0 = analyst[p].p0 /\ \A q \in Analysts \ {p} : analyst'[q] = analyst[q]
  BY <1>1, <1>2 DEF LaType, AnalystType
<1>7. LaType'
  <2>1. IsFiniteSet(alerts')
    BY <1>2, <1>5, FS_AddElement DEF LaType
  <2> QED
    BY <1>1, <1>2, <1>5, <1>6, <2>1 DEF LaType
<1>8. \A i \in 1 .. Len(cooling) : /\ cooling[i] \in CooledEntry /\ cooling[i].ts <= now /\ cooling[i].ts \in Nat
                                   /\ Warm(cooling[i]) => ErrorOf(cooling[i]) # error
  <2> SUFFICES ASSUME NEW i \in 1 .. Len(cooling)
               PROVE  /\ cooling[i] \in CooledEntry /\ cooling[i].ts <= now /\ cooling[i].ts \in Nat
                      /\ Warm(cooling[i]) => ErrorOf(cooling[i]) # error
    OBVIOUS
  <2>1. cooling[i] \in CooledEntry /\ cooling[i].ts <= now /\ cooling[i] \in Range(cooling)
    BY <1>2, <1>3 DEF LaType, Complete, ListFits, Range
  <2>2. Warm(cooling[i]) => ErrorOf(cooling[i]) # error
    BY <1>0, <1>1, <2>1 DEF Suppressed, Warm, ErrorOf
  <2> QED
    BY <2>1, <2>2 DEF CooledEntry
<1>9. /\ now \in Nat /\ Cooldown \in Nat /\ 0 < Cooldown
  BY <1>2, AlertsAssumption DEF LaType
<1>10. \A a \in alerts : ErrorOf(a) # error /\ a.ts <= now /\ a.ts \in Nat /\ now - a.ts < Cooldown
  <2> SUFFICES ASSUME NEW a \in alerts
               PROVE  ErrorOf(a) # error /\ a.ts <= now /\ a.ts \in Nat /\ now - a.ts < Cooldown
    OBVIOUS
  <2>1. a.ts <= now /\ a.ts \in Nat /\ now - a.ts < Cooldown
    BY <1>2 DEF AlertsFit, Warm, LaType
  <2>2. PICK i \in 1 .. Len(cooling) : ErrorOf(cooling[i]) = ErrorOf(a) /\ a.ts <= cooling[i].ts
    BY <1>3 DEF Complete, Known
  <2>3. cooling[i].ts \in Nat /\ (Warm(cooling[i]) => ErrorOf(cooling[i]) # error)
    BY <1>8
  <2>4. now - cooling[i].ts < Cooldown
    BY <1>9, <2>1, <2>2, <2>3
  <2> QED
    BY <2>1, <2>2, <2>3, <2>4 DEF Warm
<1>11. AlertsFit'
  <2>1. now - now < Cooldown
    BY <1>9
  <2>2. \A a \in alerts' : a.ts <= now /\ now - a.ts < Cooldown
    BY <1>5, <1>9, <1>10, <2>1
  <2>3. \A a, b \in alerts' : ErrorOf(a) = ErrorOf(b) => a = b
    BY <1>2, <1>5, <1>10 DEF AlertsFit
  <2> QED
    BY <1>1, <2>2, <2>3 DEF AlertsFit, Warm
<1>12. \A e, other : AlertedSince(e, other) => AlertedSince(e, other)'
  BY <1>5 DEF AlertedSince
<1>13. ListFits(cooling)'
  BY <1>1, <1>3, <1>12 DEF Complete, ListFits, Warm
<1>14. Awaits(error)'
  <2>1. \A a \in alerts' : ErrorOf(a) = error \/ Known(a, cooling)'
    BY <1>1, <1>3, <1>5 DEF Complete, Known
  <2>2. \A i \in 1 .. Len(cooling) : Warm(cooling[i])' => ErrorOf(cooling[i]) # error /\ AlertedSince(cooling[i], error)'
    BY <1>1, <1>5, <1>8 DEF AlertedSince, Warm
  <2> QED
    BY <1>1, <1>13, <2>1, <2>2 DEF Awaits
<1>15. AnalystFits(p)' /\ Busy(p)'
  <2>1. ErrorOf(analyst[p])' = error
    BY <1>0, <1>6 DEF ErrorOf
  <2>2. Awaits(ErrorOf(analyst[p]))'
    BY <1>14, <2>1
  <2> QED
    BY <1>1, <1>3, <1>6, <2>2 DEF AnalystFits, Busy
<1> QED
  BY <1>2, <1>6, <1>7, <1>11, <1>15, OneActs

\* A list with one entry more than the file has room for gives up one that no alert needs:
\* else all its entries would count, each for an error of its own.
LEMMA NewestIsComplete ==
    ASSUME LaType, AlertsFit, FewErrors, NEW e \in CooledEntry, e.ts = now, Awaits(ErrorOf(e))
    PROVE  /\ Newest(Append(cooling, e)) \in Seq(CooledEntry) /\ Newest(Append(cooling, e)) # <<>>
           /\ Complete(Newest(Append(cooling, e)))
<1>1. PICK error : error = ErrorOf(e)
  OBVIOUS
<1>2. PICK L, K \in Nat : L = Len(cooling) /\ K = KeptEntries /\ K # 0
  BY AlertsAssumption DEF LaType
<1>3. PICK t : t = Append(cooling, e)
  OBVIOUS
<1>4. /\ L <= K /\ now \in Nat /\ Cooldown \in Nat
      /\ ListFits(cooling) /\ \A a \in alerts : ErrorOf(a) = error \/ Known(a, cooling)
      /\ \A i \in 1 .. L : Warm(cooling[i]) => ErrorOf(cooling[i]) # error /\ AlertedSince(cooling[i], error)
      /\ \A i \in 1 .. L : cooling[i].ts <= now
      /\ cooling \in Seq(CooledEntry)
  BY <1>1, <1>2, AlertsAssumption DEF Awaits, ListFits, LaType
<1>5. /\ t \in Seq(CooledEntry) /\ Len(t) = L + 1 /\ t[L + 1] = e /\ \A i \in 1 .. L : t[i] = cooling[i]
  BY <1>2, <1>3, <1>4
<1>6. \A i \in 1 .. L + 1 : t[i] \in CooledEntry /\ t[i].ts \in Nat
  <2>1. \A i \in 1 .. L + 1 : t[i] \in CooledEntry
    BY <1>5
  <2> QED
    BY <2>1 DEF CooledEntry
<1>7. \A i \in 1 .. L + 1 : t[i].ts <= now
  BY <1>4, <1>5
<1>8. ASSUME NEW i \in 1 .. L + 1, NEW j \in 1 .. L + 1, i < j
      PROVE  /\ t[i].ts <= t[j].ts
             /\ Warm(t[i]) => ErrorOf(t[i]) # ErrorOf(t[j]) /\ AlertedSince(t[i], ErrorOf(t[j]))
  <2>1. i \in 1 .. L /\ t[i] = cooling[i]
    BY <1>5, <1>8
  <2>2. CASE j \in 1 .. L
    <3>1. t[j] = cooling[j]
      BY <1>5, <2>2
    <3> QED
      BY <1>2, <1>4, <1>8, <2>1, <2>2, <3>1 DEF ListFits
  <2>3. CASE j = L + 1
    BY <1>1, <1>4, <1>5, <1>7, <2>1, <2>3
  <2> QED
    BY <2>2, <2>3
<1>9. ASSUME NEW a \in alerts
      PROVE  /\ a.ts \in Nat /\ a.ts <= now /\ now - a.ts < Cooldown
             /\ \E i \in 1 .. L + 1 : ErrorOf(t[i]) = ErrorOf(a) /\ a.ts <= t[i].ts
  <2>1. a.ts \in Nat /\ a.ts <= now /\ now - a.ts < Cooldown
    BY DEF LaType, AlertsFit, Warm
  <2>2. CASE ErrorOf(a) = error
    <3>1. L + 1 \in 1 .. L + 1 /\ ErrorOf(t[L + 1]) = ErrorOf(a) /\ a.ts <= t[L + 1].ts
      BY <1>1, <1>5, <2>1, <2>2
    <3> QED
      BY <2>1, <3>1
  <2>3. CASE Known(a, cooling)
    <3>1. PICK i \in 1 .. L : ErrorOf(cooling[i]) = ErrorOf(a) /\ a.ts <= cooling[i].ts
      BY <1>2, <2>3 DEF Known
    <3>2. i \in 1 .. L + 1 /\ t[i] = cooling[i]
      BY <1>5
    <3> QED
      BY <2>1, <3>1, <3>2
  <2> QED
    BY <1>4, <2>2, <2>3
<1>10. CASE L + 1 <= K
  <2>1. Newest(t) = t
    BY <1>2, <1>5, <1>10 DEF Newest
  <2>2. ListFits(t)
    BY <1>2, <1>5, <1>7, <1>8, <1>10 DEF ListFits
  <2>3. \A a \in alerts : Known(a, t)
    BY <1>5, <1>9 DEF Known
  <2>4. t # <<>>
    BY <1>5
  <2> QED
    BY <1>3, <1>5, <2>1, <2>2, <2>3, <2>4 DEF Complete
<1>11. CASE L = K
  <2>1. PICK s : s = SubSeq(t, 2, L + 1)
    OBVIOUS
  <2>2. Newest(t) = s
    <3>1. Len(t) - KeptEntries + 1 = 2 /\ ~ (Len(t) <= KeptEntries) /\ Len(t) = L + 1
      BY <1>2, <1>5, <1>11
    <3> QED
      BY <2>1, <3>1 DEF Newest
  <2>3. s \in Seq(CooledEntry) /\ Len(s) = L /\ \A i \in 1 .. L : s[i] = t[i + 1] /\ i + 1 \in 1 .. L + 1
    BY <1>5, <2>1
  <2>4. ListFits(s)
    <3>1. \A i \in 1 .. L : s[i].ts <= now
      BY <1>7, <2>3
    <3>2. ASSUME NEW i \in 1 .. L, NEW j \in 1 .. L, i < j
          PROVE  /\ s[i].ts <= s[j].ts
                 /\ Warm(s[i]) => ErrorOf(s[i]) # ErrorOf(s[j]) /\ AlertedSince(s[i], ErrorOf(s[j]))
      <4>1. i + 1 \in 1 .. L + 1 /\ j + 1 \in 1 .. L + 1 /\ i + 1 < j + 1 /\ s[i] = t[i + 1] /\ s[j] = t[j + 1]
        BY <2>3, <3>2
      <4> QED
        BY <1>8, <4>1
    <3> QED
      BY <1>2, <1>11, <2>3, <3>1, <3>2 DEF ListFits
  <2>5. ASSUME NEW a \in alerts PROVE Known(a, s)
    <3>1. PICK i \in 1 .. L + 1 : ErrorOf(t[i]) = ErrorOf(a) /\ a.ts <= t[i].ts
      BY <1>9
    <3>2. CASE i # 1
      <4>1. i - 1 \in 1 .. L /\ s[i - 1] = t[i]
        BY <2>3, <3>2
      <4> QED
        BY <2>3, <3>1, <4>1 DEF Known
    <3>3. CASE i = 1
      <4> DEFINE E == {ErrorOf(b) : b \in alerts}
                 f == [j \in 1 .. L + 1 |-> ErrorOf(t[j])]
                 g == [b \in alerts |-> ErrorOf(b)]
      <4>1. \A j \in 1 .. L + 1 : Warm(t[j])
        <5> SUFFICES ASSUME NEW j \in 1 .. L + 1 PROVE Warm(t[j])
          OBVIOUS
        <5>1. a.ts \in Nat /\ now - a.ts < Cooldown /\ a.ts <= t[1].ts /\ t[1].ts \in Nat /\ t[j].ts \in Nat
          BY <1>6, <1>9, <3>1, <3>3
        <5>2. t[1].ts <= t[j].ts
          <6>1. CASE j = 1
            BY <5>1, <6>1
          <6>2. CASE j # 1
            BY <1>8, <6>2
          <6> QED
            BY <6>1, <6>2
        <5>3. now - t[j].ts < Cooldown
          BY <1>4, <5>1, <5>2
        <5> QED
          BY <5>3 DEF Warm
      <4>2. \A x, y \in 1 .. L + 1 : x # y => f[x] # f[y]
        <5>1. \A x, y \in 1 .. L + 1 : x < y => ErrorOf(t[x]) # ErrorOf(t[y])
          BY <1>8, <4>1
        <5>2. \A x, y \in 1 .. L + 1 : x # y => x < y \/ y < x
          OBVIOUS
        <5> QED
          BY <5>1, <5>2
      <4>3. \A j \in 1 .. L + 1 : ErrorOf(t[j]) \in E
        <5> SUFFICES ASSUME NEW j \in 1 .. L + 1 PROVE \E b \in alerts : ErrorOf(b) = ErrorOf(t[j])
          OBVIOUS
        <5>1. CASE j = 1
          BY <3>1, <3>3, <5>1
        <5>2. CASE j # 1
          <6>1. 1 \in 1 .. L + 1 /\ 1 < j
            BY <5>2
          <6>2. AlertedSince(t[1], ErrorOf(t[j]))
            BY <1>8, <4>1, <6>1
          <6> QED
            BY <6>2 DEF AlertedSince
        <5> QED
          BY <5>1, <5>2
      <4>4. f \in [1 .. L + 1 -> E]
        BY <4>3
      <4>5. IsFiniteSet(E) /\ Cardinality(E) <= K
        <5>1. g \in Surjection(alerts, E)
          BY DEF Surjection
        <5>2. IsFiniteSet(E)
          BY <5>1, FS_Surjection DEF LaType
        <5> QED
          BY <1>2, <5>2 DEF FewErrors
      <4>6. IsFiniteSet(1 .. L + 1) /\ Cardinality(1 .. L + 1) = L + 1
        BY FS_Interval
      <4>7. Cardinality(E) \in Nat /\ Cardinality(E) < Cardinality(1 .. L + 1)
        BY <1>11, <4>5, <4>6, FS_CardinalityType
      <4> HIDE DEF E, f
      <4>8. \E x, y \in 1 .. L + 1 : x # y /\ f[x] = f[y]
        BY <4>4, <4>5, <4>6, <4>7, FS_PigeonHole
      <4> QED
        BY <4>2, <4>8
    <3> QED
      BY <3>2, <3>3
  <2>6. s # <<>>
    BY <1>2, <1>11, <2>3
  <2> QED
    BY <1>3, <2>2, <2>3, <2>4, <2>5, <2>6 DEF Complete
<1> QED
  BY <1>2, <1>4, <1>10, <1>11

\* The steps that lead from the look at the lock file to the new list.
LEMMA SaveKeeps ==
    ASSUME QuietInv, orderly, FewErrors, NEW p \in Analysts,
           LookFree(p) \/ LookTaken(p) \/ TouchLock(p) \/ ReadCooling(p)
    PROVE  QuietInv'
<1>1. UNCHANGED <<now, cooling, tmpFile, alerts, orderly, runs>> /\ analyst[p].pc \in {"look", "touch", "read"}
  BY DEF LookFree, LookTaken, TouchLock, ReadCooling
<1>2. /\ LaType /\ AlertsFit /\ AnalystFits(p) /\ Busy(p) /\ \A q \in Analysts \ {p} : ~Busy(q)
  BY <1>1, BusyIsAlone DEF Busy
<1>3. PICK error : error = ErrorOf(analyst[p])
  OBVIOUS
<1>4. /\ Awaits(error) /\ tmpFile = <<>> /\ (lockFile <=> analyst[p].pc = "read")
      /\ analyst[p].file \in LogFiles /\ analyst[p].p0 \in P0Counts
  BY <1>1, <1>2, <1>3 DEF AnalystFits
<1>5. AlertsFit' /\ Awaits(error)' /\ \A s : Complete(s) <=> Complete(s)'
  BY <1>1, <1>2, <1>4, ListsStand DEF Awaits, ListFits, Known, Warm, AlertedSince
<1>6. /\ \A q \in Analysts : analyst[q] \in AnalystType
      /\ analyst \in [Analysts -> AnalystType]
  BY <1>2 DEF LaType
<1>7. CASE LookFree(p) \/ TouchLock(p)
  <2>1. /\ analyst' \in [Analysts -> AnalystType] /\ \A q \in Analysts \ {p} : analyst'[q] = analyst[q]
        /\ analyst'[p].file = analyst[p].file /\ analyst'[p].p0 = analyst[p].p0
        /\ \/ analyst'[p].pc = "touch" /\ lockFile' = lockFile /\ analyst[p].pc = "look"
           \/ analyst'[p].pc = "read" /\ lockFile' = TRUE
    <3>1. CASE LookFree(p)
      BY <1>6, <3>1 DEF LookFree, AnalystType
    <3>2. CASE TouchLock(p)
      BY <1>6, <3>2 DEF TouchLock, AnalystType
    <3> QED
      BY <1>7, <3>1, <3>2
  <2>2. LaType'
    BY <1>1, <1>2, <2>1 DEF LaType
  <2>3. ErrorOf(analyst[p])' = error
    BY <1>3, <2>1 DEF ErrorOf
  <2>4. Awaits(ErrorOf(analyst[p]))'
    BY <1>5, <2>3
  <2>5. AnalystFits(p)' /\ Busy(p)'
    BY <1>1, <1>4, <2>1, <2>4 DEF AnalystFits, Busy
  <2> QED
    BY <1>2, <1>5, <2>1, <2>2, <2>5, OneActs
<1>8. CASE LookTaken(p)
  BY <1>4, <1>8 DEF LookTaken
<1>9. CASE ReadCooling(p)
  <2>1. PICK e : e = Alert(p)
    OBVIOUS
  <2>2. e \in CooledEntry /\ ErrorOf(e) = error /\ e.ts = now
    BY <1>2, <1>3, <1>4, <2>1 DEF Alert, CooledEntry, ErrorOf, LaType
  <2>3. PICK s : s = Newest(Append(cooling, e))
    OBVIOUS
  <2>4. s \in Seq(CooledEntry) /\ s # <<>> /\ Complete(s)
    BY <1>2, <1>4, <2>2, <2>3, NewestIsComplete
  <2>5. analyst' = [analyst EXCEPT ![p].pc = "write", ![p].read = s] /\ UNCHANGED lockFile /\ analyst[p].pc = "read"
    BY <1>9, <2>1, <2>3 DEF ReadCooling
  <2>6. /\ analyst' \in [Analysts -> AnalystType] /\ \A q \in Analysts \ {p} : analyst'[q] = analyst[q]
        /\ analyst'[p].file = analyst[p].file /\ analyst'[p].p0 = analyst[p].p0
        /\ analyst'[p].pc = "write" /\ analyst'[p].read = s
    BY <1>6, <2>4, <2>5 DEF AnalystType
  <2>7. LaType'
    BY <1>1, <1>2, <2>5, <2>6 DEF LaType
  <2>8. Complete(analyst[p].read)'
    BY <1>5, <2>4, <2>6
  <2>9. AnalystFits(p)' /\ Busy(p)'
    BY <1>1, <1>4, <2>4, <2>5, <2>6, <2>8 DEF AnalystFits, Busy
  <2> QED
    BY <1>2, <1>5, <2>6, <2>7, <2>9, OneActs
<1> QED
  BY <1>7, <1>8, <1>9

\* The steps after it: the list reaches the file, the lock goes, the alert is posted.
LEMMA FinishKeeps ==
    ASSUME QuietInv, orderly, NEW p \in Analysts,
           \/ StaysQuiet(p) \/ WriteTmp(p) \/ RenameTmp(p) \/ UnlinkLock(p)
           \/ \E answer \in {"final", "again"} : Post(p, answer)
    PROVE  QuietInv'
<1>1. UNCHANGED <<now, alerts, orderly, runs>> /\ analyst[p].pc \in {"check", "write", "rename", "unlink", "post"}
  BY DEF StaysQuiet, WriteTmp, RenameTmp, UnlinkLock, Post
<1>2. /\ LaType /\ AlertsFit /\ AnalystFits(p) /\ Busy(p) /\ \A q \in Analysts \ {p} : ~Busy(q)
  BY <1>1, BusyIsAlone DEF Busy
<1>3. /\ analyst[p].file \in LogFiles /\ analyst[p].p0 \in P0Counts
      /\ analyst[p].pc \in {"check", "unlink", "post"} => Complete(cooling)
      /\ analyst[p].pc = "write" => Complete(analyst[p].read) /\ analyst[p].read # <<>>
      /\ IF analyst[p].pc = "rename" THEN Complete(tmpFile) /\ tmpFile # <<>> ELSE tmpFile = <<>>
      /\ lockFile <=> analyst[p].pc \in {"read", "write", "rename", "unlink"}
  BY <1>2 DEF AnalystFits
<1>4. AlertsFit' /\ \A s : Complete(s) <=> Complete(s)'
  BY <1>1, <1>2, ListsStand
<1>5. analyst \in [Analysts -> AnalystType] /\ AtRest \in AnalystType /\ analyst[p] \in AnalystType /\ AtRest.pc = "idle"
  <2>1. AtRest \in AnalystType /\ AtRest.pc = "idle"
    <3>1. <<>> \in Seq(CooledEntry)
      OBVIOUS
    <3> QED
      BY <3>1 DEF AnalystType, AtRest
  <2>2. analyst \in [Analysts -> AnalystType]
    BY <1>2 DEF LaType
  <2> QED
    BY <2>1, <2>2
<1>6. CASE StaysQuiet(p) \/ (\E answer \in {"final", "again"} : Post(p, answer))
  <2>1. /\ UNCHANGED <<cooling, tmpFile, lockFile>> /\ ~lockFile /\ tmpFile = <<>> /\ Complete(cooling)
        /\ \/ analyst' = [analyst EXCEPT ![p] = AtRest]
           \/ analyst' = [analyst EXCEPT ![p].tries = @ + 1] /\ analyst[p].pc = "post"
    BY <1>1, <1>3, <1>6 DEF StaysQuiet, Post
  <2>2. /\ analyst' \in [Analysts -> AnalystType] /\ \A q \in Analysts \ {p} : analyst'[q] = analyst[q]
        /\ \/ analyst'[p].pc = "idle"
           \/ /\ analyst'[p].pc = "post" /\ analyst'[p].file = analyst[p].file /\ analyst'[p].p0 = analyst[p].p0
    <3>1. CASE analyst' = [analyst EXCEPT ![p] = AtRest]
      BY <1>5, <3>1
    <3>2. CASE analyst' = [analyst EXCEPT ![p].tries = @ + 1] /\ analyst[p].pc = "post"
      <4>0. PICK k \in AnalystType : k = analyst[p]
        BY <1>5
      <4>a. k.tries \in Nat
        BY DEF AnalystType
      <4>b. PICK m \in Nat : m = k.tries + 1
        BY <4>a
      <4>1. PICK rec : rec = [k EXCEPT !.tries = m]
        OBVIOUS
      <4>2. rec \in AnalystType /\ rec.pc = k.pc /\ rec.file = k.file /\ rec.p0 = k.p0
        BY <4>1 DEF AnalystType
      <4>3. analyst' = [analyst EXCEPT ![p] = rec]
        BY <3>2, <4>0, <4>b, <4>1
      <4> QED
        BY <1>5, <3>2, <4>0, <4>2, <4>3
    <3> QED
      BY <2>1, <3>1, <3>2
  <2>3. LaType'
    BY <1>1, <1>2, <2>1, <2>2 DEF LaType
  <2>4. Complete(cooling)'
    BY <1>4, <2>1
  <2>5. Busy(p)' => AnalystFits(p)'
    BY <1>3, <2>1, <2>2, <2>4 DEF Busy, AnalystFits
  <2>6. AtRestFits'
    BY <2>1, <2>4 DEF AtRestFits
  <2> QED
    BY <1>2, <1>4, <2>2, <2>3, <2>5, <2>6, OneActs
<1>7. CASE WriteTmp(p)
  <2>1. /\ analyst[p].pc = "write" /\ UNCHANGED <<cooling, lockFile>> /\ tmpFile' = analyst[p].read
        /\ analyst' = [analyst EXCEPT ![p].pc = "rename", ![p].read = <<>>]
    BY <1>7 DEF WriteTmp
  <2>2. /\ analyst' \in [Analysts -> AnalystType] /\ \A q \in Analysts \ {p} : analyst'[q] = analyst[q]
        /\ analyst'[p].pc = "rename" /\ analyst'[p].file = analyst[p].file /\ analyst'[p].p0 = analyst[p].p0
    <3>1. PICK rec : rec = [analyst[p] EXCEPT !.pc = "rename", !.read = <<>>]
      OBVIOUS
    <3>2. rec \in AnalystType /\ rec.pc = "rename" /\ rec.file = analyst[p].file /\ rec.p0 = analyst[p].p0
      <4>1. <<>> \in Seq(CooledEntry)
        OBVIOUS
      <4> QED
        BY <1>5, <3>1, <4>1 DEF AnalystType
    <3>3. analyst' = [analyst EXCEPT ![p] = rec]
      BY <1>5, <2>1, <3>1 DEF AnalystType
    <3> QED
      BY <1>5, <3>2, <3>3
  <2>3. LaType'
    <3>1. tmpFile' \in Seq(CooledEntry)
      BY <1>5, <2>1 DEF AnalystType
    <3> QED
      BY <1>1, <1>2, <2>1, <2>2, <3>1 DEF LaType
  <2>4. Complete(tmpFile)' /\ tmpFile' # <<>>
    BY <1>3, <1>4, <2>1
  <2>5. Busy(p)' /\ AnalystFits(p)'
    BY <1>3, <2>1, <2>2, <2>4 DEF Busy, AnalystFits
  <2> QED
    BY <1>2, <1>4, <2>2, <2>3, <2>5, OneActs
<1>8. CASE RenameTmp(p) \/ UnlinkLock(p)
  <2>1. /\ tmpFile' = <<>>
        /\ \/ /\ RenameTmp(p) /\ cooling' = tmpFile /\ analyst' = [analyst EXCEPT ![p].pc = "unlink"]
              /\ Complete(tmpFile) /\ UNCHANGED lockFile /\ lockFile
           \/ /\ UnlinkLock(p) /\ cooling' = cooling /\ analyst' = [analyst EXCEPT ![p].pc = "post"]
              /\ Complete(cooling) /\ lockFile' = FALSE
    <3>1. CASE RenameTmp(p)
      BY <1>3, <3>1 DEF RenameTmp
    <3>2. CASE UnlinkLock(p)
      BY <1>3, <3>2 DEF UnlinkLock
    <3> QED
      BY <1>8, <3>1, <3>2
  <2>2. /\ analyst' \in [Analysts -> AnalystType] /\ \A q \in Analysts \ {p} : analyst'[q] = analyst[q]
        /\ analyst'[p].file = analyst[p].file /\ analyst'[p].p0 = analyst[p].p0
        /\ (analyst'[p].pc = "unlink" /\ lockFile') \/ (analyst'[p].pc = "post" /\ ~lockFile')
    <3>1. PICK pc : /\ pc \in {"unlink", "post"} /\ analyst' = [analyst EXCEPT ![p].pc = pc]
                    /\ (pc = "unlink" /\ lockFile') \/ (pc = "post" /\ ~lockFile')
      BY <2>1
    <3>2. PICK rec : rec = [analyst[p] EXCEPT !.pc = pc]
      OBVIOUS
    <3>3. rec \in AnalystType /\ rec.pc = pc /\ rec.file = analyst[p].file /\ rec.p0 = analyst[p].p0
      BY <1>5, <3>1, <3>2 DEF AnalystType
    <3>4. analyst' = [analyst EXCEPT ![p] = rec]
      BY <1>5, <3>1, <3>2
    <3> QED
      BY <1>5, <3>1, <3>3, <3>4
  <2>3. LaType'
    <3>1. cooling' \in Seq(CooledEntry) /\ tmpFile' \in Seq(CooledEntry) /\ lockFile' \in BOOLEAN
      <4>1. cooling \in Seq(CooledEntry) /\ tmpFile \in Seq(CooledEntry) /\ <<>> \in Seq(CooledEntry)
        BY <1>2 DEF LaType
      <4>2. cooling' \in {cooling, tmpFile} /\ tmpFile' = <<>>
        BY <2>1
      <4>3. lockFile' \in BOOLEAN
        BY <1>2, <2>1 DEF LaType
      <4> QED
        BY <4>1, <4>2, <4>3
    <3> QED
      BY <1>1, <1>2, <2>2, <3>1 DEF LaType
  <2>4. Complete(cooling)'
    BY <1>4, <2>1
  <2>5. Busy(p)' /\ AnalystFits(p)'
    BY <1>3, <2>1, <2>2, <2>4 DEF Busy, AnalystFits
  <2> QED
    BY <1>2, <1>4, <2>2, <2>3, <2>5, OneActs
<1> QED
  BY <1>6, <1>7, <1>8

\* Time passes: what counted no longer may stop to count, and never the reverse.
LEMMA MinuteKeeps ==
    ASSUME QuietInv, orderly, Minute
    PROVE  QuietInv'
<1>1. /\ now' = now + 1 /\ alerts' = {a \in alerts : now + 1 - a.ts < Cooldown}
      /\ UNCHANGED <<cooling, tmpFile, lockFile, analyst, orderly, runs>>
  BY DEF Minute
<1>2. LaType /\ AlertsFit
  BY DEF QuietInv
<1>3. now \in Nat /\ Cooldown \in Nat /\ \A a \in alerts : a.ts \in Nat
  BY <1>2, AlertsAssumption DEF LaType
<1>4. LaType'
  <2>1. alerts' \in SUBSET alerts
    BY <1>1
  <2>2. IsFiniteSet(alerts')
    BY <1>2, <2>1, FS_Subset DEF LaType
  <2> QED
    BY <1>1, <1>2, <1>3, <2>1, <2>2 DEF LaType
<1>5. AlertsFit'
  BY <1>1, <1>2, <1>3 DEF AlertsFit, Warm
<1>6. ASSUME NEW e \in CooledEntry PROVE /\ Warm(e)' => Warm(e)
                                         /\ \A error : Warm(e)' /\ AlertedSince(e, error) => AlertedSince(e, error)'
  <2>1. e.ts \in Nat /\ (Warm(e)' <=> now + 1 - e.ts < Cooldown) /\ (Warm(e) <=> now - e.ts < Cooldown)
    <3>1. e.ts \in Nat
      BY DEF CooledEntry
    <3> QED
      BY <1>1, <1>3, <3>1 DEF Warm
  <2>2. Warm(e)' => Warm(e)
    BY <1>3, <2>1
  <2>3. ASSUME NEW error, Warm(e)', AlertedSince(e, error) PROVE AlertedSince(e, error)'
    <3>1. PICK b \in alerts : ErrorOf(b) = error /\ e.ts <= b.ts
      BY <2>3 DEF AlertedSince
    <3>2. now + 1 - b.ts < Cooldown
      BY <1>3, <2>1, <2>3, <3>1
    <3> QED
      BY <1>1, <3>1, <3>2 DEF AlertedSince
  <2> QED
    BY <2>2, <2>3
<1>7. ASSUME NEW s \in Seq(CooledEntry), ListFits(s) PROVE ListFits(s)'
  <2>1. \A i \in 1 .. Len(s) : s[i] \in CooledEntry
    OBVIOUS
  <2>2. \A i \in 1 .. Len(s) : s[i].ts \in Nat
    BY <2>1 DEF CooledEntry
  <2>3. \A i \in 1 .. Len(s) : s[i].ts <= now'
    BY <1>1, <1>3, <1>7, <2>2 DEF ListFits
  <2>4. \A i, j \in 1 .. Len(s) : i < j =>
         /\ s[i].ts <= s[j].ts
         /\ Warm(s[i])' => ErrorOf(s[i]) # ErrorOf(s[j]) /\ AlertedSince(s[i], ErrorOf(s[j]))'
    <3> SUFFICES ASSUME NEW i \in 1 .. Len(s), NEW j \in 1 .. Len(s), i < j
                 PROVE  /\ s[i].ts <= s[j].ts
                        /\ Warm(s[i])' => ErrorOf(s[i]) # ErrorOf(s[j]) /\ AlertedSince(s[i], ErrorOf(s[j]))'
      OBVIOUS
    <3>1. s[i].ts <= s[j].ts /\ (Warm(s[i]) => ErrorOf(s[i]) # ErrorOf(s[j]) /\ AlertedSince(s[i], ErrorOf(s[j])))
      BY <1>7 DEF ListFits
    <3>2. PICK e, error : e = s[i] /\ error = ErrorOf(s[j])
      OBVIOUS
    <3>3. e \in CooledEntry
      BY <2>1, <3>2
    <3>4. (Warm(e)' => Warm(e)) /\ (Warm(e)' /\ AlertedSince(e, error) => AlertedSince(e, error)')
      BY <1>6, <3>3
    <3>5. Warm(e)' => AlertedSince(e, error)' /\ ErrorOf(e) # error
      BY <3>1, <3>2, <3>4
    <3> QED
      BY <3>1, <3>2, <3>5
  <2> QED
    BY <1>7, <2>3, <2>4 DEF ListFits
<1>8. ASSUME NEW s \in Seq(CooledEntry), Complete(s) PROVE Complete(s)'
  BY <1>1, <1>7, <1>8 DEF Complete, Known
<1>9. ASSUME NEW error, Awaits(error) PROVE Awaits(error)'
  <2>1. ListFits(cooling)'
    <3>1. PICK s \in Seq(CooledEntry) : s = cooling
      BY <1>2 DEF LaType
    <3>2. ListFits(s)'
      BY <1>7, <1>9, <3>1 DEF Awaits
    <3> QED
      BY <1>1, <3>1, <3>2 DEF ListFits
  <2>2. \A i \in 1 .. Len(cooling) :
           Warm(cooling[i])' => ErrorOf(cooling[i]) # error /\ AlertedSince(cooling[i], error)'
    <3> SUFFICES ASSUME NEW i \in 1 .. Len(cooling)
                 PROVE  Warm(cooling[i])' => ErrorOf(cooling[i]) # error /\ AlertedSince(cooling[i], error)'
      OBVIOUS
    <3>1. PICK e \in CooledEntry : e = cooling[i]
      BY <1>2 DEF LaType
    <3>2. (Warm(e)' => Warm(e)) /\ (Warm(e)' /\ AlertedSince(e, error) => AlertedSince(e, error)')
      BY <1>6
    <3>3. Warm(e) => ErrorOf(e) # error /\ AlertedSince(e, error)
      BY <1>9, <3>1 DEF Awaits
    <3>4. Warm(e)' => ErrorOf(e) # error /\ AlertedSince(e, error)'
      BY <3>2, <3>3
    <3> QED
      BY <1>1, <3>1, <3>4 DEF Warm, AlertedSince
  <2> QED
    BY <1>1, <1>9, <2>1, <2>2 DEF Awaits, Known
<1>10. ASSUME NEW p \in Analysts, AnalystFits(p) PROVE AnalystFits(p)'
  <2>1. analyst[p].read \in Seq(CooledEntry) /\ cooling \in Seq(CooledEntry) /\ tmpFile \in Seq(CooledEntry)
    BY <1>2 DEF LaType, AnalystType
  <2>2. /\ Complete(cooling) => Complete(cooling)'
        /\ Complete(tmpFile) => Complete(tmpFile)'
        /\ Complete(analyst[p].read) => Complete(analyst[p].read)'
    BY <1>1, <1>8, <2>1
  <2>3. Awaits(ErrorOf(analyst[p])) => Awaits(ErrorOf(analyst[p]))'
    <3>1. PICK error : error = ErrorOf(analyst[p])
      OBVIOUS
    <3>2. Awaits(error) => Awaits(error)'
      BY <1>9
    <3>3. error = ErrorOf(analyst[p])'
      BY <1>1, <3>1 DEF ErrorOf
    <3> QED
      BY <3>1, <3>2, <3>3
  <2>3a. /\ analyst[p].pc \in {"check", "unlink", "post"} => Complete(cooling)'
         /\ analyst[p].pc \in {"look", "touch", "read"} => Awaits(ErrorOf(analyst[p]))'
         /\ analyst[p].pc = "write" => Complete(analyst[p].read)'
         /\ analyst[p].pc = "rename" => Complete(tmpFile)'
    <3>1. /\ analyst[p].pc \in {"check", "unlink", "post"} => Complete(cooling)
          /\ analyst[p].pc \in {"look", "touch", "read"} => Awaits(ErrorOf(analyst[p]))
          /\ analyst[p].pc = "write" => Complete(analyst[p].read)
          /\ analyst[p].pc = "rename" => Complete(tmpFile)
      BY <1>10 DEF AnalystFits
    <3> QED
      BY <2>2, <2>3, <3>1
  <2>4. /\ analyst[p].file \in LogFiles /\ analyst[p].p0 \in P0Counts
        /\ analyst[p].pc \in {"check", "look", "touch", "read", "write", "rename", "unlink", "post"}
        /\ analyst[p].pc \in {"check", "unlink", "post"} => Complete(cooling)'
        /\ analyst[p].pc \in {"look", "touch", "read"} => Awaits(ErrorOf(analyst[p]))'
        /\ analyst[p].pc = "write" => Complete(analyst[p].read)' /\ analyst[p].read # <<>>
        /\ IF analyst[p].pc = "rename" THEN Complete(tmpFile)' /\ tmpFile # <<>> ELSE tmpFile = <<>>
        /\ lockFile <=> analyst[p].pc \in {"read", "write", "rename", "unlink"}
    BY <1>10, <2>3a DEF AnalystFits
  <2> QED
    BY <1>1, <2>4 DEF AnalystFits
<1>11. AtRestFits => AtRestFits'
  <2>1. Complete(cooling) => Complete(cooling)'
    BY <1>1, <1>2, <1>8 DEF LaType
  <2> QED
    BY <1>1, <2>1 DEF AtRestFits
<1> QED
  BY <1>1, <1>4, <1>5, <1>10, <1>11 DEF QuietInv, Busy

LEMMA QuietStart == LaInit => QuietInv
<1> SUFFICES ASSUME LaInit PROVE QuietInv
  OBVIOUS
<1>1. /\ now = 0 /\ cooling = <<>> /\ tmpFile = <<>> /\ lockFile = FALSE /\ alerts = {} /\ runs = 0
      /\ analyst = [p \in Analysts |-> AtRest]
  BY DEF LaInit
<1>2. AtRest \in AnalystType /\ AtRest.pc = "idle" /\ <<>> \in Seq(CooledEntry)
  BY DEF AtRest, AnalystType
<1>3. LaType /\ AlertsFit
  BY <1>1, <1>2, FS_EmptySet DEF LaType, AlertsFit
<1>4. Complete(cooling)
  BY <1>1, AlertsAssumption DEF Complete, ListFits
<1>5. \A p \in Analysts : ~Busy(p)
  BY <1>1, <1>2 DEF Busy
<1> QED
  BY <1>1, <1>3, <1>4, <1>5 DEF QuietInv, AtRestFits

LEMMA QuietStep == QuietInv /\ FewErrors /\ [LaNext]_laVars => QuietInv'
<1> SUFFICES ASSUME QuietInv, FewErrors, [LaNext]_laVars, orderly' PROVE QuietInv'
  BY DEF QuietInv
<1>1. orderly
  BY DEF LaNext, laVars, Analyse, StaysQuiet, Alerts, LookFree, LookTaken, TouchLock, ReadCooling, WriteTmp,
         RenameTmp, UnlinkLock, Post, Killed, Minute
<1>2. ASSUME NEW p \in Analysts, NEW f \in LogFiles, NEW n \in P0Counts, Analyse(p, f, n) PROVE QuietInv'
  BY <1>1, <1>2, AnalyseKeeps
<1>3. ASSUME NEW p \in Analysts, Alerts(p) PROVE QuietInv'
  BY <1>1, <1>3, AlertKeeps
<1>4. ASSUME NEW p \in Analysts, LookFree(p) \/ LookTaken(p) \/ TouchLock(p) \/ ReadCooling(p) PROVE QuietInv'
  BY <1>1, <1>4, SaveKeeps
<1>5. ASSUME NEW p \in Analysts,
             \/ StaysQuiet(p) \/ WriteTmp(p) \/ RenameTmp(p) \/ UnlinkLock(p)
             \/ \E answer \in {"final", "again"} : Post(p, answer)
      PROVE  QuietInv'
  BY <1>1, <1>5, FinishKeeps
<1>6. ASSUME NEW p \in Analysts, Killed(p) PROVE QuietInv'
  BY <1>6 DEF Killed
<1>7. CASE Minute
  BY <1>1, <1>7, MinuteKeeps
<1>8. CASE UNCHANGED laVars
  <2>1. UNCHANGED <<now, cooling, tmpFile, lockFile, analyst, alerts, orderly, runs>>
    BY <1>8 DEF laVars
  <2>2. LaType /\ AlertsFit /\ (\A s : Complete(s) <=> Complete(s)') /\ (\A error : Awaits(error) <=> Awaits(error)')
    BY <1>1, <2>1, ListsStand DEF QuietInv, Awaits, ListFits, Known, Warm, AlertedSince
  <2>3. LaType' /\ AlertsFit'
    BY <2>1, <2>2, ListsStand DEF LaType
  <2>4. \A p \in Analysts : (Busy(p) <=> Busy(p)') /\ (AnalystFits(p) => AnalystFits(p)')
    BY <2>1, <2>2 DEF Busy, AnalystFits
  <2>5. AtRestFits => AtRestFits'
    BY <2>1, <2>2 DEF AtRestFits
  <2> QED
    BY <1>1, <2>3, <2>4, <2>5 DEF QuietInv
<1> QED
  BY <1>2, <1>3, <1>4, <1>5, <1>6, <1>7, <1>8 DEF LaNext

\* While analyses follow one another and none is killed, an error of a file is alerted
\* once in the cooldown and no lock and no temporary file stays behind (send_alert of
\* log_analyzer.py), for any files, counts, cooldown and size of the file, as long as
\* no more different errors are alerted within a cooldown than the file keeps entries:
\* the list is cut at KeptEntries, 20 in the code, and knows of no more.
THEOREM WindowStaysQuiet == LaInit /\ [][LaNext]_laVars /\ []FewErrors => []QuietWindow
<1>1. LaInit => QuietInv
  BY QuietStart
<1>2. QuietInv /\ FewErrors /\ [LaNext]_laVars => QuietInv'
  BY QuietStep
<1>3. QuietInv => QuietWindow
  BY InvIsQuiet
<1> QED
  BY <1>1, <1>2, <1>3, PTL

-----------------------------------------------------------------------------
(* The vectors of texts.                                                     *)

VecType == [text : Texts, model : Models] \cup {ZeroVec}
IdleWork == [at |-> "idle", texts |-> <<>>]
WorkType == [provider : Providers, model : Models, texts : Seq(Texts), out : Seq(VecType),
             at : {"look", "fetch", "save", "done"}, hits : Seq(VecType \cup {NoRow}), got : Seq(VecType),
             tries : Nat, failed : BOOLEAN]
EcType ==
    /\ ecCache \in [Texts -> [model : Models, vec : VecType] \cup {NoRow}]
    /\ ecWork \in [Workers -> WorkType \cup {IdleWork}]

\* What may stand for a text in the result of a worker.
Own(t, m) == {Vec(t, m), ZeroVec}
CacheFits == \A t \in Texts : ecCache[t] # NoRow => ecCache[t].vec \in Own(t, ecCache[t].model)

\* The vectors a worker has are of its texts in their order; of the batch under way,
\* each place was a hit for its text, or is among the missing ones, and what has
\* been fetched stands at the number of its place among these.
OutFits(k) == /\ Len(k.out) <= Len(k.texts)
              /\ \A i \in 1 .. Len(k.out) : k.out[i] \in Own(k.texts[i], k.model)
HitsFit(k) == /\ Len(k.hits) = Len(Batch(k))
              /\ \A i \in 1 .. Len(k.hits) : k.hits[i] = NoRow \/ k.hits[i] \in Own(Batch(k)[i], k.model)
GotFits(k) == \A n \in 1 .. Len(k.got) : k.got[n] \in Own(Batch(k)[Missing(k.hits)[n]], k.model)
WorkFits(k) ==
    /\ OutFits(k)
    /\ k.at \in {"fetch", "save"} => HitsFit(k) /\ GotFits(k)
    /\ k.at = "fetch" => Len(k.got) < Len(Missing(k.hits))
    /\ k.at = "save" => Len(k.got) = Len(Missing(k.hits))
    /\ k.at = "look" => k.hits = <<>> /\ k.got = <<>>

\* With a service that answers lists, no zero vector is on its way to the cache.
AllLists == \A w \in Started : ecWork[w].provider = "openapi"
NoZero(vecs) == \A i \in 1 .. Len(vecs) : vecs[i] # ZeroVec
ZeroFits(k) == NoZero(k.hits) /\ NoZero(k.got) /\ (~NoZero(k.out) => k.failed)
CacheHasNoZero == \A t \in Texts : ecCache[t] # NoRow => ecCache[t].vec # ZeroVec
ZerosStay == AllLists => CacheHasNoZero /\ \A w \in Started : ZeroFits(ecWork[w])

EcInv == EcType /\ CacheFits /\ (\A w \in Started : WorkFits(ecWork[w])) /\ ZerosStay

LEMMA VecIsNotZero == \A t \in Texts, m \in Models : Vec(t, m) # ZeroVec /\ Vec(t, m) \in VecType
<1> SUFFICES ASSUME NEW t \in Texts, NEW m \in Models PROVE Vec(t, m) # ZeroVec /\ Vec(t, m) \in VecType
  OBVIOUS
<1>1. "text" \in DOMAIN Vec(t, m) /\ DOMAIN ZeroVec = {"zero"}
  BY DEF Vec, ZeroVec
<1>2. Vec(t, m) \in VecType
  BY DEF Vec, VecType
<1> QED
  BY <1>1, <1>2

LEMMA NoRowIsNotZero == NoRow # ZeroVec
<1>1. DOMAIN NoRow = {"none"} /\ DOMAIN ZeroVec = {"zero"}
  BY DEF NoRow, ZeroVec
<1> QED
  BY <1>1

LEMMA StartedIs == EcType => \A w \in Started : w \in Workers /\ ecWork[w] \in WorkType
BY DEF EcType, Started, IdleWork

LEMMA InvIsOwn == EcInv => VectorsAreOwn
<1> SUFFICES ASSUME EcInv PROVE VectorsAreOwn
  OBVIOUS
<1>1. \A w \in Started : ecWork[w] \in WorkType /\ WorkFits(ecWork[w])
  BY StartedIs DEF EcInv
<1>2. OwnVector
  BY <1>1 DEF OwnVector, WorkFits, OutFits, Own
<1>3. ZeroIsOwnFailure
  <2> SUFFICES ASSUME AllLists, NEW w \in Started, ZeroVec \in Range(ecWork[w].out) PROVE ecWork[w].failed
    BY DEF ZeroIsOwnFailure, AllLists
  <2>1. ecWork[w].out \in Seq(VecType)
    BY <1>1 DEF WorkType
  <2>2. ~NoZero(ecWork[w].out)
    BY <2>1 DEF NoZero, Range
  <2> QED
    BY <2>2 DEF EcInv, ZerosStay, ZeroFits
<1> QED
  BY <1>2, <1>3 DEF VectorsAreOwn

\* The missing places are the places without a hit, each of them.
MissesOf(hits, of, n) ==
    /\ of \in Seq(1 .. n)
    /\ \A j \in 1 .. Len(of) : hits[of[j]] = NoRow
    /\ \A i \in 1 .. n : hits[i] = NoRow => \E j \in 1 .. Len(of) : of[j] = i

LEMMA WithPlaceTyped ==
    ASSUME NEW hits, NEW T, NEW n \in T, NEW s \in Seq(T)
    PROVE  WithPlace(s, hits, n) \in Seq(T)
<1>1. Append(s, n) \in Seq(T)
  OBVIOUS
<1> QED
  BY <1>1 DEF WithPlace

LEMMA WithPlaceIs ==
    ASSUME NEW S, NEW hits \in Seq(S), NEW n \in 1 .. Len(hits), NEW s, MissesOf(hits, s, n - 1),
           NEW t, t = WithPlace(s, hits, n)
    PROVE  MissesOf(hits, t, n)
<1>0. n \in Nat
  OBVIOUS
<1>1. /\ s \in Seq(1 .. n - 1) /\ \A j \in 1 .. Len(s) : hits[s[j]] = NoRow
      /\ \A i \in 1 .. n - 1 : hits[i] = NoRow => \E j \in 1 .. Len(s) : s[j] = i
  BY DEF MissesOf
<1>2. s \in Seq(1 .. n)
  <2>1. \A j \in 1 .. Len(s) : s[j] \in 1 .. n
    BY <1>0, <1>1
  <2> QED
    BY <1>1, <2>1
<1>3. CASE hits[n] = NoRow
  <2>1. t = Append(s, n)
    BY <1>3 DEF WithPlace
  <2>2. /\ t \in Seq(1 .. n) /\ Len(t) = Len(s) + 1 /\ t[Len(s) + 1] = n /\ Len(s) \in Nat
        /\ \A j \in 1 .. Len(s) : t[j] = s[j]
    BY <1>0, <1>2, <2>1
  <2>3. \A j \in 1 .. Len(t) : j = Len(s) + 1 \/ j \in 1 .. Len(s)
    BY <2>2
  <2>4. \A j \in 1 .. Len(t) : hits[t[j]] = NoRow
    BY <1>1, <1>3, <2>2, <2>3
  <2>5. ASSUME NEW i \in 1 .. n, hits[i] = NoRow PROVE \E j \in 1 .. Len(t) : t[j] = i
    <3>1. CASE i = n
      BY <2>2, <3>1
    <3>2. CASE i # n
      <4>1. i \in 1 .. n - 1
        BY <1>0, <3>2
      <4>2. PICK j \in 1 .. Len(s) : s[j] = i
        BY <1>1, <2>5, <4>1
      <4> QED
        BY <2>2, <4>2
    <3> QED
      BY <3>1, <3>2
  <2>6. \A i \in 1 .. n : hits[i] = NoRow => \E j \in 1 .. Len(t) : t[j] = i
    BY <2>5
  <2>7. t \in Seq(1 .. n)
    BY <2>2
  <2> QED
    BY <2>7, <2>4, <2>6 DEF MissesOf
<1>4. CASE hits[n] # NoRow
  <2>1. t = s
    BY <1>4 DEF WithPlace
  <2>2. ASSUME NEW i \in 1 .. n, hits[i] = NoRow PROVE \E j \in 1 .. Len(s) : s[j] = i
    <3>1. i \in 1 .. n - 1
      BY <1>0, <1>4, <2>2
    <3> QED
      BY <1>1, <2>2, <3>1
  <2>3. \A i \in 1 .. n : hits[i] = NoRow => \E j \in 1 .. Len(s) : s[j] = i
    BY <2>2
  <2> QED
    BY <1>1, <1>2, <2>1, <2>3 DEF MissesOf
<1> QED
  BY <1>3, <1>4

LEMMA MissingIs ==
    ASSUME NEW S, NEW hits \in Seq(S)
    PROVE  MissesOf(hits, Missing(hits), Len(hits))
<1> DEFINE N == Len(hits)
           V == Seq(1 .. N)
           Fcn(f) == [n \in 0 .. N |-> IF n = 0 THEN <<>> ELSE WithPlace(f[n - 1], hits, n)]
           of == CHOOSE f : f = Fcn(f)
           step == [p \in (1 .. N) \X V |-> WithPlace(p[2], hits, p[1])]
           Holds == {n \in 0 .. N : MissesOf(hits, of[n], n)}
<1>0. N \in Nat /\ <<>> \in V
  OBVIOUS
<1>1. step \in [(1 .. N) \X V -> V]
  BY WithPlaceTyped
<1>2. PICK g : Walks(g, V, <<>>, N, step)
  <2> HIDE DEF step, N, V
  <2> QED
    BY <1>0, <1>1, Recursion
<1>3. g = Fcn(g)
  <2>1. \A i \in 1 .. N : g[i] = WithPlace(g[i - 1], hits, i)
    <3>1. \A i \in 1 .. N, x \in V : step[<<i, x>>] = WithPlace(x, hits, i)
      OBVIOUS
    <3> HIDE DEF step, N, V
    <3>2. ASSUME NEW i \in 1 .. N PROVE i - 1 \in 0 .. N /\ g[i - 1] \in V
      BY <1>0, <1>2 DEF Walks
    <3> QED
      BY <1>2, <3>1, <3>2 DEF Walks
  <2>2. DOMAIN g = 0 .. N /\ g = [i \in 0 .. N |-> g[i]] /\ g[0] = <<>>
    BY <1>2 DEF Walks
  <2> QED
    BY <1>0, <2>1, <2>2
<1>4. of = Fcn(of)
  <2> HIDE DEF Fcn
  <2> QED
    BY <1>3
<1>5. of[0] = <<>> /\ \A i \in 1 .. N : of[i] = WithPlace(of[i - 1], hits, i)
  <2> HIDE DEF of
  <2> QED
    BY <1>0, <1>4
<1> HIDE DEF of
<1>6. 0 \in Holds
  <2>1. MissesOf(hits, <<>>, 0)
    BY DEF MissesOf
  <2> QED
    BY <1>0, <1>5, <2>1
<1>7. \A n \in 1 .. N : n - 1 \in Holds => n \in Holds
  <2> SUFFICES ASSUME NEW n \in 1 .. N, n - 1 \in Holds PROVE n \in Holds
    OBVIOUS
  <2>1. MissesOf(hits, of[n - 1], n - 1) /\ of[n] = WithPlace(of[n - 1], hits, n) /\ n \in 0 .. N
    BY <1>0, <1>5
  <2>2. MissesOf(hits, of[n], n)
    BY <2>1, WithPlaceIs
  <2> QED
    BY <2>1, <2>2
<1>8. N \in Holds
  <2> HIDE DEF Holds, N
  <2> QED
    BY <1>0, <1>6, <1>7, InductionUpTo
<1>9. Missing(hits) = of[N]
  BY DEF Missing, of
<1> QED
  BY <1>8, <1>9

LEMMA BatchIs ==
    ASSUME NEW k \in WorkType, Len(k.out) <= Len(k.texts)
    PROVE  /\ Batch(k) \in Seq(Texts)
           /\ Len(k.out) + Len(Batch(k)) <= Len(k.texts)
           /\ \A i \in 1 .. Len(Batch(k)) : Batch(k)[i] = k.texts[Len(k.out) + i]
<1>1. PICK s, m, d : s = k.texts /\ m = Len(k.out) /\ d = (IF Len(k.texts) - Len(k.out) < VectorBatch THEN Len(k.texts) - Len(k.out) ELSE VectorBatch)
  OBVIOUS
<1>2. s \in Seq(Texts) /\ k.out \in Seq(VecType) /\ VectorBatch \in Nat
  BY <1>1, CacheAssumption DEF WorkType
<1>3. m \in Nat /\ Len(s) \in Nat /\ d \in Nat /\ m + d <= Len(s)
  <2>1. PICK a : a = Len(s)
    OBVIOUS
  <2>2. a \in Nat /\ m \in Nat /\ m <= a
    BY <1>1, <1>2, <2>1
  <2>3. d = IF a - m < VectorBatch THEN a - m ELSE VectorBatch
    BY <1>1, <2>1
  <2>4. d \in Nat /\ m + d <= a
    BY <1>2, <2>2, <2>3
  <2> QED
    BY <2>1, <2>2, <2>4
<1>4. Batch(k) = SubSeq(s, m + 1, m + d)
  BY <1>1 DEF Batch
<1>5. \A i \in m + 1 .. m + d : s[i] \in Texts
  BY <1>2, <1>3
<1>6. Batch(k) = [i \in 1 .. d |-> s[m + i]]
  BY <1>2, <1>3, <1>4
<1>7. \A i \in 1 .. d : s[m + i] \in Texts
  BY <1>2, <1>3
<1>8. Batch(k) \in Seq(Texts) /\ Len(Batch(k)) = d
  BY <1>3, <1>6, <1>7
<1> QED
  BY <1>1, <1>3, <1>6, <1>8

LEMMA ConcatIs ==
    \A a, b \in Seq(VecType) :
           /\ a \o b \in Seq(VecType) /\ Len(a \o b) = Len(a) + Len(b)
           /\ \A i \in 1 .. Len(a) + Len(b) : (a \o b)[i] = IF i <= Len(a) THEN a[i] ELSE b[i - Len(a)]
OBVIOUS

Join(k, vecs, f) == [Joined(k, vecs) EXCEPT !.failed = f]

\* Vectors of the batch, each of its text, may join the result.
LEMMA JoinedFits ==
    ASSUME NEW k \in WorkType, OutFits(k), NEW vecs \in Seq(VecType), Len(vecs) = Len(Batch(k)),
           \A i \in 1 .. Len(vecs) : vecs[i] \in Own(Batch(k)[i], k.model), NEW f \in BOOLEAN,
           NEW j, j = Join(k, vecs, f)
    PROVE  /\ j \in WorkType /\ WorkFits(j)
           /\ j.provider = k.provider /\ j.model = k.model /\ j.failed = f /\ j.out = k.out \o vecs
           /\ j.hits = <<>> /\ j.got = <<>>
<1>1. PICK out, at : /\ out = k.out \o vecs
                     /\ at = IF Len(k.out) + Len(vecs) < Len(k.texts) THEN "look" ELSE "done"
  OBVIOUS
<1>2. j = [k EXCEPT !.out = out, !.hits = <<>>, !.got = <<>>, !.tries = 0, !.at = at, !.failed = f]
  BY <1>1 DEF Join, Joined, WorkType
<1>3. /\ j.provider = k.provider /\ j.model = k.model /\ j.texts = k.texts /\ j.failed = f /\ j.out = out
      /\ j.hits = <<>> /\ j.got = <<>> /\ j.tries = 0 /\ j.at = at
  BY <1>2 DEF WorkType
<1>4. k.out \in Seq(VecType) /\ k.texts \in Seq(Texts) /\ Len(k.out) <= Len(k.texts)
  BY DEF WorkType, OutFits
<1>5. /\ out \in Seq(VecType) /\ Len(out) = Len(k.out) + Len(vecs)
      /\ \A i \in 1 .. Len(out) : out[i] = IF i <= Len(k.out) THEN k.out[i] ELSE vecs[i - Len(k.out)]
  <2>1. PICK a : a = k.out /\ a \in Seq(VecType)
    BY <1>4
  <2>2. /\ a \o vecs \in Seq(VecType) /\ Len(a \o vecs) = Len(a) + Len(vecs)
        /\ \A i \in 1 .. Len(a) + Len(vecs) : (a \o vecs)[i] = IF i <= Len(a) THEN a[i] ELSE vecs[i - Len(a)]
    BY <2>1, ConcatIs
  <2>3. PICK o : o = a \o vecs
    OBVIOUS
  <2>4. out = o
    BY <1>1, <2>1, <2>3
  <2> QED
    BY <2>1, <2>2, <2>3, <2>4
<1>6. j \in WorkType
  <2>1. at \in {"look", "done"} /\ <<>> \in Seq(VecType) /\ <<>> \in Seq(VecType \cup {NoRow}) /\ 0 \in Nat
    BY <1>1
  <2>2. out \in Seq(VecType)
    BY <1>5
  <2> QED
    BY <1>2, <2>1, <2>2 DEF WorkType
<1>7. Len(out) <= Len(k.texts)
  BY <1>4, <1>5, BatchIs
<1>8. ASSUME NEW i \in 1 .. Len(out) PROVE out[i] \in Own(k.texts[i], k.model)
  <2>1. CASE i <= Len(k.out)
    BY <1>4, <1>5, <2>1 DEF OutFits
  <2>2. CASE ~(i <= Len(k.out))
    <3>1. PICK n : n = i - Len(k.out)
      OBVIOUS
    <3>2. n \in 1 .. Len(vecs) /\ i = Len(k.out) + n
      BY <1>4, <1>5, <2>2, <3>1
    <3>3. Batch(k)[n] = k.texts[Len(k.out) + n]
      BY <1>4, <3>2, BatchIs
    <3> QED
      BY <1>5, <2>2, <3>1, <3>2, <3>3
  <2> QED
    BY <2>1, <2>2
<1>9. OutFits(j)
  BY <1>3, <1>7, <1>8 DEF OutFits
<1>10. WorkFits(j)
  BY <1>1, <1>3, <1>9 DEF WorkFits
<1> QED
  BY <1>1, <1>3, <1>6, <1>10

\* The same when the worker goes on with a success.
LEMMA JoinedIs == ASSUME NEW k \in WorkType, NEW vecs PROVE Joined(k, vecs) = Join(k, vecs, k.failed)
BY DEF Join, Joined, WorkType

\* No zero vector comes with them.
LEMMA JoinedHasNoZero ==
    ASSUME NEW k \in WorkType, ZeroFits(k), NEW vecs \in Seq(VecType), NoZero(vecs), ~NoZero(k.out \o vecs)
    PROVE  k.failed
<1>1. k.out \in Seq(VecType)
  BY DEF WorkType
<1>2. PICK i \in 1 .. Len(k.out \o vecs) : (k.out \o vecs)[i] = ZeroVec
  BY DEF NoZero
<1>3. CASE i <= Len(k.out)
  <2>1. i \in 1 .. Len(k.out) /\ k.out[i] = ZeroVec
    BY <1>1, <1>2, <1>3
  <2> QED
    BY <2>1 DEF ZeroFits, NoZero
<1>4. CASE ~(i <= Len(k.out))
  <2>1. i - Len(k.out) \in 1 .. Len(vecs) /\ vecs[i - Len(k.out)] = ZeroVec
    BY <1>1, <1>2, <1>4
  <2> QED
    BY <2>1 DEF NoZero
<1> QED
  BY <1>3, <1>4

\* A step of a worker that leaves these true of itself and of the cache keeps all.
CacheType == ecCache \in [Texts -> [model : Models, vec : VecType] \cup {NoRow}]
LEMMA WorkKeeps ==
    ASSUME NEW w \in Workers, NEW k \in WorkType, WorkFits(k)
    PROVE  /\ EcInv /\ Work(w, k) /\ CacheType' /\ CacheFits'
           /\ (w \in Started => k.provider = ecWork[w].provider)
           /\ (AllLists /\ k.provider = "openapi" => ZeroFits(k) /\ CacheHasNoZero')
           => EcInv'
<1> SUFFICES ASSUME EcInv, Work(w, k), CacheType', CacheFits', w \in Started => k.provider = ecWork[w].provider,
                    AllLists /\ k.provider = "openapi" => ZeroFits(k) /\ CacheHasNoZero'
             PROVE  EcInv'
  OBVIOUS
<1>1. ecWork \in [Workers -> WorkType \cup {IdleWork}] /\ k.at # "idle"
  BY DEF EcInv, EcType, WorkType
<1>2. ecWork' \in [Workers -> WorkType \cup {IdleWork}] /\ ecWork'[w] = k /\ \A v \in Workers \ {w} : ecWork'[v] = ecWork[v]
  BY <1>1 DEF Work
<1>3. Started' = Started \cup {w}
  BY <1>1, <1>2 DEF Started
<1>4. EcType'
  BY <1>2 DEF EcType, CacheType
<1>5. ASSUME NEW v \in Started' PROVE WorkFits(ecWork'[v])
  <2>1. CASE v = w
    BY <1>2, <2>1
  <2>2. CASE v # w
    BY <1>2, <1>3, <1>5, <2>2 DEF EcInv, Started
  <2> QED
    BY <2>1, <2>2
<1>6. ASSUME AllLists' PROVE CacheHasNoZero' /\ \A v \in Started' : ZeroFits(ecWork'[v])
  <2>1. k.provider = "openapi"
    BY <1>2, <1>3, <1>6 DEF AllLists
  <2>2. ASSUME NEW v \in Started PROVE ecWork[v].provider = "openapi"
    <3>1. CASE v = w
      BY <2>1, <2>2, <3>1
    <3>2. CASE v # w
      <4>1. v \in Workers \ {w} /\ v \in Started'
        BY <1>3, <2>2, <3>2 DEF Started
      <4> QED
        BY <1>2, <1>6, <4>1 DEF AllLists
    <3> QED
      BY <3>1, <3>2
  <2>3. AllLists
    BY <2>2 DEF AllLists
  <2>4. \A v \in Started : ZeroFits(ecWork[v])
    BY <2>3 DEF EcInv, ZerosStay
  <2>5. ASSUME NEW v \in Started' PROVE ZeroFits(ecWork'[v])
    <3>1. CASE v = w
      BY <1>2, <2>1, <2>3, <3>1
    <3>2. CASE v # w
      BY <1>2, <1>3, <2>4, <2>5, <3>2 DEF Started
    <3> QED
      BY <3>1, <3>2
  <2> QED
    BY <2>1, <2>3, <2>5
<1>7. \A v \in Started' : WorkFits(ecWork'[v])
  BY <1>5
<1>8. ZerosStay'
  BY <1>6 DEF ZerosStay
<1> QED
  BY <1>4, <1>7, <1>8 DEF EcInv

LEMMA BeginKeeps == EcInv => \A w \in Workers : Begin(w) => EcInv'
<1> SUFFICES ASSUME EcInv, NEW w \in Workers, Begin(w) PROVE EcInv'
  OBVIOUS
<1>1. PICK p \in Providers, m \in Models, ts \in SeqOf(Texts, MaxTexts) \ {<<>>} :
        Work(w, [provider |-> p, model |-> m, texts |-> ts, out |-> <<>>, at |-> "look",
                 hits |-> <<>>, got |-> <<>>, tries |-> 0, failed |-> FALSE])
  BY DEF Begin, Work
<1>2. PICK k : k = [provider |-> p, model |-> m, texts |-> ts, out |-> <<>>, at |-> "look",
                    hits |-> <<>>, got |-> <<>>, tries |-> 0, failed |-> FALSE]
  OBVIOUS
<1>3. ts \in Seq(Texts)
  BY CacheAssumption DEF SeqOf
<1>4. k \in WorkType
  BY <1>2, <1>3 DEF WorkType
<1>5. WorkFits(k) /\ ZeroFits(k)
  BY <1>2, <1>3 DEF WorkFits, OutFits, ZeroFits, NoZero
<1>6. ecCache' = ecCache /\ w \notin Started
  BY DEF Begin, Started
<1>7. CacheType' /\ CacheFits'
  BY <1>6 DEF EcInv, EcType, CacheType, CacheFits
<1>8. AllLists => CacheHasNoZero'
  BY <1>6 DEF EcInv, ZerosStay, CacheHasNoZero
<1> QED
  BY <1>1, <1>2, <1>4, <1>5, <1>6, <1>7, <1>8, WorkKeeps

\* What holds of a worker that is fetching or saving.
LEMMA BatchUnderWay ==
    ASSUME NEW k \in WorkType, WorkFits(k), k.at \in {"fetch", "save"}, NEW missing, missing = Missing(k.hits)
    PROVE  /\ Len(k.out) <= Len(k.texts) /\ Batch(k) \in Seq(Texts) /\ Len(k.hits) = Len(Batch(k))
           /\ MissesOf(k.hits, missing, Len(k.hits)) /\ missing \in Seq(1 .. Len(k.hits))
           /\ \A n \in 1 .. Len(missing) : missing[n] \in 1 .. Len(k.hits) /\ Batch(k)[missing[n]] \in Texts
<1>1. Len(k.out) <= Len(k.texts) /\ Len(k.hits) = Len(Batch(k))
  BY DEF WorkFits, OutFits, HitsFit
<1>2. Batch(k) \in Seq(Texts)
  BY <1>1, BatchIs
<1>3. k.hits \in Seq(VecType \cup {NoRow})
  BY DEF WorkType
<1>4. MissesOf(k.hits, missing, Len(k.hits))
  BY <1>3, MissingIs
<1>5. missing \in Seq(1 .. Len(k.hits))
  BY <1>4 DEF MissesOf
<1>6. \A n \in 1 .. Len(missing) : missing[n] \in 1 .. Len(k.hits)
  BY <1>5
<1>7. \A i \in 1 .. Len(k.hits) : Batch(k)[i] \in Texts
  BY <1>1, <1>2
<1> QED
  BY <1>1, <1>2, <1>4, <1>5, <1>6, <1>7

LEMMA StepFits ==
    ASSUME EcInv, NEW w \in Workers, ecWork[w].at # "idle"
    PROVE  /\ w \in Started /\ ecWork[w] \in WorkType /\ WorkFits(ecWork[w])
           /\ AllLists => ZeroFits(ecWork[w]) /\ CacheHasNoZero
           /\ CacheType /\ CacheFits
BY StartedIs DEF EcInv, EcType, ZerosStay, Started, CacheType

LEMMA LookUpKeeps == EcInv => \A w \in Workers : LookUp(w) => EcInv'
<1> SUFFICES ASSUME EcInv, NEW w \in Workers, LookUp(w) PROVE EcInv'
  OBVIOUS
<1>1. PICK k : k = ecWork[w]
  OBVIOUS
<1>2. k.at = "look" /\ ecCache' = ecCache
  BY <1>1 DEF LookUp
<1>3. /\ w \in Started /\ k \in WorkType /\ WorkFits(k) /\ CacheType /\ CacheFits
      /\ AllLists => ZeroFits(k) /\ CacheHasNoZero
  BY <1>1, <1>2, StepFits
<1>r. PICK read \in BOOLEAN :
        LET hits == [i \in 1 .. Len(Batch(k)) |-> IF read THEN Hit(Batch(k)[i], k.model) ELSE NoRow]
        IN Work(w, IF NoRow \in Range(hits) THEN [k EXCEPT !.at = "fetch", !.hits = hits] ELSE Joined(k, hits))
  BY <1>1 DEF LookUp
<1>4. PICK hits :
        /\ hits = [i \in 1 .. Len(Batch(k)) |-> IF read THEN Hit(Batch(k)[i], k.model) ELSE NoRow]
        /\ Work(w, IF NoRow \in Range(hits) THEN [k EXCEPT !.at = "fetch", !.hits = hits] ELSE Joined(k, hits))
  BY <1>r
<1>5. OutFits(k) /\ k.hits = <<>> /\ k.got = <<>>
  BY <1>2, <1>3 DEF WorkFits
<1>6. Len(k.out) <= Len(k.texts) /\ Batch(k) \in Seq(Texts) /\ k.model \in Models
  BY <1>3, <1>5, BatchIs DEF OutFits, WorkType
<1>7. ASSUME NEW t \in Texts
      PROVE  Hit(t, k.model) = NoRow \/ (/\ Hit(t, k.model) \in VecType /\ Hit(t, k.model) \in Own(t, k.model)
                                         /\ (AllLists => Hit(t, k.model) # ZeroVec))
  <2>1. CASE ecCache[t] # NoRow /\ ecCache[t].model = k.model
    <3>1. Hit(t, k.model) = ecCache[t].vec
      BY <2>1 DEF Hit
    <3>2. ecCache[t] \in [model : Models, vec : VecType]
      BY <1>3, <2>1 DEF CacheType
    <3> QED
      BY <1>3, <2>1, <3>1, <3>2 DEF CacheFits, CacheHasNoZero
  <2>2. CASE ~(ecCache[t] # NoRow /\ ecCache[t].model = k.model)
    BY <2>2 DEF Hit
  <2> QED
    BY <2>1, <2>2
<1>8. /\ Len(hits) = Len(Batch(k)) /\ DOMAIN hits = 1 .. Len(hits)
      /\ \A i \in 1 .. Len(hits) : hits[i] = NoRow \/ (/\ hits[i] \in VecType /\ hits[i] \in Own(Batch(k)[i], k.model)
                                                       /\ (AllLists => hits[i] # ZeroVec))
  <2>1. Len(hits) = Len(Batch(k)) /\ DOMAIN hits = 1 .. Len(Batch(k))
    BY <1>4, <1>6
  <2>2. ASSUME NEW i \in 1 .. Len(Batch(k))
        PROVE  hits[i] = NoRow \/ hits[i] = Hit(Batch(k)[i], k.model)
    BY <1>4
  <2>3. \A i \in 1 .. Len(Batch(k)) : Batch(k)[i] \in Texts
    BY <1>6
  <2> QED
    BY <1>7, <2>1, <2>2, <2>3
<1>9. hits \in Seq(VecType \cup {NoRow})
  <2>1. \A i \in 1 .. Len(Batch(k)) : hits[i] \in VecType \cup {NoRow}
    BY <1>8
  <2>2. PICK n : n = Len(Batch(k)) /\ n \in Nat
    BY <1>6
  <2>3. hits = [i \in 1 .. n |-> hits[i]]
    BY <1>4, <2>2
  <2> QED
    BY <2>1, <2>2, <2>3
<1>10. CacheType' /\ CacheFits' /\ (AllLists => CacheHasNoZero')
  BY <1>2, <1>3 DEF CacheType, CacheFits, CacheHasNoZero
<1>11. CASE NoRow \in Range(hits)
  <2>1. PICK j : j = [k EXCEPT !.at = "fetch", !.hits = hits]
    OBVIOUS
  <2>2. j \in WorkType
    BY <1>3, <1>9, <2>1 DEF WorkType
  <2>3. /\ j.at = "fetch" /\ j.hits = hits /\ j.got = <<>> /\ j.out = k.out /\ j.texts = k.texts
        /\ j.model = k.model /\ j.provider = k.provider /\ j.failed = k.failed
    BY <1>3, <1>5, <2>1 DEF WorkType
  <2>4. Batch(j) = Batch(k)
    BY <2>3 DEF Batch
  <2>5. OutFits(j) /\ HitsFit(j) /\ GotFits(j)
    BY <1>5, <1>8, <2>3, <2>4 DEF OutFits, HitsFit, GotFits
  <2>6. Len(Missing(hits)) > 0
    <3>1. PICK i \in 1 .. Len(hits) : hits[i] = NoRow
      BY <1>8, <1>11 DEF Range
    <3>2. MissesOf(hits, Missing(hits), Len(hits))
      BY <1>9, MissingIs
    <3>3. \E n \in 1 .. Len(Missing(hits)) : Missing(hits)[n] = i
      BY <3>1, <3>2 DEF MissesOf
    <3>4. Missing(hits) \in Seq(1 .. Len(hits))
      BY <3>2 DEF MissesOf
    <3> QED
      BY <3>3, <3>4
  <2>7. WorkFits(j)
    BY <2>3, <2>5, <2>6 DEF WorkFits
  <2>8. AllLists => ZeroFits(j)
    BY <1>3, <1>8, <2>3, NoRowIsNotZero DEF ZeroFits, NoZero
  <2>9. Work(w, j)
    BY <1>4, <1>11, <2>1
  <2> QED
    BY <1>1, <1>3, <1>10, <2>2, <2>3, <2>7, <2>8, <2>9, WorkKeeps
<1>12. CASE NoRow \notin Range(hits)
  <2>1. \A i \in 1 .. Len(hits) : hits[i] # NoRow
    BY <1>8, <1>12 DEF Range
  <2>2. hits \in Seq(VecType)
    BY <1>8, <1>9, <2>1
  <2>3. PICK j : j = Joined(k, hits) /\ j = Join(k, hits, k.failed)
    BY <1>3, JoinedIs
  <2>4. /\ Len(hits) = Len(Batch(k)) /\ k.failed \in BOOLEAN
        /\ \A i \in 1 .. Len(hits) : hits[i] \in Own(Batch(k)[i], k.model)
    BY <1>3, <1>8, <2>1 DEF WorkType
  <2>5. /\ j \in WorkType /\ WorkFits(j) /\ j.provider = k.provider /\ j.failed = k.failed
        /\ j.out = k.out \o hits /\ j.hits = <<>> /\ j.got = <<>>
    BY <1>3, <1>5, <2>2, <2>3, <2>4, JoinedFits
  <2>6. AllLists => ZeroFits(j)
    <3> SUFFICES ASSUME AllLists PROVE ZeroFits(j)
      OBVIOUS
    <3>1. NoZero(hits)
      BY <1>8, <2>1 DEF NoZero
    <3>2. ~NoZero(k.out \o hits) => k.failed
      BY <1>3, <2>2, <3>1, JoinedHasNoZero
    <3> QED
      BY <2>5, <3>2 DEF ZeroFits, NoZero
  <2>7. Work(w, j)
    BY <1>4, <1>12, <2>3
  <2> QED
    BY <1>1, <1>3, <1>10, <2>5, <2>6, <2>7, WorkKeeps
<1> QED
  BY <1>11, <1>12

\* A request is made again.
LEMMA AgainKeeps ==
    \A w \in Workers :
       EcInv /\ ecWork[w].at = "fetch" /\ ecCache' = ecCache /\ Work(w, [ecWork[w] EXCEPT !.tries = @ + 1]) => EcInv'
<1> SUFFICES ASSUME EcInv, NEW w \in Workers, ecWork[w].at = "fetch", ecCache' = ecCache,
                    Work(w, [ecWork[w] EXCEPT !.tries = @ + 1])
             PROVE  EcInv'
  OBVIOUS
<1>1. PICK k : k = ecWork[w]
  OBVIOUS
<1>2. /\ w \in Started /\ k \in WorkType /\ WorkFits(k) /\ CacheType /\ CacheFits
      /\ AllLists => ZeroFits(k) /\ CacheHasNoZero
  BY <1>1, StepFits
<1>3. PICK j : j = [k EXCEPT !.tries = @ + 1]
  OBVIOUS
<1>4. /\ j.at = k.at /\ j.got = k.got /\ j.hits = k.hits /\ j.out = k.out /\ j.texts = k.texts
      /\ j.model = k.model /\ j.provider = k.provider /\ j.failed = k.failed /\ j \in WorkType
  <2>1. PICK more : more = k.tries + 1 /\ more \in Nat
    BY <1>2 DEF WorkType
  <2>2. j = [k EXCEPT !.tries = more]
    BY <1>3, <2>1
  <2> QED
    BY <1>2, <2>1, <2>2 DEF WorkType
<1>5. Batch(j) = Batch(k)
  BY <1>4 DEF Batch
<1>6. WorkFits(j) /\ (AllLists => ZeroFits(j))
  BY <1>2, <1>4, <1>5 DEF WorkFits, OutFits, HitsFit, GotFits, ZeroFits
<1>7. CacheType' /\ CacheFits' /\ (AllLists => CacheHasNoZero')
  BY <1>2 DEF CacheType, CacheFits, CacheHasNoZero
<1>8. Work(w, j)
  BY <1>1, <1>3
<1> QED
  BY <1>1, <1>2, <1>4, <1>6, <1>7, <1>8, WorkKeeps

LEMMA AskListKeeps == EcInv => \A w \in Workers : AskList(w) => EcInv'
<1> SUFFICES ASSUME EcInv, NEW w \in Workers, AskList(w) PROVE EcInv'
  OBVIOUS
<1>1. PICK k, missing : k = ecWork[w] /\ missing = Missing(k.hits)
  OBVIOUS
<1>2. k.at = "fetch" /\ ecCache' = ecCache
  BY <1>1 DEF AskList
<1>3. /\ w \in Started /\ k \in WorkType /\ WorkFits(k) /\ CacheType /\ CacheFits
      /\ AllLists => ZeroFits(k) /\ CacheHasNoZero
  BY <1>1, <1>2, StepFits
<1>4. CacheType' /\ CacheFits' /\ (AllLists => CacheHasNoZero')
  BY <1>2, <1>3 DEF CacheType, CacheFits, CacheHasNoZero
<1>5. OutFits(k) /\ HitsFit(k) /\ GotFits(k) /\ Len(k.got) < Len(missing)
  BY <1>1, <1>2, <1>3 DEF WorkFits
<1>6. /\ Len(k.out) <= Len(k.texts) /\ Batch(k) \in Seq(Texts) /\ Len(k.hits) = Len(Batch(k))
      /\ missing \in Seq(1 .. Len(k.hits))
      /\ \A n \in 1 .. Len(missing) : missing[n] \in 1 .. Len(k.hits) /\ Batch(k)[missing[n]] \in Texts
  BY <1>1, <1>2, <1>3, BatchUnderWay
<1>7. k.model \in Models
  BY <1>3 DEF WorkType
<1>8. \/ Work(w, [k EXCEPT !.at = "save", !.got = [i \in 1 .. Len(missing) |-> Vec(Batch(k)[missing[i]], k.model)]])
      \/ k.tries + 1 < Tries /\ Work(w, [k EXCEPT !.tries = @ + 1])
      \/ Work(w, Abandon(k))
  BY <1>1 DEF AskList
<1>9. CASE Work(w, [k EXCEPT !.at = "save", !.got = [i \in 1 .. Len(missing) |-> Vec(Batch(k)[missing[i]], k.model)]])
  <2>1. PICK got : got = [i \in 1 .. Len(missing) |-> Vec(Batch(k)[missing[i]], k.model)]
    OBVIOUS
  <2>2. PICK j : j = [k EXCEPT !.at = "save", !.got = got]
    OBVIOUS
  <2>3. Len(got) = Len(missing) /\ \A i \in 1 .. Len(missing) : got[i] = Vec(Batch(k)[missing[i]], k.model)
    BY <1>6, <2>1
  <2>4. \A i \in 1 .. Len(missing) : got[i] \in VecType /\ got[i] # ZeroVec
    BY <1>6, <1>7, <2>3, VecIsNotZero
  <2>5. got \in Seq(VecType)
    <3>1. PICK n : n = Len(missing) /\ n \in Nat
      BY <1>6
    <3>2. got = [i \in 1 .. n |-> got[i]]
      BY <2>1, <3>1
    <3> QED
      BY <2>4, <3>1, <3>2
  <2>6. /\ j.at = "save" /\ j.got = got /\ j.hits = k.hits /\ j.out = k.out /\ j.texts = k.texts
        /\ j.model = k.model /\ j.provider = k.provider /\ j.failed = k.failed /\ j \in WorkType
    BY <1>3, <2>2, <2>5 DEF WorkType
  <2>7. Batch(j) = Batch(k)
    BY <2>6 DEF Batch
  <2>8. OutFits(j) /\ HitsFit(j) /\ GotFits(j)
    <3>1. OutFits(j)
      BY <1>5, <2>6 DEF OutFits, Own
    <3>2. HitsFit(j)
      BY <1>5, <2>6, <2>7 DEF HitsFit, Own
    <3>3. GotFits(j)
      <4> SUFFICES ASSUME NEW n \in 1 .. Len(j.got)
                   PROVE  j.got[n] \in Own(Batch(j)[Missing(j.hits)[n]], j.model)
        BY DEF GotFits
      <4>1. Missing(j.hits) = missing /\ j.got = got /\ n \in 1 .. Len(missing)
        BY <1>1, <2>3, <2>6
      <4>2. got[n] = Vec(Batch(k)[missing[n]], k.model)
        BY <2>3, <4>1
      <4>3. j.got[n] = Vec(Batch(j)[missing[n]], j.model)
        BY <2>6, <2>7, <4>1, <4>2
      <4> QED
        BY <4>1, <4>3 DEF Own
    <3> QED
      BY <3>1, <3>2, <3>3
  <2>9. WorkFits(j)
    BY <1>1, <2>3, <2>6, <2>8 DEF WorkFits
  <2>10. AllLists => ZeroFits(j)
    BY <1>3, <2>3, <2>4, <2>6 DEF ZeroFits, NoZero
  <2>11. Work(w, j)
    BY <1>9, <2>1, <2>2
  <2> QED
    BY <1>1, <1>3, <1>4, <2>6, <2>9, <2>10, <2>11, WorkKeeps
<1>10. CASE Work(w, [k EXCEPT !.tries = @ + 1])
  BY <1>1, <1>2, <1>3, <1>4, <1>10, AgainKeeps
<1>11. CASE Work(w, Abandon(k))
  <2>1. PICK zeros, f : zeros = Zeros(k) /\ f = TRUE
    OBVIOUS
  <2>2. Len(zeros) = Len(Batch(k)) /\ zeros \in Seq(VecType) /\ \A i \in 1 .. Len(zeros) : zeros[i] = ZeroVec
    <3>1. PICK n : n = Len(Batch(k)) /\ n \in Nat
      BY <1>6
    <3>2. zeros = [i \in 1 .. n |-> ZeroVec] /\ ZeroVec \in VecType
      BY <2>1, <3>1 DEF Zeros, VecType
    <3> QED
      BY <3>1, <3>2
  <2>3. PICK j : j = Abandon(k) /\ j = Join(k, zeros, f)
    BY <2>1 DEF Abandon, Join
  <2>4. f \in BOOLEAN /\ \A i \in 1 .. Len(zeros) : zeros[i] \in Own(Batch(k)[i], k.model)
    BY <2>1, <2>2 DEF Own
  <2>5. /\ j \in WorkType /\ WorkFits(j) /\ j.provider = k.provider /\ j.failed = f
        /\ j.hits = <<>> /\ j.got = <<>>
    BY <1>3, <1>5, <2>2, <2>3, <2>4, JoinedFits
  <2>6. ZeroFits(j)
    BY <2>1, <2>5 DEF ZeroFits, NoZero
  <2>7. Work(w, j)
    BY <1>11, <2>3
  <2> QED
    BY <1>1, <1>3, <1>4, <2>5, <2>6, <2>7, WorkKeeps
<1> QED
  BY <1>8, <1>9, <1>10, <1>11

LEMMA AskTextKeeps == EcInv => \A w \in Workers : AskText(w) => EcInv'
<1> SUFFICES ASSUME EcInv, NEW w \in Workers, AskText(w) PROVE EcInv'
  OBVIOUS
<1>1. PICK k, missing : k = ecWork[w] /\ missing = Missing(k.hits)
  OBVIOUS
<1>2. k.at = "fetch" /\ k.provider = "ascending" /\ ecCache' = ecCache
  BY <1>1 DEF AskText
<1>3. /\ w \in Started /\ k \in WorkType /\ WorkFits(k) /\ CacheType /\ CacheFits
      /\ AllLists => ZeroFits(k) /\ CacheHasNoZero
  BY <1>1, <1>2, StepFits
<1>4. CacheType' /\ CacheFits' /\ (AllLists => CacheHasNoZero')
  BY <1>2, <1>3 DEF CacheType, CacheFits, CacheHasNoZero
<1>5. OutFits(k) /\ HitsFit(k) /\ GotFits(k) /\ Len(k.got) < Len(missing)
  BY <1>1, <1>2, <1>3 DEF WorkFits
<1>6. /\ missing \in Seq(1 .. Len(k.hits)) /\ Len(k.hits) = Len(Batch(k))
      /\ \A n \in 1 .. Len(missing) : missing[n] \in 1 .. Len(k.hits) /\ Batch(k)[missing[n]] \in Texts
  BY <1>1, <1>2, <1>3, BatchUnderWay
<1>7. k.model \in Models /\ k.got \in Seq(VecType)
  BY <1>3 DEF WorkType
<1>8. PICK n : n = Len(k.got) + 1
  OBVIOUS
<1>9. PICK own : own = Vec(Batch(k)[missing[n]], k.model)
  OBVIOUS
<1>10. n \in 1 .. Len(missing) /\ own \in VecType /\ ZeroVec \in VecType
  <2>1. n \in 1 .. Len(missing)
    BY <1>5, <1>6, <1>7, <1>8
  <2> QED
    BY <1>6, <1>7, <1>9, <2>1, VecIsNotZero DEF VecType
<1>11. ASSUME NEW vec \in {own, ZeroVec}, NEW f \in BOOLEAN, NEW j,
              j = [k EXCEPT !.got = Append(@, vec), !.tries = 0, !.failed = f,
                            !.at = IF n = Len(missing) THEN "save" ELSE "fetch"]
       PROVE  j \in WorkType /\ WorkFits(j) /\ j.provider = k.provider
  <2>1. PICK got, at : got = Append(k.got, vec) /\ at = IF n = Len(missing) THEN "save" ELSE "fetch"
    OBVIOUS
  <2>2. j = [k EXCEPT !.got = got, !.tries = 0, !.failed = f, !.at = at]
    BY <1>3, <1>11, <2>1 DEF WorkType
  <2>3. vec \in VecType
    BY <1>10, <1>11
  <2>4. /\ got \in Seq(VecType) /\ Len(got) = n /\ got[n] = vec
        /\ \A i \in 1 .. Len(k.got) : got[i] = k.got[i]
    BY <1>7, <1>8, <2>1, <2>3
  <2>5. /\ j.at = at /\ j.got = got /\ j.hits = k.hits /\ j.out = k.out /\ j.texts = k.texts
        /\ j.model = k.model /\ j.provider = k.provider /\ j \in WorkType
    BY <1>3, <2>1, <2>2, <2>4 DEF WorkType
  <2>6. Batch(j) = Batch(k)
    BY <2>5 DEF Batch
  <2>7. ASSUME NEW i \in 1 .. Len(got) PROVE got[i] \in Own(Batch(k)[missing[i]], k.model)
    <3>1. i = n \/ i \in 1 .. Len(k.got)
      BY <1>7, <1>8, <2>4
    <3>2. CASE i = n
      BY <1>9, <1>11, <2>4, <3>2 DEF Own
    <3>3. CASE i \in 1 .. Len(k.got)
      BY <1>1, <1>5, <2>4, <3>3 DEF GotFits
    <3> QED
      BY <3>1, <3>2, <3>3
  <2>8. OutFits(j) /\ HitsFit(j) /\ GotFits(j)
    BY <1>1, <1>5, <2>5, <2>6, <2>7 DEF OutFits, HitsFit, GotFits
  <2>9. at = "save" => Len(got) = Len(missing)
    BY <2>1, <2>4
  <2>10. at = "fetch" => Len(got) < Len(missing)
    BY <1>6, <1>10, <2>1, <2>4
  <2>11. at # "look"
    BY <2>1
  <2>12. WorkFits(j)
    BY <1>1, <2>5, <2>8, <2>9, <2>10, <2>11 DEF WorkFits
  <2> QED
    BY <2>5, <2>12
<1>12. ASSUME NEW vec \in {own, ZeroVec}, NEW f \in BOOLEAN,
              Work(w, [k EXCEPT !.got = Append(@, vec), !.tries = 0, !.failed = f,
                                !.at = IF n = Len(missing) THEN "save" ELSE "fetch"])
       PROVE  EcInv'
  <2>1. PICK j : j = [k EXCEPT !.got = Append(@, vec), !.tries = 0, !.failed = f,
                               !.at = IF n = Len(missing) THEN "save" ELSE "fetch"]
    OBVIOUS
  <2>2. j \in WorkType /\ WorkFits(j) /\ j.provider = k.provider
    BY <1>11, <2>1
  <2>3. Work(w, j)
    BY <1>12, <2>1
  <2>4. j.provider # "openapi"
    BY <1>2, <2>2
  <2> QED
    BY <1>1, <1>3, <1>4, <2>2, <2>3, <2>4, WorkKeeps
<1>13. \/ Work(w, [k EXCEPT !.got = Append(@, own), !.tries = 0, !.failed = @ \/ own = ZeroVec,
                            !.at = IF n = Len(missing) THEN "save" ELSE "fetch"])
       \/ k.tries + 1 < Tries /\ Work(w, [k EXCEPT !.tries = @ + 1])
       \/ Work(w, [k EXCEPT !.got = Append(@, ZeroVec), !.tries = 0, !.failed = @ \/ ZeroVec = ZeroVec,
                            !.at = IF n = Len(missing) THEN "save" ELSE "fetch"])
  BY <1>1, <1>8, <1>9 DEF AskText
<1>14. CASE Work(w, [k EXCEPT !.tries = @ + 1])
  BY <1>1, <1>2, <1>3, <1>4, <1>14, AgainKeeps
<1>15. /\ [k EXCEPT !.got = Append(@, own), !.tries = 0, !.failed = @ \/ own = ZeroVec,
                    !.at = IF n = Len(missing) THEN "save" ELSE "fetch"]
          = [k EXCEPT !.got = Append(@, own), !.tries = 0, !.failed = k.failed \/ own = ZeroVec,
                      !.at = IF n = Len(missing) THEN "save" ELSE "fetch"]
       /\ [k EXCEPT !.got = Append(@, ZeroVec), !.tries = 0, !.failed = @ \/ ZeroVec = ZeroVec,
                    !.at = IF n = Len(missing) THEN "save" ELSE "fetch"]
          = [k EXCEPT !.got = Append(@, ZeroVec), !.tries = 0, !.failed = k.failed \/ ZeroVec = ZeroVec,
                      !.at = IF n = Len(missing) THEN "save" ELSE "fetch"]
  BY <1>3 DEF WorkType
<1>16. (k.failed \/ own = ZeroVec) \in BOOLEAN /\ (k.failed \/ ZeroVec = ZeroVec) \in BOOLEAN
  OBVIOUS
<1> QED
  BY <1>12, <1>13, <1>14, <1>15, <1>16

LEMMA LastOf ==
    ASSUME NEW n \in Nat, NEW P \in SUBSET (1 .. n), P # {}
    PROVE  \E i \in P : \A j \in (i + 1) .. n : j \notin P
<1> DEFINE T == {n - i : i \in P}
<1>1. T \in SUBSET Nat /\ T # {}
  <2>1. \A i \in P : i \in 1 .. n /\ n - i \in Nat
    OBVIOUS
  <2>2. PICK i \in P : TRUE
    OBVIOUS
  <2>3. n - i \in T
    BY <2>2
  <2> QED
    BY <2>1, <2>3
<1>2. PICK m \in T : \A k \in T : m <= k
  BY <1>1, LeastOf
<1>3. PICK i \in P : m = n - i
  BY <1>2
<1>4. \A j \in P : n - i <= n - j
  BY <1>2, <1>3
<1>5. ASSUME NEW j \in (i + 1) .. n, j \in P PROVE FALSE
  <2>1. i \in Nat /\ j \in Nat /\ i < j /\ n - i <= n - j
    BY <1>4, <1>5
  <2> QED
    BY <2>1
<1> QED
  BY <1>5

\* A row that a worker writes is a vector of the row's text and of its own model.
LEMMA SavedFits ==
    ASSUME NEW k \in WorkType, WorkFits(k), k.at = "save", NEW n \in 0 .. Len(k.got), NEW t \in Texts,
           NEW row, row = Saved(k, n)[t]
    PROVE  \/ row = ecCache[t]
           \/ /\ row \in [model : Models, vec : VecType] /\ row.vec \in Own(t, row.model)
              /\ (NoZero(k.got) => row.vec # ZeroVec)
<1> DEFINE missing == Missing(k.hits)
           P == {i \in 1 .. n : Batch(k)[missing[i]] = t}
           Latest == CHOOSE i \in 1 .. n : Batch(k)[missing[i]] = t /\ \A j \in (i + 1) .. n : Batch(k)[missing[j]] # t
<1>1. k.got \in Seq(VecType) /\ k.model \in Models /\ n \in Nat /\ n <= Len(k.got)
  BY DEF WorkType
<1>2. row = IF P # {} THEN [model |-> k.model, vec |-> k.got[Latest]] ELSE ecCache[t]
  BY DEF Saved
<1>3. CASE P = {}
  BY <1>2, <1>3
<1>4. CASE P # {}
  <2>1. \E i \in P : \A j \in (i + 1) .. n : j \notin P
    BY <1>1, <1>4, LastOf
  <2>2. \E i \in 1 .. n : Batch(k)[missing[i]] = t /\ \A j \in (i + 1) .. n : Batch(k)[missing[j]] # t
    <3>1. PICK i \in P : \A j \in (i + 1) .. n : j \notin P
      BY <2>1
    <3>2. i \in 1 .. n /\ i \in Nat /\ Batch(k)[missing[i]] = t
      BY <3>1
    <3>3. \A j \in (i + 1) .. n : j \in 1 .. n
      BY <1>1, <3>2
    <3>4. \A j \in (i + 1) .. n : Batch(k)[missing[j]] # t
      BY <3>1, <3>3
    <3> QED
      BY <3>2, <3>4
  <2>3. PICK i : i = Latest /\ i \in 1 .. n /\ Batch(k)[missing[i]] = t
    BY <2>2
  <2>4. i \in 1 .. Len(k.got)
    BY <1>1, <2>3
  <2>5. k.got[i] \in Own(t, k.model)
    BY <2>3, <2>4 DEF WorkFits, GotFits
  <2>6. k.got[i] \in VecType /\ (NoZero(k.got) => k.got[i] # ZeroVec)
    BY <1>1, <2>4 DEF NoZero
  <2>7. row = [model |-> k.model, vec |-> k.got[i]]
    BY <1>2, <1>4, <2>3
  <2> HIDE DEF missing, P, Latest
  <2> QED
    BY <1>1, <2>5, <2>6, <2>7
<1> QED
  BY <1>3, <1>4

\* Each place of the batch has its hit or the vector fetched for it.
LEMMA MergedFits ==
    ASSUME NEW k \in WorkType, WorkFits(k), k.at = "save", NEW vecs, vecs = Merged(k)
    PROVE  /\ vecs \in Seq(VecType) /\ Len(vecs) = Len(Batch(k))
           /\ \A i \in 1 .. Len(vecs) : vecs[i] \in Own(Batch(k)[i], k.model)
           /\ NoZero(k.hits) /\ NoZero(k.got) => NoZero(vecs)
<1>1. PICK missing : missing = Missing(k.hits)
  OBVIOUS
<1>2. /\ Len(k.hits) = Len(Batch(k)) /\ MissesOf(k.hits, missing, Len(k.hits)) /\ Batch(k) \in Seq(Texts)
      /\ missing \in Seq(1 .. Len(k.hits))
  BY <1>1, BatchUnderWay
<1>3. HitsFit(k) /\ GotFits(k) /\ Len(k.got) = Len(missing)
  BY <1>1 DEF WorkFits
<1>4. k.hits \in Seq(VecType \cup {NoRow}) /\ k.got \in Seq(VecType)
  BY DEF WorkType
<1>5. PICK size : size = Len(k.hits) /\ size \in Nat
  BY <1>4
<1>6. /\ vecs = [i \in 1 .. size |-> vecs[i]] /\ Len(vecs) = size
      /\ \A i \in 1 .. size : vecs[i] = IF k.hits[i] # NoRow THEN k.hits[i]
                                        ELSE k.got[CHOOSE n \in 1 .. Len(k.got) : missing[n] = i]
  BY <1>1, <1>5 DEF Merged
<1>7. ASSUME NEW i \in 1 .. size
      PROVE  /\ vecs[i] \in VecType /\ vecs[i] \in Own(Batch(k)[i], k.model)
             /\ NoZero(k.hits) /\ NoZero(k.got) => vecs[i] # ZeroVec
  <2>1. CASE k.hits[i] # NoRow
    <3>1. vecs[i] = k.hits[i] /\ i \in 1 .. Len(k.hits)
      BY <1>5, <1>6, <2>1
    <3>2. k.hits[i] \in VecType
      BY <1>4, <2>1, <3>1
    <3> QED
      BY <1>3, <2>1, <3>1, <3>2 DEF HitsFit, NoZero
  <2>2. CASE k.hits[i] = NoRow
    <3>1. \E n \in 1 .. Len(k.got) : missing[n] = i
      BY <1>2, <1>3, <1>5, <2>2 DEF MissesOf
    <3>2. PICK n : n = (CHOOSE m \in 1 .. Len(k.got) : missing[m] = i) /\ n \in 1 .. Len(k.got) /\ missing[n] = i
      BY <3>1
    <3>3. vecs[i] = k.got[n]
      BY <1>6, <2>2, <3>2
    <3>4. k.got[n] \in VecType
      BY <1>4, <3>2
    <3>5. k.got[n] \in Own(Batch(k)[i], k.model)
      BY <1>1, <1>3, <3>2 DEF GotFits
    <3> QED
      BY <3>2, <3>3, <3>4, <3>5 DEF NoZero
  <2> QED
    BY <2>1, <2>2
<1>8. vecs \in Seq(VecType)
  BY <1>5, <1>6, <1>7
<1>9. NoZero(k.hits) /\ NoZero(k.got) => NoZero(vecs)
  BY <1>6, <1>7 DEF NoZero
<1> QED
  BY <1>2, <1>5, <1>6, <1>7, <1>8, <1>9

LEMMA SaveAndMergeKeeps == EcInv => \A w \in Workers : SaveAndMerge(w) => EcInv'
<1> SUFFICES ASSUME EcInv, NEW w \in Workers, SaveAndMerge(w) PROVE EcInv'
  OBVIOUS
<1>1. PICK k, vecs : k = ecWork[w] /\ vecs = Merged(k)
  OBVIOUS
<1>2. k.at = "save" /\ Work(w, Joined(k, vecs))
  BY <1>1 DEF SaveAndMerge
<1>3. /\ w \in Started /\ k \in WorkType /\ WorkFits(k) /\ CacheType /\ CacheFits
      /\ AllLists => ZeroFits(k) /\ CacheHasNoZero
  BY <1>1, <1>2, StepFits
<1>n. PICK n \in 0 .. Len(k.got) : ecCache' = Saved(k, n)
  BY <1>1 DEF SaveAndMerge
<1>4. PICK cache : cache = Saved(k, n) /\ ecCache' = cache
  BY <1>n
<1>5. cache = [t \in Texts |-> cache[t]]
  BY <1>4 DEF Saved
<1>6. ASSUME NEW t \in Texts
      PROVE  \/ cache[t] = ecCache[t]
             \/ /\ cache[t] \in [model : Models, vec : VecType] /\ cache[t].vec \in Own(t, cache[t].model)
                /\ (NoZero(k.got) => cache[t].vec # ZeroVec)
  <2>1. PICK row : row = cache[t]
    OBVIOUS
  <2>2. row = Saved(k, n)[t]
    BY <1>4, <2>1
  <2>3. \/ row = ecCache[t]
        \/ /\ row \in [model : Models, vec : VecType] /\ row.vec \in Own(t, row.model)
           /\ (NoZero(k.got) => row.vec # ZeroVec)
    BY <1>2, <1>3, <2>2, SavedFits
  <2> QED
    BY <2>1, <2>3
<1>7. CacheType' /\ CacheFits' /\ (AllLists => CacheHasNoZero')
  <2>1. \A t \in Texts : cache[t] \in [model : Models, vec : VecType] \cup {NoRow}
    BY <1>3, <1>6 DEF CacheType
  <2>2. CacheType'
    BY <1>4, <1>5, <2>1 DEF CacheType
  <2>3. CacheFits'
    BY <1>3, <1>4, <1>6 DEF CacheFits
  <2>4. AllLists => CacheHasNoZero'
    BY <1>3, <1>4, <1>6 DEF CacheHasNoZero, ZeroFits
  <2> QED
    BY <2>2, <2>3, <2>4
<1>8. /\ vecs \in Seq(VecType) /\ Len(vecs) = Len(Batch(k))
      /\ \A i \in 1 .. Len(vecs) : vecs[i] \in Own(Batch(k)[i], k.model)
      /\ NoZero(k.hits) /\ NoZero(k.got) => NoZero(vecs)
  BY <1>1, <1>2, <1>3, MergedFits
<1>9. PICK j : j = Joined(k, vecs) /\ j = Join(k, vecs, k.failed)
  BY <1>3, JoinedIs
<1>10. /\ OutFits(k) /\ k.failed \in BOOLEAN /\ k \in WorkType
       /\ vecs \in Seq(VecType) /\ Len(vecs) = Len(Batch(k))
       /\ \A i \in 1 .. Len(vecs) : vecs[i] \in Own(Batch(k)[i], k.model)
  BY <1>3, <1>8 DEF WorkFits, WorkType
<1>11. /\ j \in WorkType /\ WorkFits(j) /\ j.provider = k.provider /\ j.failed = k.failed
       /\ j.out = k.out \o vecs /\ j.hits = <<>> /\ j.got = <<>>
  BY <1>9, <1>10, JoinedFits
<1>12. AllLists => ZeroFits(j)
  <2> SUFFICES ASSUME AllLists PROVE ZeroFits(j)
    OBVIOUS
  <2>1. NoZero(vecs)
    BY <1>3, <1>8 DEF ZeroFits
  <2>2. ~NoZero(k.out \o vecs) => k.failed
    BY <1>3, <1>8, <2>1, JoinedHasNoZero
  <2> QED
    BY <1>11, <2>2 DEF ZeroFits, NoZero
<1>13. Work(w, j)
  BY <1>2, <1>9
<1> QED
  BY <1>1, <1>3, <1>7, <1>11, <1>12, <1>13, WorkKeeps

LEMMA EcInitHolds == EcInit => EcInv
<1> SUFFICES ASSUME EcInit PROVE EcInv
  OBVIOUS
<1>1. Started = {} /\ EcType
  BY DEF EcInit, Started, EcType, IdleWork
<1>2. \A t \in Texts : ecCache[t] = NoRow
  BY DEF EcInit
<1> QED
  BY <1>1, <1>2 DEF EcInv, CacheFits, ZerosStay, CacheHasNoZero

LEMMA EcStepHolds == EcInv /\ [EcNext]_ecVars => EcInv'
<1> SUFFICES ASSUME EcInv, [EcNext]_ecVars PROVE EcInv'
  OBVIOUS
<1>1. CASE UNCHANGED ecVars
  <2>1. ecCache' = ecCache /\ ecWork' = ecWork
    BY <1>1 DEF ecVars
  <2>2. Started' = Started /\ EcType' /\ CacheFits'
    BY <2>1 DEF EcInv, EcType, CacheFits, Started
  <2>3. \A w \in Started' : WorkFits(ecWork'[w])
    BY <2>1, <2>2 DEF EcInv
  <2>4. (AllLists' <=> AllLists) /\ (CacheHasNoZero' <=> CacheHasNoZero)
    BY <2>1, <2>2 DEF AllLists, CacheHasNoZero
  <2>5. ZerosStay'
    BY <2>1, <2>2, <2>4 DEF EcInv, ZerosStay
  <2> QED
    BY <2>2, <2>3, <2>5 DEF EcInv
<1>2. CASE \E w \in Workers : Begin(w)
  BY <1>2, BeginKeeps
<1>3. CASE \E w \in Workers : LookUp(w)
  BY <1>3, LookUpKeeps
<1>4. CASE \E w \in Workers : AskList(w)
  BY <1>4, AskListKeeps
<1>5. CASE \E w \in Workers : AskText(w)
  BY <1>5, AskTextKeeps
<1>6. CASE \E w \in Workers : SaveAndMerge(w)
  BY <1>6, SaveAndMergeKeeps
<1> QED
  BY <1>1, <1>2, <1>3, <1>4, <1>5, <1>6 DEF EcNext

\* Whatever the other workers write to the cache meanwhile, each text gets a vector
\* of its own and of the worker's model, or the zero vector, and no zero vector of
\* another worker (embedding.py, embedding_cache.py), for any number of workers,
\* texts and models, any batch and any number of tries.
THEOREM VectorsStayOwn == EcInit /\ [][EcNext]_ecVars => []VectorsAreOwn
<1>1. EcInit => EcInv
  BY EcInitHolds
<1>2. EcInv /\ [EcNext]_ecVars => EcInv'
  BY EcStepHolds
<1>3. EcInv => VectorsAreOwn
  BY InvIsOwn
<1> QED
  BY <1>1, <1>2, <1>3, PTL
-----------------------------------------------------------------------------
(* The blocks of a file.                                                    *)

LpInv ==
    /\ lpAt \in {"read", "split", "filter", "done", "error"}
    /\ lpLines \in Seq(Lines) /\ lpNext \in Nat /\ 1 <= lpNext /\ lpNext <= Len(lpLines) + 1
    /\ lpAt \in {"read", "split", "filter"} => lpCurrent \in Seq(Nat) /\ lpOut \in Seq(Seq(Nat))
    /\ lpAt = "read" => lpNext = 1 /\ lpCurrent = <<>> /\ lpOut = <<>>
    /\ lpAt = "filter" => lpNext = Len(lpLines) + 1
    /\ NothingLost

\* Blank lines alone are no block.
LEMMA KeptBlockKeeps ==
    ASSUME NEW out \in Seq(Seq(Nat)), NEW block \in Seq(Nat), NEW n \in Nat, Whole(Append(out, block), n)
    PROVE  KeptBlock(out, block) \in Seq(Seq(Nat)) /\ Whole(KeptBlock(out, block), n)
<1> DEFINE more == Append(out, block)
<1>1. CASE ~ \A i \in 1 .. Len(block) : lpLines[block[i]].kind = "blank"
  BY <1>1 DEF KeptBlock
<1>2. CASE \A i \in 1 .. Len(block) : lpLines[block[i]].kind = "blank"
  <2>1. KeptBlock(out, block) = out
    BY <1>2 DEF KeptBlock
  <2>2. /\ DOMAIN more = DOMAIN out \cup {Len(out) + 1} /\ Len(out) + 1 \notin DOMAIN out
        /\ \A b \in DOMAIN out : more[b] = out[b]
        /\ more[Len(out) + 1] = block
    OBVIOUS
  <2>3. \A b \in DOMAIN out : Range(out[b]) \subseteq 1 .. n
    BY <2>2 DEF Whole
  <2>4. ASSUME NEW b \in DOMAIN out, NEW c \in DOMAIN out, NEW i \in DOMAIN out[b], NEW j \in DOMAIN out[c],
               b < c \/ (b = c /\ i < j)
        PROVE  out[b][i] < out[c][j]
    <3>1. more[b] = out[b] /\ more[c] = out[c] /\ b \in DOMAIN more /\ c \in DOMAIN more
      BY <2>2
    <3> HIDE DEF more
    <3> QED
      BY <2>4, <3>1 DEF Whole, more
  <2>5. ASSUME NEW i \in 1 .. n, lpLines[i].kind # "blank" PROVE \E b \in DOMAIN out : i \in Range(out[b])
    <3>1. PICK b \in DOMAIN more : i \in Range(more[b])
      BY <2>5 DEF Whole
    <3>2. ASSUME NEW j \in DOMAIN block, block[j] = i PROVE FALSE
      <4>1. j \in 1 .. Len(block)
        OBVIOUS
      <4>2. lpLines[block[j]].kind = "blank"
        BY <1>2, <4>1
      <4> QED
        BY <2>5, <3>2, <4>2
    <3>3. i \notin Range(block)
      BY <3>2 DEF Range
    <3> QED
      BY <2>2, <3>1, <3>3
  <2> QED
    BY <2>1, <2>3, <2>4, <2>5 DEF Whole
<1> QED
  BY <1>1, <1>2

\* A block of the next line, or of none, behind the others.
LEMMA NextBlock ==
    ASSUME NEW out \in Seq(Seq(Nat)), NEW n \in Nat, Whole(out, n)
    PROVE  Whole(Append(out, <<>>), n) /\ Whole(Append(out, <<n + 1>>), n + 1)
<1>1. ASSUME NEW block \in Seq(Nat), NEW m \in {n, n + 1}, block = IF m = n THEN <<>> ELSE <<n + 1>>
      PROVE  Whole(Append(out, block), m)
  <2> DEFINE more == Append(out, block)
             last == Len(out) + 1
  <2>1. /\ DOMAIN more = DOMAIN out \cup {last} /\ DOMAIN out = 1 .. Len(out) /\ last \in Nat
        /\ \A b \in DOMAIN out : more[b] = out[b]
        /\ more[last] = block
    OBVIOUS
  <2>2. /\ Range(block) = IF m = n THEN {} ELSE {n + 1}
        /\ \A i, j \in DOMAIN block : ~(i < j)
        /\ \A i \in DOMAIN block : block[i] = n + 1
    BY <1>1 DEF Range
  <2> HIDE DEF more, last
  <2>3. \A b \in DOMAIN more : Range(more[b]) \subseteq 1 .. m
    BY <2>1, <2>2 DEF Whole
  <2>4. ASSUME NEW b \in DOMAIN more, NEW c \in DOMAIN more, NEW i \in DOMAIN more[b], NEW j \in DOMAIN more[c],
               b < c \/ (b = c /\ i < j)
        PROVE  more[b][i] < more[c][j]
    <3>1. CASE b \in DOMAIN out /\ c \in DOMAIN out
      BY <2>1, <2>4, <3>1 DEF Whole
    <3>2. CASE b \in DOMAIN out /\ c = last
      <4>1. out[b][i] \in 1 .. n /\ more[c][j] = n + 1
        BY <2>1, <2>2, <3>2 DEF Whole, Range
      <4> QED
        BY <2>1, <3>2, <4>1
    <3>3. CASE b = last
      <4>1. c = last
        BY <2>1, <2>4, <3>3 DEF last
      <4> QED
        BY <2>1, <2>2, <2>4, <3>3, <4>1
    <3> QED
      BY <2>1, <3>1, <3>2, <3>3
  <2>5. ASSUME NEW i \in 1 .. m, lpLines[i].kind # "blank" PROVE \E b \in DOMAIN more : i \in Range(more[b])
    <3>1. CASE i \in 1 .. n
      BY <2>1, <2>5, <3>1 DEF Whole
    <3>2. CASE i \notin 1 .. n
      BY <2>1, <2>2, <3>2
    <3> QED
      BY <3>1, <3>2
  <2> QED
    BY <2>3, <2>4, <2>5 DEF Whole, more
<1>2. <<>> \in Seq(Nat) /\ <<n + 1>> \in Seq(Nat) /\ n # n + 1
  OBVIOUS
<1> QED
  BY <1>1, <1>2

\* The next line joins the block under way.
LEMMA LineJoins ==
    ASSUME NEW out \in Seq(Seq(Nat)), NEW block \in Seq(Nat), NEW n \in Nat, Whole(Append(out, block), n)
    PROVE  Whole(Append(out, Append(block, n + 1)), n + 1)
<1> DEFINE prior == Append(out, block)
           joined == Append(block, n + 1)
           more == Append(out, joined)
           last == Len(out) + 1
<1>1. /\ DOMAIN more = DOMAIN out \cup {last} /\ DOMAIN prior = DOMAIN more
      /\ \A b \in DOMAIN out : more[b] = out[b] /\ prior[b] = out[b]
      /\ more[last] = joined /\ prior[last] = block
      /\ DOMAIN out = 1 .. Len(out) /\ last \in Nat
  OBVIOUS
<1>2. /\ DOMAIN joined = DOMAIN block \cup {Len(block) + 1} /\ DOMAIN block = 1 .. Len(block) /\ Len(block) \in Nat
      /\ \A i \in DOMAIN block : joined[i] = block[i]
      /\ joined[Len(block) + 1] = n + 1
  OBVIOUS
<1>3. Range(joined) = Range(block) \cup {n + 1}
  BY <1>2 DEF Range
<1> HIDE DEF prior, more, joined
<1>4. \A b \in DOMAIN more : Range(more[b]) \subseteq 1 .. n + 1
  <2>1. \A b \in DOMAIN prior : Range(prior[b]) \subseteq 1 .. n
    BY DEF Whole, prior
  <2>2. 1 .. n \subseteq 1 .. n + 1 /\ n + 1 \in 1 .. n + 1
    OBVIOUS
  <2> QED
    BY <1>1, <1>3, <2>1, <2>2
<1>5. ASSUME NEW b \in DOMAIN more, NEW c \in DOMAIN more, NEW i \in DOMAIN more[b], NEW j \in DOMAIN more[c],
             b < c \/ (b = c /\ i < j)
      PROVE  more[b][i] < more[c][j]
  <2>1. CASE i \in DOMAIN prior[b] /\ j \in DOMAIN prior[c]
    <3>1. prior[b][i] < prior[c][j]
      BY <1>1, <1>5, <2>1 DEF Whole, prior
    <3>2. more[b][i] = prior[b][i] /\ more[c][j] = prior[c][j]
      BY <1>1, <1>2, <2>1
    <3> QED
      BY <3>1, <3>2
  <2>2. CASE j \notin DOMAIN prior[c]
    <3>1. c = last /\ j = Len(block) + 1 /\ more[c][j] = n + 1
      BY <1>1, <1>2, <2>2
    <3>2. i \in DOMAIN prior[b] /\ more[b][i] = prior[b][i]
      BY <1>1, <1>2, <1>5, <3>1 DEF last
    <3>3. prior[b][i] \in 1 .. n
      BY <1>1, <3>2 DEF Whole, Range, prior
    <3> QED
      BY <3>1, <3>2, <3>3
  <2>3. CASE i \notin DOMAIN prior[b] /\ j \in DOMAIN prior[c]
    <3>1. b = last /\ i = Len(block) + 1
      BY <1>1, <1>2, <2>3
    <3>2. c = last
      BY <1>1, <1>5, <3>1 DEF last
    <3> QED
      BY <1>1, <1>2, <1>5, <2>3, <3>1, <3>2 DEF last
  <2> QED
    BY <2>1, <2>2, <2>3
<1>6. ASSUME NEW i \in 1 .. n + 1, lpLines[i].kind # "blank" PROVE \E b \in DOMAIN more : i \in Range(more[b])
  <2>1. CASE i \in 1 .. n
    <3>1. PICK b \in DOMAIN prior : i \in Range(prior[b])
      BY <1>6, <2>1 DEF Whole, prior
    <3> QED
      BY <1>1, <1>3, <3>1
  <2>2. CASE i = n + 1
    BY <1>1, <1>3, <2>2
  <2> QED
    BY <2>1, <2>2
<1> QED
  BY <1>4, <1>5, <1>6 DEF Whole, more, joined

\* One step of either way: the next line joins the block under way, opens a block, or is
\* one, and a block that is complete is put behind the others.
LEMMA SplitKeeps ==
    ASSUME NEW out \in Seq(Seq(Nat)), NEW block \in Seq(Nat), NEW n \in Nat, Whole(Append(out, block), n)
    PROVE  /\ KeptBlock(out, block) \in Seq(Seq(Nat)) /\ Whole(KeptBlock(out, block), n)
           /\ Whole(Append(KeptBlock(out, block), <<>>), n)
           /\ Whole(Append(KeptBlock(out, block), <<n + 1>>), n + 1)
           /\ Whole(Append(out, Append(block, n + 1)), n + 1)
<1>1. KeptBlock(out, block) \in Seq(Seq(Nat)) /\ Whole(KeptBlock(out, block), n)
  BY KeptBlockKeeps
<1> QED
  BY <1>1, NextBlock, LineJoins

LEMMA LpSplitStep == LpInv /\ (ByPattern \/ BySize \/ LastBlock) => LpInv'
<1> SUFFICES ASSUME LpInv, ByPattern \/ BySize \/ LastBlock PROVE LpInv'
  OBVIOUS
<1>1. /\ lpAt = "split" /\ lpAt' \in {"split", "filter"} /\ UNCHANGED <<lpKind, lpRegex, lpWindow, lpLines>>
      /\ lpNext \in Nat /\ lpCurrent \in Seq(Nat) /\ lpOut \in Seq(Seq(Nat)) /\ lpLines \in Seq(Lines)
      /\ 1 <= lpNext /\ lpNext <= Len(lpLines) + 1 /\ Len(lpLines) \in Nat
  BY DEF LpInv, ByPattern, BySize, LastBlock, Split
<1>n. PICK n \in Nat : lpNext = n + 1 /\ lpNext - 1 = n
  BY <1>1
<1>2. Whole(Append(lpOut, lpCurrent), n)
  BY <1>1, <1>n DEF LpInv, NothingLost
<1>k. PICK kept : kept = KeptBlock(lpOut, lpCurrent)
  OBVIOUS
<1>3. /\ kept \in Seq(Seq(Nat)) /\ Whole(kept, n) /\ Whole(Append(kept, <<>>), n)
      /\ Whole(Append(kept, <<n + 1>>), n + 1)
      /\ Whole(Append(lpOut, Append(lpCurrent, n + 1)), n + 1)
  BY <1>1, <1>2, <1>k, SplitKeeps
<1>w. \A blocks, m : Whole(blocks, m)' <=> Whole(blocks, m)
  BY <1>1 DEF Whole
<1>4. ASSUME lpNext' \in {n + 1, n + 2}, lpNext' <= Len(lpLines) + 1,
             lpCurrent' \in Seq(Nat), lpOut' \in Seq(Seq(Nat)),
             lpAt' = "split" => Whole(Append(lpOut', lpCurrent'), lpNext' - 1),
             lpAt' = "filter" => lpNext' = Len(lpLines) + 1 /\ Whole(lpOut', Len(lpLines))
      PROVE  LpInv'
  BY <1>1, <1>n, <1>w, <1>4 DEF LpInv, NothingLost
<1>5. n + 1 \in Nat /\ <<n + 1>> \in Seq(Nat) /\ <<>> \in Seq(Nat) /\ Append(lpCurrent, n + 1) \in Seq(Nat)
      /\ n + 1 - 1 = n /\ n + 2 - 1 = n + 1 /\ lpNext + 1 = n + 2
  BY <1>1, <1>n
<1>a. ASSUME lpNext' = n + 2, lpNext <= Len(lpLines), lpAt' = "split", lpCurrent' \in Seq(Nat),
             lpOut' \in Seq(Seq(Nat)), Whole(Append(lpOut', lpCurrent'), n + 1)
      PROVE  LpInv'
  <2>1. lpNext' - 1 = n + 1 /\ lpNext' \in Nat /\ lpNext' <= Len(lpLines) + 1
    BY <1>1, <1>n, <1>a
  <2> QED
    BY <1>4, <1>a, <2>1
<1>6. CASE BySize
  <2>1. lpNext <= Len(lpLines) /\ lpAt' = "split" /\ lpNext' = n + 2
    BY <1>1, <1>5, <1>6 DEF BySize, Split
  <2>2. CASE Len(lpCurrent) + 1 > ChunkSize
    <3>1. lpCurrent' = <<n + 1>> /\ lpOut' = kept
      BY <1>n, <1>k, <1>6, <2>2 DEF BySize, Split
    <3> QED
      BY <1>3, <1>5, <1>a, <2>1, <3>1
  <2>3. CASE ~(Len(lpCurrent) + 1 > ChunkSize)
    <3>1. lpCurrent' = Append(lpCurrent, n + 1) /\ lpOut' = lpOut
      BY <1>n, <1>6, <2>3 DEF BySize, Split
    <3> QED
      BY <1>1, <1>3, <1>5, <1>a, <2>1, <3>1
  <2> QED
    BY <2>2, <2>3
<1>7. CASE LastBlock
  <2>1. lpNext = Len(lpLines) + 1 /\ n = Len(lpLines)
    BY <1>1, <1>n, <1>7 DEF LastBlock
  <2>2. lpNext' = lpNext /\ lpCurrent' = <<>> /\ lpOut' = kept /\ lpAt' = "filter"
    BY <1>k, <1>7 DEF LastBlock, Split
  <2> QED
    BY <1>1, <1>n, <1>3, <1>4, <1>5, <2>1, <2>2
<1>8. CASE ByPattern
  <2>0. lpAt' = "split"
    BY <1>1, <1>8 DEF ByPattern
  <2>1. CASE lpCurrent # <<>> /\ More(lpNext) /\ Len(lpCurrent) < ChunkSize
    <3>1. lpCurrent' = Append(lpCurrent, n + 1) /\ lpOut' = lpOut /\ lpNext' = n + 2 /\ lpNext <= Len(lpLines)
      BY <1>n, <1>5, <1>8, <2>1 DEF ByPattern, Split, More
    <3> QED
      BY <1>1, <1>3, <1>5, <1>a, <2>0, <3>1
  <2>2. CASE lpCurrent # <<>> /\ ~(More(lpNext) /\ Len(lpCurrent) < ChunkSize)
    <3>1. lpNext' = lpNext /\ lpCurrent' = <<>> /\ lpOut' = kept
      BY <1>k, <1>8, <2>2 DEF ByPattern, Split
    <3> QED
      BY <1>1, <1>n, <1>3, <1>4, <1>5, <2>0, <3>1
  <2>3. CASE lpCurrent = <<>>
    <3>1. lpNext' = n + 2 /\ lpNext <= Len(lpLines)
      BY <1>5, <1>8, <2>3 DEF ByPattern, Split
    <3>2. kept = lpOut
      BY <1>k, <2>3 DEF KeptBlock
    <3>3. PICK one : one = KeptBlock(lpOut, <<n + 1>>)
      OBVIOUS
    <3>4. one \in Seq(Seq(Nat)) /\ Whole(Append(one, <<>>), n + 1)
      <4>1. n + 1 \in Nat /\ Whole(Append(lpOut, <<n + 1>>), n + 1)
        BY <1>3, <3>2
      <4> QED
        BY <1>1, <1>5, <3>3, <4>1, SplitKeeps
    <3>5. \/ lpCurrent' = <<n + 1>> /\ lpOut' = lpOut
          \/ lpCurrent' = <<>> /\ lpOut' = one
      BY <1>n, <1>8, <2>3, <3>3 DEF ByPattern, Split
    <3>6. Whole(Append(lpOut, <<n + 1>>), n + 1)
      BY <1>3, <3>2
    <3> QED
      BY <1>1, <1>5, <1>a, <2>0, <3>1, <3>4, <3>5, <3>6
  <2> QED
    BY <2>1, <2>2, <2>3
<1> QED
  BY <1>1, <1>6, <1>7, <1>8

LEMMA LpReadStep == LpInv /\ ReadFile => LpInv'
<1> SUFFICES ASSUME LpInv, ReadFile PROVE LpInv'
  OBVIOUS
<1>1. /\ lpAt = "read" /\ lpAt' \in {"split", "error"} /\ UNCHANGED <<lpNext, lpCurrent, lpOut>>
      /\ lpNext = 1 /\ lpCurrent = <<>> /\ lpOut = <<>>
  BY DEF LpInv, ReadFile
<1>2. lpLines' \in Seq(Lines)
  <2>1. lpLines' \in SeqOf(Lines, MaxLines) \cup {<<>>}
    BY DEF ReadFile
  <2>2. CASE lpLines' = <<>>
    BY <2>2
  <2>3. CASE lpLines' \in SeqOf(Lines, MaxLines)
    <3>1. PICK m \in 0 .. MaxLines : lpLines' \in [1 .. m -> Lines]
      BY <2>3 DEF SeqOf
    <3> QED
      BY <3>1, ParseAssumption
  <2> QED
    BY <2>1, <2>2, <2>3
<1>3. \A blocks : blocks = <<<<>>>> => Whole(blocks, 0)'
  BY DEF Whole, Range
<1>4. Append(<<>>, <<>>) = <<<<>>>> /\ Len(lpLines') \in Nat /\ <<>> \in Seq(Nat) /\ <<>> \in Seq(Seq(Nat))
  BY <1>2
<1> QED
  BY <1>1, <1>2, <1>3, <1>4 DEF LpInv, NothingLost

LEMMA LpFilterStep == LpInv /\ Filter => LpInv'
<1> SUFFICES ASSUME LpInv, Filter PROVE LpInv'
  OBVIOUS
<1>1. /\ lpAt = "filter" /\ lpAt' = "done" /\ (Bounded' <=> Bounded)
      /\ UNCHANGED <<lpLines, lpNext>> /\ (~Bounded => lpOut' = lpOut)
  BY DEF Filter, Bounded
<1>2. \A blocks, m : Whole(blocks, m)' <=> Whole(blocks, m)
  BY <1>1 DEF Whole
<1> QED
  BY <1>1, <1>2 DEF LpInv, NothingLost

\* However a file is split, by pattern or by size, the blocks hold every line that is not
\* blank, once and in its order (parser.py), for any number of lines and size of a chunk.
THEOREM NoLineIsLost == LpInit /\ [][LpNext]_lpVars => []NothingLost
<1>1. LpInit => LpInv
  BY DEF LpInit, LpInv, NothingLost
<1>2. LpInv /\ [LpNext]_lpVars => LpInv'
  <2>1. LpInv /\ UNCHANGED lpVars => LpInv'
    BY DEF lpVars, LpInv, NothingLost, Whole, Bounded
  <2> QED
    BY <2>1, LpSplitStep, LpReadStep, LpFilterStep DEF LpNext
<1>3. LpInv => NothingLost
  BY DEF LpInv
<1> QED
  BY <1>1, <1>2, <1>3, PTL

-----------------------------------------------------------------------------
(* The templates of a file: trees of logs, and clusters of their roots.       *)

LogsAreNumbers == Count \in Nat /\ MergeLogs = 0 .. Count - 1

\* Parents that lead to larger sizes, as nothing grows under a parent, ...
Trees(f) ==
    /\ f \in [MergeLogs -> [parent : MergeLogs \cup {NoParent}, rank : Nat, sz : Nat]]
    /\ \A x \in MergeLogs : f[x].sz \in 1 .. Count
    /\ \A x \in MergeLogs : f[x].parent # NoParent => f[x].sz < f[f[x].parent].sz

\* ... and sizes that count.
Below(f, r) == {x \in MergeLogs : Climb(f, x) = r}
Sized(f) == \A r \in MergeLogs : f[r].parent = NoParent =>
                f[r].sz = Cardinality(Below(f, r))

Up(f, x) == IF f[x].parent = NoParent THEN x ELSE f[x].parent
UpStep(f) == [p \in (1 .. Count) \X MergeLogs |-> Up(f, p[2])]

LEMMA UpTyped ==
    ASSUME LogsAreNumbers, NEW f, Trees(f), NEW x \in MergeLogs
    PROVE  Up(f, x) \in MergeLogs /\ (f[x].parent # NoParent => f[x].sz < f[Up(f, x)].sz)
           /\ f[x].sz \in Nat
BY DEF Up, Trees, LogsAreNumbers

\* A climb is a function on the steps of the way up.
LEMMA ClimbWalks ==
    ASSUME LogsAreNumbers, NEW f, Trees(f), NEW x \in MergeLogs
    PROVE  \E g \in [0 .. Count -> MergeLogs] :
              /\ g[0] = x /\ g[Count] = Climb(f, x)
              /\ \A n \in 1 .. Count : g[n] = Up(f, g[n - 1])
<1> DEFINE N == Count
           V == MergeLogs
           Fcn(g) == [n \in 0 .. N |-> IF n = 0 THEN x
                        ELSE IF f[g[n - 1]].parent = NoParent THEN g[n - 1] ELSE f[g[n - 1]].parent]
           of == CHOOSE g : g = Fcn(g)
           step == UpStep(f)
<1>0. N \in Nat BY DEF LogsAreNumbers
<1>1. step \in [(1 .. N) \X V -> V] BY UpTyped DEF UpStep
<1>a. \A i \in 1 .. N, y \in V : step[<<i, y>>] = Up(f, y) BY DEF UpStep
<1> HIDE DEF step, N, V
<1>2. PICK g : Walks(g, V, x, N, step) BY <1>0, <1>1, Recursion DEF V
<1>3. g \in [0 .. N -> V] /\ g[0] = x /\ \A n \in 1 .. N : n - 1 \in 0 .. N /\ g[n] = Up(f, g[n - 1])
  <2>1. \A n \in 1 .. N : n - 1 \in 0 .. N BY <1>0
  <2> QED BY <1>2, <1>a, <2>1 DEF Walks
<1>4. g = Fcn(g)
  <2>1. DOMAIN g = 0 .. N /\ g = [n \in 0 .. N |-> g[n]] BY <1>3
  <2>2. \A n \in 0 .. N : n = 0 \/ n \in 1 .. N BY <1>0
  <2> QED BY <1>0, <1>3, <2>1, <2>2 DEF Up
<1>5. of = Fcn(of)
  <2> HIDE DEF Fcn
  <2> QED BY <1>4
<1>6. /\ of[0] = x
      /\ \A n \in 1 .. N : of[n] = Up(f, of[n - 1])
      /\ of = [n \in 0 .. N |-> of[n]]
  <2> HIDE DEF of
  <2>1. of[0] = x BY <1>0, <1>5
  <2>2. of = [n \in 0 .. N |-> of[n]] BY <1>5
  <2>3. ASSUME NEW n \in 1 .. N PROVE of[n] = Up(f, of[n - 1])
    <3>1. n \in 0 .. N /\ n # 0 BY <1>0
    <3>2. of[n] = IF f[of[n - 1]].parent = NoParent THEN of[n - 1] ELSE f[of[n - 1]].parent
      BY <1>5, <3>1
    <3> QED BY <3>2 DEF Up
  <2> QED BY <2>1, <2>2, <2>3
<1>7. Climb(f, x) = of[N] BY DEF Climb, of, N
<1> HIDE DEF of, Fcn
<1>8. ASSUME NEW n \in 0 .. N PROVE of[n] \in V
  <2> DEFINE T == {k \in 0 .. n : of[k] \in V}
  <2>0. n \in Nat /\ n <= N BY <1>0
  <2>1. 0 \in T BY <1>6, <2>0 DEF V
  <2>2. \A k \in 1 .. n : k - 1 \in T => k \in T
    <3> SUFFICES ASSUME NEW k \in 1 .. n, k - 1 \in T PROVE k \in T OBVIOUS
    <3>1. k \in 1 .. N /\ of[k - 1] \in V BY <1>0, <2>0
    <3>2. of[k] = Up(f, of[k - 1]) BY <1>6, <3>1
    <3>3. of[k] \in V BY <3>1, <3>2, UpTyped DEF V
    <3> QED BY <3>3
  <2>3. n \in T
    <3> HIDE DEF T
    <3> QED BY <2>0, <2>1, <2>2, InductionUpTo
  <2> QED BY <2>3
<1>9. of \in [0 .. N -> V] BY <1>6, <1>8
<1> QED BY <1>6, <1>7, <1>9 DEF N, V

\* On the way up sizes rise until a root is reached.
LEMMA SizesRise ==
    ASSUME LogsAreNumbers, NEW f, Trees(f),
           NEW g \in [0 .. Count -> MergeLogs], NEW lo \in Nat, lo <= f[g[0]].sz,
           \A n \in 1 .. Count : g[n] = Up(f, g[n - 1]),
           NEW m \in 0 .. Count
    PROVE  f[g[m]].parent = NoParent \/ f[g[m]].sz >= m + lo
<1> DEFINE T == {k \in 0 .. m : f[g[k]].parent = NoParent \/ f[g[k]].sz >= k + lo}
<1>0. Count \in Nat /\ m \in Nat /\ m <= Count BY DEF LogsAreNumbers
<1>1. 0 \in T BY <1>0
<1>2. \A k \in 1 .. m : k - 1 \in T => k \in T
  <2> SUFFICES ASSUME NEW k \in 1 .. m, k - 1 \in T PROVE k \in T OBVIOUS
  <2>0. k \in 1 .. Count /\ k - 1 \in 0 .. Count BY <1>0
  <2>1. g[k - 1] \in MergeLogs /\ g[k] = Up(f, g[k - 1]) BY <2>0
  <2>2. CASE f[g[k - 1]].parent = NoParent
    <3>1. g[k] = g[k - 1] BY <2>1, <2>2 DEF Up
    <3> QED BY <2>2, <3>1
  <2>3. CASE f[g[k - 1]].parent # NoParent
    <3>1. f[g[k - 1]].sz < f[g[k]].sz BY <2>1, <2>3, UpTyped
    <3>2. g[k] \in MergeLogs /\ f[g[k]].sz \in Nat /\ f[g[k - 1]].sz \in Nat
          BY <2>1, UpTyped
    <3>3. f[g[k - 1]].sz >= k - 1 + lo BY <2>3
    <3> QED BY <3>1, <3>2, <3>3
  <2> QED BY <2>2, <2>3
<1>3. m \in T
  <2> HIDE DEF T
  <2> QED BY <1>0, <1>1, <1>2, InductionUpTo
<1> QED BY <1>3

\* Every climb ends at a root.
LEMMA ClimbEnds ==
    ASSUME LogsAreNumbers, NEW f, Trees(f), NEW x \in MergeLogs
    PROVE  /\ Climb(f, x) \in MergeLogs /\ f[Climb(f, x)].parent = NoParent
           /\ f[x].parent = NoParent => Climb(f, x) = x
           /\ f[x].parent # NoParent => f[x].parent \in MergeLogs /\ Climb(f, x) = Climb(f, f[x].parent)
<1>0. Count \in Nat BY DEF LogsAreNumbers
<1>2. PICK g \in [0 .. Count -> MergeLogs] : /\ g[0] = x /\ g[Count] = Climb(f, x)
                                             /\ \A n \in 1 .. Count : g[n] = Up(f, g[n - 1])
      BY ClimbWalks
<1>3. Climb(f, x) \in MergeLogs BY <1>0, <1>2
<1>4. \A y \in MergeLogs : f[y].sz \in 1 .. Count BY DEF Trees
<1>5. f[g[Count]].parent = NoParent
  <2>0. 1 \in Nat /\ 1 <= f[g[0]].sz /\ Count \in 0 .. Count BY <1>0, <1>2, <1>4
  <2>1. f[g[Count]].parent = NoParent \/ f[g[Count]].sz >= Count + 1
        BY <1>2, <2>0, SizesRise
  <2> QED BY <1>0, <1>2, <1>3, <1>4, <2>1
<1>6. ASSUME f[x].parent = NoParent PROVE Climb(f, x) = x
  <2> DEFINE T == {k \in 0 .. Count : g[k] = x}
  <2>1. 0 \in T BY <1>0, <1>2
  <2>2. \A k \in 1 .. Count : k - 1 \in T => k \in T
        BY <1>0, <1>2, <1>6 DEF Up
  <2>3. Count \in T
    <3> HIDE DEF T
    <3> QED BY <1>0, <2>1, <2>2, InductionUpTo
  <2> QED BY <1>2, <2>3
<1>7. ASSUME f[x].parent # NoParent
      PROVE  f[x].parent \in MergeLogs /\ Climb(f, x) = Climb(f, f[x].parent)
  <2>1. f[x].parent \in MergeLogs BY <1>7 DEF Trees
  <2>2. PICK y : y = f[x].parent OBVIOUS
  <2>3. y \in MergeLogs /\ Up(f, x) = y BY <1>7, <2>1, <2>2 DEF Up
  <2>4. PICK h \in [0 .. Count -> MergeLogs] : /\ h[0] = y /\ h[Count] = Climb(f, y)
                                               /\ \A n \in 1 .. Count : h[n] = Up(f, h[n - 1])
        BY <2>3, ClimbWalks
  <2>5. f[x].sz < f[y].sz /\ 2 <= f[y].sz
    <3>1. f[x].sz < f[y].sz BY <1>7, <2>2 DEF Trees
    <3>2. f[x].sz \in 1 .. Count /\ f[y].sz \in 1 .. Count BY <1>4, <2>3
    <3> QED BY <1>0, <3>1, <3>2
  <2>6. Count > 0 /\ Count - 1 \in Nat /\ Count - 1 \in 0 .. Count BY <1>0, <1>4, <2>3
  <2> DEFINE T == {k \in 0 .. Count - 1 : g[k + 1] = h[k]}
  <2>7. 0 \in T
    <3>1. 1 \in 1 .. Count BY <1>0, <2>6
    <3>2. g[1] = Up(f, g[0])
      <4>1. g[1] = Up(f, g[1 - 1]) BY <1>2, <3>1
      <4> QED BY <4>1
    <3> QED BY <1>2, <2>3, <2>4, <2>6, <3>2
  <2>8. \A k \in 1 .. Count - 1 : k - 1 \in T => k \in T
    <3> SUFFICES ASSUME NEW k \in 1 .. Count - 1, k - 1 \in T PROVE k \in T OBVIOUS
    <3>1. k + 1 \in 1 .. Count /\ k \in 1 .. Count BY <1>0
    <3>2. g[k + 1] = Up(f, g[k]) /\ h[k] = Up(f, h[k - 1]) BY <1>2, <2>4, <3>1
    <3>3. g[k] = h[k - 1] BY <1>0
    <3> QED BY <3>2, <3>3
  <2>9. Count - 1 \in T
    <3> HIDE DEF T
    <3> QED BY <2>6, <2>7, <2>8, InductionUpTo
  <2>10. g[Count] = h[Count - 1] BY <1>0, <2>9
  <2>11. f[h[Count - 1]].parent = NoParent \/ f[h[Count - 1]].sz >= (Count - 1) + 2
         BY <2>4, <2>5, <2>6, SizesRise
  <2>12. f[h[Count - 1]].parent = NoParent
         BY <1>0, <1>4, <2>4, <2>6, <2>11
  <2>13. h[Count] = h[Count - 1]
    <3>1. Count \in 1 .. Count BY <1>0, <2>6
    <3> QED BY <2>4, <2>12, <3>1 DEF Up
  <2> QED BY <1>2, <2>1, <2>2, <2>4, <2>10, <2>13
<1> QED BY <1>2, <1>3, <1>5, <1>6, <1>7

\* What goes up one parent at a time is the climb.
LEMMA ClimbIsOnly ==
    ASSUME LogsAreNumbers, NEW f, Trees(f), NEW h,
           \A x \in MergeLogs : f[x].parent = NoParent => h[x] = x,
           \A x \in MergeLogs : f[x].parent # NoParent => h[x] = h[f[x].parent],
           NEW x \in MergeLogs
    PROVE  h[x] = Climb(f, x)
<1>1. PICK g \in [0 .. Count -> MergeLogs] : /\ g[0] = x /\ g[Count] = Climb(f, x)
                                             /\ \A n \in 1 .. Count : g[n] = Up(f, g[n - 1])
      BY ClimbWalks
<1>0. Count \in Nat BY DEF LogsAreNumbers
<1> DEFINE T == {k \in 0 .. Count : h[g[k]] = h[x]}
<1>2. 0 \in T BY <1>0, <1>1
<1>3. \A k \in 1 .. Count : k - 1 \in T => k \in T
  <2> SUFFICES ASSUME NEW k \in 1 .. Count, k - 1 \in T PROVE k \in T OBVIOUS
  <2>1. g[k - 1] \in MergeLogs /\ g[k] = Up(f, g[k - 1]) /\ h[g[k - 1]] = h[x] BY <1>0, <1>1
  <2>2. h[g[k]] = h[g[k - 1]] BY <2>1 DEF Up
  <2> QED BY <2>1, <2>2
<1>4. Count \in T
  <2> HIDE DEF T
  <2> QED BY <1>0, <1>2, <1>3, InductionUpTo
<1>5. h[Climb(f, x)] = h[x] BY <1>1, <1>4
<1>6. Climb(f, x) \in MergeLogs /\ f[Climb(f, x)].parent = NoParent BY ClimbEnds
<1> QED BY <1>5, <1>6

\* Two trees become one.
LEMMA UnderKeeps ==
    ASSUME LogsAreNumbers, NEW f, Trees(f), Sized(f), NEW a \in MergeLogs, NEW b \in MergeLogs,
           a # b, f[a].parent = NoParent, f[b].parent = NoParent,
           NEW more \in Nat
    PROVE  Trees(Under(f, a, b, more)) /\ Sized(Under(f, a, b, more))
<1>1. PICK u : u = Under(f, a, b, more) OBVIOUS
<1>2. f \in [MergeLogs -> [parent : MergeLogs \cup {NoParent}, rank : Nat, sz : Nat]] BY DEF Trees
<1>3. /\ \A x \in MergeLogs : x # a /\ x # b => u[x] = f[x]
      /\ u[b].parent = a /\ u[b].rank = f[b].rank /\ u[b].sz = f[b].sz
      /\ u[a].parent = NoParent /\ u[a].rank = f[a].rank + more /\ u[a].sz = f[a].sz + f[b].sz
      BY <1>1, <1>2 DEF Under
<1>4. u \in [MergeLogs -> [parent : MergeLogs \cup {NoParent}, rank : Nat, sz : Nat]]
  <2>1. DOMAIN u = MergeLogs /\ u = [x \in MergeLogs |-> u[x]] BY <1>1, <1>2 DEF Under
  <2>2. u[b] = [f[b] EXCEPT !.parent = a] BY <1>1, <1>2 DEF Under
  <2>3. u[a] = [f[a] EXCEPT !.sz = f[a].sz + f[b].sz, !.rank = f[a].rank + more]
        BY <1>1, <1>2 DEF Under
  <2>4. PICK fa, fb : fa = f[a] /\ fb = f[b] OBVIOUS
  <2>5. /\ fa \in [parent : MergeLogs \cup {NoParent}, rank : Nat, sz : Nat]
        /\ fb \in [parent : MergeLogs \cup {NoParent}, rank : Nat, sz : Nat]
        BY <1>2, <2>4
  <2>6. u[b] \in [parent : MergeLogs \cup {NoParent}, rank : Nat, sz : Nat]
        BY <2>2, <2>4, <2>5
  <2>7. u[a] \in [parent : MergeLogs \cup {NoParent}, rank : Nat, sz : Nat]
    <3>1. PICK s, r : s = fa.sz + fb.sz /\ r = fa.rank + more OBVIOUS
    <3>2. s \in Nat /\ r \in Nat BY <2>5, <3>1
    <3>3. u[a] = [[fa EXCEPT !.sz = s] EXCEPT !.rank = r] BY <2>3, <2>4, <3>1
    <3> QED BY <2>5, <3>2, <3>3
  <2>8. \A x \in MergeLogs : u[x] \in [parent : MergeLogs \cup {NoParent}, rank : Nat, sz : Nat]
        BY <1>2, <1>3, <2>6, <2>7
  <2> QED BY <2>1, <2>8
<1>5. \A x \in MergeLogs : f[x].sz \in 1 .. Count BY <1>2 DEF Trees
<1>6. NoParent \notin MergeLogs BY DEF LogsAreNumbers, NoParent
<1>7. IsFiniteSet(MergeLogs) /\ Cardinality(MergeLogs) = Count
  <2>1. Count \in Nat BY DEF LogsAreNumbers
  <2>2. IsFiniteSet(0 .. Count - 1) BY <2>1, FS_Interval
  <2> QED BY <2>2 DEF LogsAreNumbers, Count
<1>8. f[a].sz = Cardinality(Below(f, a)) /\ f[b].sz = Cardinality(Below(f, b))
      BY DEF Sized
<1>9. Below(f, a) \cap Below(f, b) = {} BY DEF Below
<1>10. /\ IsFiniteSet(Below(f, a)) /\ IsFiniteSet(Below(f, b))
       /\ Cardinality(Below(f, a) \cup Below(f, b)) = f[a].sz + f[b].sz
  <2>1. Below(f, a) \in SUBSET MergeLogs /\ Below(f, b) \in SUBSET MergeLogs BY DEF Below
  <2>2. IsFiniteSet(Below(f, a)) /\ IsFiniteSet(Below(f, b)) BY <1>7, <2>1, FS_Subset
  <2>3. Cardinality(Below(f, a) \cup Below(f, b)) =
          Cardinality(Below(f, a)) + Cardinality(Below(f, b)) - Cardinality(Below(f, a) \cap Below(f, b))
        BY <2>2, FS_Union
  <2>4. Cardinality(Below(f, a) \cap Below(f, b)) = 0 BY <1>9, FS_EmptySet
  <2> QED BY <1>5, <1>8, <2>2, <2>3, <2>4
<1>11. f[a].sz + f[b].sz <= Count
  <2>1. Below(f, a) \cup Below(f, b) \in SUBSET MergeLogs BY DEF Below
  <2>2. Cardinality(Below(f, a) \cup Below(f, b)) <= Cardinality(MergeLogs) BY <1>7, <2>1, FS_Subset
  <2> QED BY <1>7, <1>10, <2>2
<1>12. Count \in Nat /\ u[a].sz \in 1 .. Count /\ f[a].sz < u[a].sz /\ f[b].sz < u[a].sz
  <2>1. Count \in Nat BY DEF LogsAreNumbers
  <2>2. f[a].sz \in 1 .. Count /\ f[b].sz \in 1 .. Count BY <1>5
  <2> QED BY <1>3, <1>11, <2>1, <2>2
<1>13. Trees(u)
  <2>1. \A x \in MergeLogs : u[x].sz \in 1 .. Count BY <1>3, <1>5, <1>12
  <2>2. ASSUME NEW x \in MergeLogs, u[x].parent # NoParent PROVE u[x].sz < u[u[x].parent].sz
    <3>1. CASE x = b BY <1>3, <1>12, <3>1
    <3>2. CASE x # b
      <4>1. u[x] = f[x] /\ f[x].parent # NoParent BY <1>3, <2>2, <3>2
      <4>2. f[x].parent \in MergeLogs /\ f[x].sz < f[f[x].parent].sz BY <1>2, <4>1 DEF Trees
      <4>3. PICK p : p = f[x].parent OBVIOUS
      <4>4. p \in MergeLogs /\ f[x].sz < f[p].sz BY <4>2, <4>3
      <4>5. f[p].sz <= u[p].sz BY <1>3, <1>5, <1>12, <4>4
      <4>6. f[x].sz < u[p].sz
        <5>1. f[x].sz \in 1 .. Count /\ f[p].sz \in 1 .. Count /\ u[p].sz \in 1 .. Count
              BY <1>5, <2>1, <4>4
        <5> QED BY <1>12, <4>4, <4>5, <5>1
      <4> QED BY <4>1, <4>3, <4>6
    <3> QED BY <3>1, <3>2
  <2> QED BY <1>4, <2>1, <2>2 DEF Trees
<1>14. \A x \in MergeLogs : Climb(u, x) = IF Climb(f, x) = b THEN a ELSE Climb(f, x)
  <2> DEFINE h == [x \in MergeLogs |-> IF Climb(f, x) = b THEN a ELSE Climb(f, x)]
  <2>0. \A x \in MergeLogs : h[x] = IF Climb(f, x) = b THEN a ELSE Climb(f, x) OBVIOUS
  <2> HIDE DEF h
  <2>a. Climb(f, a) = a /\ Climb(f, b) = b BY ClimbEnds
  <2>1. ASSUME NEW x \in MergeLogs, u[x].parent = NoParent PROVE h[x] = x
    <3>1. x # b BY <1>3, <1>6, <2>1
    <3>2. f[x].parent = NoParent BY <1>3, <2>1, <3>1
    <3>3. Climb(f, x) = x BY <3>2, ClimbEnds
    <3> QED BY <2>0, <3>1, <3>3
  <2>2. ASSUME NEW x \in MergeLogs, u[x].parent # NoParent PROVE h[x] = h[u[x].parent]
    <3>1. CASE x = b BY <1>3, <2>0, <2>a, <3>1
    <3>2. CASE x # b
      <4>1. u[x] = f[x] /\ f[x].parent # NoParent BY <1>3, <2>2, <3>2
      <4>2. f[x].parent \in MergeLogs /\ Climb(f, x) = Climb(f, f[x].parent) BY <4>1, ClimbEnds
      <4> QED BY <2>0, <4>1, <4>2
    <3> QED BY <3>1, <3>2
  <2>3. \A x \in MergeLogs : h[x] = Climb(u, x) BY <1>13, <2>1, <2>2, ClimbIsOnly
  <2> QED BY <2>0, <2>3
<1>15. Sized(u)
  <2> SUFFICES ASSUME NEW r \in MergeLogs, u[r].parent = NoParent
               PROVE  u[r].sz = Cardinality(Below(u, r))
      BY DEF Sized
  <2>1. r # b BY <1>3, <1>6
  <2>2. CASE r = a
    <3>1. Below(u, r) = Below(f, a) \cup Below(f, b) BY <1>14, <2>2 DEF Below
    <3> QED BY <1>3, <1>10, <2>2, <3>1
  <2>3. CASE r # a
    <3>1. Below(u, r) = Below(f, r) BY <1>14, <2>1, <2>3 DEF Below
    <3>2. u[r] = f[r] BY <1>3, <2>1, <2>3
    <3> QED BY <3>1, <3>2 DEF Sized
  <2> QED BY <2>2, <2>3
<1> QED BY <1>1, <1>13, <1>15

LEMMA UnitedKeeps ==
    ASSUME LogsAreNumbers, NEW f, Trees(f), Sized(f), NEW i \in MergeLogs, NEW j \in MergeLogs
    PROVE  Trees(United(f, i, j)) /\ Sized(United(f, i, j))
<1>1. j # NoParent BY DEF LogsAreNumbers, NoParent
<1>2. PICK a, b : a = Climb(f, i) /\ b = Climb(f, j) OBVIOUS
<1>3. a \in MergeLogs /\ b \in MergeLogs /\ f[a].parent = NoParent /\ f[b].parent = NoParent
      BY <1>2, ClimbEnds
<1>4. a # b => /\ Trees(Under(f, a, b, 0)) /\ Sized(Under(f, a, b, 0))
               /\ Trees(Under(f, b, a, 0)) /\ Sized(Under(f, b, a, 0))
               /\ Trees(Under(f, a, b, 1)) /\ Sized(Under(f, a, b, 1))
      BY <1>3, UnderKeeps
<1>5. United(f, i, j) \in {f} \cup (IF a = b THEN {}
                                    ELSE {Under(f, a, b, 0), Under(f, b, a, 0), Under(f, a, b, 1)})
  <2> HIDE DEF Under, Climb
  <2> QED BY <1>1, <1>2 DEF United
<1> QED BY <1>4, <1>5

Steps == {"parse", "merge", "dbscan", "kmeans", "choose", "mark", "done"}
Clusters == [logs : SUBSET MergeLogs, outlier : BOOLEAN]
Disjoint(cs) == \A c, d \in cs : c # d => c.logs \cap d.logs = {}

\* A forest of more than one log has trees and sizes that count.
MergeType ==
    /\ tmAt \in Steps /\ tmNext \in Nat /\ LogsAreNumbers
    /\ Count > 1 => Trees(tmForest) /\ Sized(tmForest)
    /\ tmAt = "parse" => tmForest = <<>>

\* Nothing is normal before the last round of DBSCAN; clusters are sets of logs.
ClustersFit ==
    /\ tmAt \in {"parse", "merge", "dbscan"} => tmNormal = {}
    /\ tmAt \in {"dbscan", "kmeans", "choose"} => IsFiniteSet(tmClusters) /\ tmClusters \in SUBSET Clusters

MergeInv == MergeType /\ ClustersFit /\ TemplatesKept

LEMMA LogsAreFinite ==
    ASSUME LogsAreNumbers, NEW xs, xs \in SUBSET MergeLogs
    PROVE  IsFiniteSet(MergeLogs) /\ IsFiniteSet(xs)
<1>1. Count \in Nat BY DEF LogsAreNumbers
<1>2. IsFiniteSet(0 .. Count - 1) BY <1>1, FS_Interval
<1>3. IsFiniteSet(MergeLogs) BY <1>2 DEF LogsAreNumbers
<1> QED BY <1>3, FS_Subset

LEMMA SinglesAre ==
    ASSUME LogsAreNumbers, NEW xs, xs \in SUBSET MergeLogs
    PROVE  /\ Singles(xs) \in SUBSET Clusters /\ IsFiniteSet(Singles(xs))
           /\ LogsOf(Singles(xs)) = xs /\ Disjoint(Singles(xs))
<1> DEFINE m == [x \in xs |-> [logs |-> {x}, outlier |-> FALSE]]
<1>1. IsFiniteSet(xs) BY LogsAreFinite
<1>2. m \in [xs -> Singles(xs)] /\ \A t \in Singles(xs) : \E x \in xs : m[x] = t
      BY DEF Singles
<1>3. IsFiniteSet(Singles(xs))
  <2> HIDE DEF m
  <2> QED BY <1>1, <1>2, ImageIsFinite
<1>a. \A x \in xs : m[x] \in Singles(xs) /\ m[x].logs = {x} /\ m[x] \in Clusters
      BY <1>2 DEF Clusters
<1>b. \A e \in Singles(xs) : \E x \in xs : e = m[x] BY <1>2
<1> HIDE DEF m
<1>4. Singles(xs) \in SUBSET Clusters
  <2>1. \A e \in Singles(xs) : e \in Clusters BY <1>a, <1>b
  <2> QED BY <2>1
<1>5. LogsOf(Singles(xs)) = xs
  <2>1. \A x \in LogsOf(Singles(xs)) : x \in xs
    <3> SUFFICES ASSUME NEW e \in Singles(xs), NEW x \in e.logs PROVE x \in xs BY DEF LogsOf
    <3>1. PICK y \in xs : e = m[y] BY <1>b
    <3> QED BY <1>a, <3>1
  <2>2. \A x \in xs : x \in LogsOf(Singles(xs))
    <3> SUFFICES ASSUME NEW x \in xs PROVE x \in LogsOf(Singles(xs)) OBVIOUS
    <3>1. m[x] \in Singles(xs) /\ x \in m[x].logs BY <1>a
    <3> QED BY <3>1 DEF LogsOf
  <2> QED BY <2>1, <2>2
<1>6. Disjoint(Singles(xs))
  <2> SUFFICES ASSUME NEW c \in Singles(xs), NEW d \in Singles(xs), c # d PROVE c.logs \cap d.logs = {}
      BY DEF Disjoint
  <2>1. PICK x \in xs : c = m[x] BY <1>b
  <2>2. PICK y \in xs : d = m[y] BY <1>b
  <2>3. x # y BY <2>1, <2>2
  <2> QED BY <1>a, <2>1, <2>2, <2>3
<1> QED BY <1>3, <1>4, <1>5, <1>6

\* Clusters that are regrouped share the same logs as before, each in one of them.
LEMMA RegroupedKeeps ==
    ASSUME tmClusters \in SUBSET Clusters, IsFiniteSet(tmClusters), Disjoint(tmClusters),
           NEW label, label \in [tmClusters -> Nat]
    PROVE  /\ Regrouped(label) \in SUBSET Clusters /\ IsFiniteSet(Regrouped(label))
           /\ LogsOf(Regrouped(label)) = LogsOf(tmClusters) /\ Disjoint(Regrouped(label))
<1> DEFINE One(c) == IF label[c] = 0 THEN [c EXCEPT !.outlier = TRUE]
                     ELSE [logs |-> LogsOf(WithLabel(label, label[c])), outlier |-> FALSE]
           m == [c \in tmClusters |-> One(c)]
<1>1. \A e : e \in Regrouped(label) <=> \E c \in tmClusters : e = One(c)
      BY DEF Regrouped, WithLabel
<1>2. \A c \in tmClusters : c.logs \in SUBSET MergeLogs
      BY DEF Clusters
<1>3. ASSUME NEW c \in tmClusters
      PROVE  /\ One(c) \in Clusters
             /\ label[c] = 0 => One(c).logs = c.logs
             /\ label[c] # 0 => One(c).logs = LogsOf(WithLabel(label, label[c]))
  <2>1. CASE label[c] = 0
    <3>1. c \in Clusters OBVIOUS
    <3>2. [c EXCEPT !.outlier = TRUE] \in Clusters /\ [c EXCEPT !.outlier = TRUE].logs = c.logs
          BY <3>1 DEF Clusters
    <3> QED BY <2>1, <3>2
  <2>2. CASE label[c] # 0
    <3>1. LogsOf(WithLabel(label, label[c])) \in SUBSET MergeLogs BY <1>2 DEF LogsOf, WithLabel
    <3> QED BY <2>2, <3>1 DEF Clusters
  <2> QED BY <2>1, <2>2
<1>4. Regrouped(label) \in SUBSET Clusters
  <2>1. \A c \in tmClusters : One(c) \in Clusters BY <1>3
  <2> HIDE DEF One
  <2>2. \A e \in Regrouped(label) : e \in Clusters BY <1>1, <2>1
  <2> QED BY <2>2
<1>5. IsFiniteSet(Regrouped(label))
  <2>1. m \in [tmClusters -> Regrouped(label)] BY <1>1
  <2>2. \A t \in Regrouped(label) : \E c \in tmClusters : m[c] = t BY <1>1
  <2> HIDE DEF m
  <2> QED BY <2>1, <2>2, ImageIsFinite
<1> HIDE DEF One
<1>6. \A c \in tmClusters : \A x \in One(c).logs :
         \E b \in tmClusters : x \in b.logs /\ label[b] = label[c] /\ (label[c] = 0 => b = c)
  <2> SUFFICES ASSUME NEW c \in tmClusters, NEW x \in One(c).logs
               PROVE  \E b \in tmClusters : x \in b.logs /\ label[b] = label[c] /\ (label[c] = 0 => b = c)
      OBVIOUS
  <2>1. CASE label[c] = 0 BY <1>3, <2>1
  <2>2. CASE label[c] # 0 BY <1>3, <2>2 DEF LogsOf, WithLabel
  <2> QED BY <2>1, <2>2
<1>7. \A c \in tmClusters : c.logs \subseteq One(c).logs
  <2> SUFFICES ASSUME NEW c \in tmClusters PROVE c.logs \subseteq One(c).logs OBVIOUS
  <2>1. CASE label[c] = 0 BY <1>3, <2>1
  <2>2. CASE label[c] # 0 BY <1>3, <2>2 DEF LogsOf, WithLabel
  <2> QED BY <2>1, <2>2
<1>8. LogsOf(Regrouped(label)) = LogsOf(tmClusters)
  <2>1. \A x \in LogsOf(Regrouped(label)) : x \in LogsOf(tmClusters) BY <1>1, <1>6 DEF LogsOf
  <2>2. \A x \in LogsOf(tmClusters) : x \in LogsOf(Regrouped(label))
    <3> SUFFICES ASSUME NEW c \in tmClusters, NEW x \in c.logs PROVE x \in LogsOf(Regrouped(label))
        BY DEF LogsOf
    <3>1. One(c) \in Regrouped(label) /\ x \in One(c).logs BY <1>1, <1>7
    <3> QED BY <3>1 DEF LogsOf
  <2> QED BY <2>1, <2>2
<1>9. Disjoint(Regrouped(label))
  <2> SUFFICES ASSUME NEW c \in tmClusters, NEW d \in tmClusters, One(c) # One(d),
                      NEW x \in One(c).logs, x \in One(d).logs
               PROVE  FALSE
      BY <1>1 DEF Disjoint
  <2>1. PICK b \in tmClusters : x \in b.logs /\ label[b] = label[c] /\ (label[c] = 0 => b = c) BY <1>6
  <2>2. PICK e \in tmClusters : x \in e.logs /\ label[e] = label[d] /\ (label[d] = 0 => e = d) BY <1>6
  <2>3. b = e BY <2>1, <2>2 DEF Disjoint
  <2>4. label[c] = label[d] BY <2>1, <2>2, <2>3
  <2>5. CASE label[c] = 0
    <3>1. c = d BY <2>1, <2>2, <2>3, <2>4, <2>5
    <3> QED BY <3>1
  <2>6. CASE label[c] # 0 BY <2>4, <2>6 DEF One
  <2> QED BY <2>5, <2>6
<1> QED BY <1>4, <1>5, <1>8, <1>9

LEMMA UnitedDomain ==
    ASSUME NEW f, NEW i, NEW j PROVE DOMAIN United(f, i, j) = DOMAIN f
<1>1. \A a, b, k : DOMAIN Under(f, a, b, k) = DOMAIN f BY DEF Under
<1> HIDE DEF Under, Climb
<1> QED BY <1>1 DEF United

LEMMA MergeInvInit == TmInit => MergeInv
<1> SUFFICES ASSUME TmInit PROVE MergeInv OBVIOUS
<1>1. MergeLogs = {} /\ Count = 0 /\ 0 .. 0 - 1 = {}
  <2>1. MergeLogs = {} BY DEF TmInit, MergeLogs
  <2> QED BY <2>1, FS_EmptySet DEF Count
<1>2. LogsAreNumbers BY <1>1 DEF LogsAreNumbers
<1> QED BY <1>1, <1>2 DEF TmInit, MergeInv, MergeType, ClustersFit, TemplatesKept, Steps

\* (As a formula, so that it can be said of the next state as well.)
RootIsItself(f, x) == LogsAreNumbers /\ Trees(f) /\ f[x].parent = NoParent => Climb(f, x) = x

LEMMA RootsAreThemselves == \A f : \A x \in MergeLogs : RootIsItself(f, x)
BY ClimbEnds DEF RootIsItself

LEMMA MergeTypeStep == MergeInv /\ TmNext => MergeType'
<1> SUFFICES ASSUME MergeInv, TmNext PROVE MergeType' OBVIOUS
<1>1. CASE ParseLogs
  <2>1. PICK n \in LogCounts : tmForest' = [x \in 0 .. n - 1 |-> [parent |-> NoParent, rank |-> 0, sz |-> 1]]
        BY <1>1 DEF ParseLogs
  <2>2. n \in Nat /\ n > 0 BY MergeAssumption
  <2>3. MergeLogs' = 0 .. n - 1 BY <2>1 DEF MergeLogs
  <2>4. Count' = n
    <3>1. Cardinality(0 .. n - 1) = IF 0 > n - 1 THEN 0 ELSE (n - 1) - 0 + 1 BY <2>2, FS_Interval
    <3> QED BY <2>2, <2>3, <3>1 DEF Count
  <2>5. LogsAreNumbers' BY <2>2, <2>3, <2>4 DEF LogsAreNumbers
  <2>6. \A x \in MergeLogs' : tmForest'[x].parent = NoParent /\ tmForest'[x].rank = 0 /\ tmForest'[x].sz = 1
        BY <2>1, <2>3
  <2>7. Trees(tmForest)'
    <3>1. tmForest' \in [MergeLogs' -> [parent : MergeLogs' \cup {NoParent}, rank : Nat, sz : Nat]]
          BY <2>1, <2>3
    <3> QED BY <2>2, <2>4, <2>6, <3>1 DEF Trees
  <2>8. Sized(tmForest)'
    <3>1. LogsAreNumbers' /\ Trees(tmForest)' BY <2>5, <2>7
    <3>2. (\A f : \A x \in MergeLogs : RootIsItself(f, x))' BY RootsAreThemselves, PTL
    <3>3. \A x \in MergeLogs' : RootIsItself(tmForest, x)' BY <3>2
    <3>4. \A x \in MergeLogs' : Climb(tmForest, x)' = x BY <2>6, <3>1, <3>3 DEF RootIsItself
    <3> SUFFICES ASSUME NEW r \in MergeLogs' PROVE tmForest'[r].sz = Cardinality(Below(tmForest, r)')
        BY DEF Sized
    <3>5. Below(tmForest, r)' = {r} BY <3>4 DEF Below
    <3> QED BY <2>6, <3>5, FS_Singleton
  <2> QED BY <1>1, <2>5, <2>7, <2>8 DEF ParseLogs, MergeInv, MergeType, Steps
<1>2. CASE MergeTemplate
  <2>1. PICK near \in Nearest :
           tmForest' = United(United(tmForest, tmNext, near[1]), tmNext, near[2])
        BY <1>2 DEF MergeTemplate
  <2>2. MergeLogs' = MergeLogs BY <2>1, UnitedDomain DEF MergeLogs
  <2>3. Count' = Count BY <2>2 DEF Count
  <2>4. LogsAreNumbers' /\ LogsAreNumbers BY <2>2, <2>3 DEF LogsAreNumbers, MergeInv, MergeType
  <2>5. ASSUME Count > 1 PROVE Trees(tmForest)' /\ Sized(tmForest)'
    <3>1. near[1] \in MergeLogs /\ near[2] \in MergeLogs BY <2>5 DEF Nearest
    <3>2. tmNext \in MergeLogs BY <1>2, <2>4 DEF MergeTemplate, LogsAreNumbers, MergeInv, MergeType
    <3>3. PICK i, j, k, f, g, t : i = tmNext /\ j = near[1] /\ k = near[2] /\ f = tmForest
                                   /\ g = United(f, i, j) /\ t = United(g, i, k)
          OBVIOUS
    <3>4. i \in MergeLogs /\ j \in MergeLogs /\ k \in MergeLogs BY <3>1, <3>2, <3>3
    <3>5. Trees(f) /\ Sized(f) BY <2>5, <3>3 DEF MergeInv, MergeType
    <3>6. Trees(g) /\ Sized(g) BY <2>4, <3>3, <3>4, <3>5, UnitedKeeps
    <3>7. Trees(t) /\ Sized(t) BY <2>4, <3>3, <3>4, <3>6, UnitedKeeps
    <3>8. tmForest' = t BY <2>1, <3>3
    <3>9. Trees(tmForest)' BY <2>2, <2>3, <3>7, <3>8 DEF Trees
    <3>10. \A x : Climb(tmForest, x)' = Climb(t, x) BY <2>3, <3>8 DEF Climb
    <3>11. \A r : Below(tmForest, r)' = Below(t, r) BY <2>2, <3>10 DEF Below
    <3>12. Sized(tmForest)' BY <2>2, <3>7, <3>8, <3>11 DEF Sized
    <3> QED BY <3>9, <3>12
  <2> QED BY <1>2, <2>3, <2>4, <2>5 DEF MergeTemplate, MergeInv, MergeType
<1>3. CASE KeepRoots \/ DbscanRound \/ DbscanLast \/ KMeansRound \/ Choose \/ Mark
  <2>1. tmForest' = tmForest /\ tmNext' = tmNext /\ tmAt' \in Steps \ {"parse"}
        BY <1>3 DEF KeepRoots, DbscanRound, DbscanLast, KMeansRound, Choose, Mark, Steps
  <2>2. MergeLogs' = MergeLogs BY <2>1 DEF MergeLogs
  <2>3. Count' = Count BY <2>2 DEF Count
  <2>4. LogsAreNumbers' BY <2>2, <2>3 DEF LogsAreNumbers, MergeInv, MergeType
  <2>5. Trees(tmForest)' = Trees(tmForest) BY <2>1, <2>2, <2>3 DEF Trees
  <2>6. \A x : Climb(tmForest, x)' = Climb(tmForest, x) BY <2>1, <2>3 DEF Climb
  <2>7. Sized(tmForest)' = Sized(tmForest)
    <3>1. \A r : Below(tmForest, r)' = Below(tmForest, r) BY <2>2, <2>6 DEF Below
    <3> QED BY <2>1, <2>2, <3>1 DEF Sized
  <2> QED BY <2>1, <2>3, <2>4, <2>5, <2>7 DEF MergeInv, MergeType
<1> QED BY <1>1, <1>2, <1>3 DEF TmNext

LEMMA ClustersStep == MergeInv /\ TmNext => ClustersFit' /\ TemplatesKept'
<1> SUFFICES ASSUME MergeInv, TmNext PROVE ClustersFit' /\ TemplatesKept' OBVIOUS
<1>0. /\ LogsAreNumbers /\ ClustersFit /\ TemplatesKept /\ tmAt \in Steps
      BY DEF MergeInv, MergeType
<1>r. Roots \in SUBSET MergeLogs BY DEF Roots
<1>k. tmForest' = tmForest => Roots' = Roots /\ Clusters' = Clusters
      BY DEF Roots, Clusters, MergeLogs
<1>1. CASE ParseLogs BY <1>0, <1>1 DEF ParseLogs, ClustersFit, TemplatesKept
<1>2. CASE MergeTemplate BY <1>0, <1>2 DEF MergeTemplate, ClustersFit, TemplatesKept
<1>3. CASE KeepRoots
  <2>1. /\ Singles(Roots) \in SUBSET Clusters /\ IsFiniteSet(Singles(Roots))
        /\ LogsOf(Singles(Roots)) = Roots /\ Disjoint(Singles(Roots))
        BY <1>0, <1>r, SinglesAre
  <2> QED BY <1>0, <1>k, <1>3, <2>1 DEF KeepRoots, ClustersFit, TemplatesKept, Disjoint
<1>4. CASE DbscanRound
  <2>1. PICK label \in Labels : tmClusters' = Regrouped(label) BY <1>4 DEF DbscanRound
  <2>2. tmClusters \in SUBSET Clusters /\ IsFiniteSet(tmClusters) /\ Disjoint(tmClusters)
        /\ LogsOf(tmClusters) \cup tmNormal = Roots /\ LogsOf(tmClusters) \cap tmNormal = {}
        BY <1>0, <1>4 DEF DbscanRound, ClustersFit, TemplatesKept, Disjoint
  <2>3. label \in [tmClusters -> Nat]
    <3>1. Cardinality(tmClusters) \in Nat BY <2>2, FS_CardinalityType
    <3> QED BY <3>1 DEF Labels
  <2>4. /\ Regrouped(label) \in SUBSET Clusters /\ IsFiniteSet(Regrouped(label))
        /\ LogsOf(Regrouped(label)) = LogsOf(tmClusters) /\ Disjoint(Regrouped(label))
        BY <2>2, <2>3, RegroupedKeeps
  <2> QED BY <1>0, <1>k, <1>4, <2>1, <2>2, <2>4 DEF DbscanRound, ClustersFit, TemplatesKept, Disjoint
<1>5. CASE DbscanLast
  <2>1. PICK label \in Labels :
           /\ tmNormal' = LogsOf({c \in Regrouped(label) : ~c.outlier})
           /\ tmClusters' = Singles(LogsOf({c \in Regrouped(label) : c.outlier}))
        BY <1>5 DEF DbscanLast
  <2>2. tmClusters \in SUBSET Clusters /\ IsFiniteSet(tmClusters) /\ Disjoint(tmClusters)
        /\ LogsOf(tmClusters) = Roots
        BY <1>0, <1>5 DEF DbscanLast, ClustersFit, TemplatesKept, Disjoint
  <2>3. label \in [tmClusters -> Nat]
    <3>1. Cardinality(tmClusters) \in Nat BY <2>2, FS_CardinalityType
    <3> QED BY <3>1 DEF Labels
  <2>4. PICK rs : rs = Regrouped(label) OBVIOUS
  <2>5. rs \in SUBSET Clusters /\ LogsOf(rs) = Roots /\ Disjoint(rs)
        BY <2>2, <2>3, <2>4, RegroupedKeeps
  <2> DEFINE normal == LogsOf({c \in rs : ~c.outlier})
             others == LogsOf({c \in rs : c.outlier})
  <2>6. normal \cup others = Roots BY <2>5 DEF LogsOf
  <2>7. normal \cap others = {} BY <2>5 DEF LogsOf, Disjoint
  <2>8. tmNormal' = normal /\ tmClusters' = Singles(others) BY <2>1, <2>4
  <2> HIDE DEF normal, others
  <2>9. others \in SUBSET MergeLogs BY <1>r, <2>6
  <2>10. /\ Singles(others) \in SUBSET Clusters /\ IsFiniteSet(Singles(others))
         /\ LogsOf(Singles(others)) = others /\ Disjoint(Singles(others))
         BY <1>0, <2>9, SinglesAre
  <2> QED BY <1>k, <1>5, <2>6, <2>7, <2>8, <2>10 DEF DbscanLast, ClustersFit, TemplatesKept, Disjoint
<1>6. CASE KMeansRound
  <2>1. PICK label \in [tmClusters -> 1 .. Cardinality(tmClusters)] : tmClusters' = Regrouped(label)
        BY <1>6 DEF KMeansRound
  <2>2. tmClusters \in SUBSET Clusters /\ IsFiniteSet(tmClusters) /\ Disjoint(tmClusters)
        /\ LogsOf(tmClusters) \cup tmNormal = Roots /\ LogsOf(tmClusters) \cap tmNormal = {}
        BY <1>0, <1>6 DEF KMeansRound, ClustersFit, TemplatesKept, Disjoint
  <2>3. label \in [tmClusters -> Nat]
    <3>1. Cardinality(tmClusters) \in Nat BY <2>2, FS_CardinalityType
    <3> QED BY <3>1
  <2>4. /\ Regrouped(label) \in SUBSET Clusters /\ IsFiniteSet(Regrouped(label))
        /\ LogsOf(Regrouped(label)) = LogsOf(tmClusters) /\ Disjoint(Regrouped(label))
        BY <2>2, <2>3, RegroupedKeeps
  <2>5. tmForest' = tmForest /\ tmNormal' = tmNormal /\ tmAt' \in {"kmeans", "choose"}
        BY <1>6 DEF KMeansRound
  <2> QED BY <1>k, <2>1, <2>2, <2>4, <2>5 DEF ClustersFit, TemplatesKept, Disjoint
<1>7. CASE Choose
  <2>1. PICK far \in SUBSET tmClusters : Cardinality(far) = Chosen /\ tmPicked' = LogsOf(far)
        BY <1>7 DEF Choose
  <2>2. IsFiniteSet(tmClusters) /\ LogsOf(tmClusters) \cup tmNormal = Roots
        /\ LogsOf(tmClusters) \cap tmNormal = {}
        BY <1>0, <1>7 DEF Choose, ClustersFit, TemplatesKept
  <2>3. LogsOf(far) \subseteq Roots \ tmNormal BY <2>2 DEF LogsOf
  <2>4. ASSUME Cardinality(tmClusters) <= 2 * AnomalyCount PROVE LogsOf(far) = Roots \ tmNormal
    <3>1. Cardinality(tmClusters) \in Nat /\ AnomalyCount \in Nat
          BY <2>2, FS_CardinalityType, MergeAssumption
    <3>2. Cardinality(far) = Cardinality(tmClusters) BY <2>1, <2>4, <3>1 DEF Chosen
    <3>3. far = tmClusters BY <2>2, <3>2, FS_Subset
    <3> QED BY <2>2, <3>3
  <2> QED BY <1>k, <1>7, <2>1, <2>3, <2>4 DEF Choose, ClustersFit, TemplatesKept
<1>8. CASE Mark BY <1>0, <1>k, <1>8 DEF Mark, ClustersFit, TemplatesKept
<1> QED BY <1>1, <1>2, <1>3, <1>4, <1>5, <1>6, <1>7, <1>8 DEF TmNext

LEMMA MergeInvStep == MergeInv /\ [TmNext]_tmVars => MergeInv'
<1> SUFFICES ASSUME MergeInv, [TmNext]_tmVars PROVE MergeInv' OBVIOUS
<1>1. CASE TmNext BY <1>1, MergeTypeStep, ClustersStep DEF MergeInv
<1>2. CASE UNCHANGED tmVars
  <2>1. MergeLogs' = MergeLogs BY <1>2 DEF tmVars, MergeLogs
  <2>2. Count' = Count BY <2>1 DEF Count
  <2>3. \A x : Climb(tmForest, x)' = Climb(tmForest, x) BY <1>2, <2>2 DEF tmVars, Climb
  <2>4. \A r : Below(tmForest, r)' = Below(tmForest, r) BY <2>1, <2>3 DEF Below
  <2>5. MergeType'
    <3>1. LogsAreNumbers' = LogsAreNumbers BY <2>1, <2>2 DEF LogsAreNumbers
    <3>2. Trees(tmForest)' = Trees(tmForest) BY <1>2, <2>1, <2>2 DEF tmVars, Trees
    <3>3. Sized(tmForest)' = Sized(tmForest) BY <1>2, <2>1, <2>4 DEF tmVars, Sized
    <3> QED BY <1>2, <2>2, <3>1, <3>2, <3>3 DEF tmVars, MergeInv, MergeType
  <2>6. Roots' = Roots /\ Clusters' = Clusters BY <1>2, <2>1 DEF tmVars, Roots, Clusters
  <2>7. ClustersFit' /\ TemplatesKept' BY <1>2, <2>6 DEF tmVars, MergeInv, ClustersFit, TemplatesKept
  <2> QED BY <2>5, <2>7 DEF MergeInv
<1> QED BY <1>1, <1>2

LEMMA MergeInvSound == MergeInv => ClustersAreSound
<1> SUFFICES ASSUME MergeInv PROVE ForestKept /\ TemplatesKept BY DEF ClustersAreSound
<1>1. ASSUME Count > 1
      PROVE  /\ \A x \in MergeLogs : Ends(tmForest, x)
             /\ \A r \in Roots : tmForest[r].sz = Cardinality({x \in MergeLogs : Climb(tmForest, x) = r})
  <2>1. LogsAreNumbers /\ Trees(tmForest) /\ Sized(tmForest) BY <1>1 DEF MergeInv, MergeType
  <2>2. \A x \in MergeLogs : Ends(tmForest, x) BY <2>1, ClimbEnds DEF Ends
  <2>3. ASSUME NEW r \in Roots
        PROVE  tmForest[r].sz = Cardinality({x \in MergeLogs : Climb(tmForest, x) = r})
    <3>1. tmForest[r].sz = Cardinality(Below(tmForest, r)) BY <2>1 DEF Sized, Roots
    <3> QED BY <3>1 DEF Below
  <2> QED BY <2>2, <2>3
<1> QED BY <1>1 DEF ForestKept, MergeInv

\* Uniting templates keeps a forest whose sizes count every log once
\* (merge_log_templates, ForestKept), and however labels fall, a template is in one
\* cluster or among the normal ones until the candidates are chosen (DBSCAN and
\* KMeans of service/cluster.py, TemplatesKept), for every number of logs, rounds
\* and candidates.
THEOREM ClustersStaySound ==
    TmInit /\ [][TmNext]_tmVars => []ClustersAreSound
<1> QED BY MergeInvInit, MergeInvStep, MergeInvSound, PTL

-----------------------------------------------------------------------------
(* The picked logs of a task.                                               *)

\* A list of the best of S: each place comes after all that rank above it, and a
\* place that is not listed ranks below every listed one, of which there are as
\* many as may be picked.
Listed(list, i) == \E n \in 1 .. Len(list) : list[n] = i
Leads(logs, S, list) ==
    /\ \A i \in S : i \in Int /\ logs[i].score \in Int
    /\ list \in Seq(S) /\ Len(list) <= PickCount
    /\ \A m, n \in 1 .. Len(list) : m < n => Above(logs, list[m], list[n])
    /\ \A m \in 1 .. Len(list), j \in S : Above(logs, j, list[m]) => \E l \in 1 .. m - 1 : list[l] = j
    /\ \A j \in S : ~ Listed(list, j) =>
         Len(list) = PickCount /\ \A n \in 1 .. Len(list) : Above(logs, list[n], j)

LEMMA RankedIsOrder ==
    ASSUME NEW logs, NEW S, IsFiniteSet(S), \A i \in S : i \in Int /\ logs[i].score \in Int
    PROVE  /\ Cardinality(S) \in Nat /\ Ranked(logs, S) \in [1 .. Cardinality(S) -> S]
           /\ \A m, n \in 1 .. Cardinality(S) :
                m < n => Above(logs, Ranked(logs, S)[m], Ranked(logs, S)[n])
           /\ \A i \in S : \E n \in 1 .. Cardinality(S) : Ranked(logs, S)[n] = i
<1> DEFINE R == {p \in S \X S : Above(logs, p[1], p[2])}
           B(x) == MembersBefore(S, R, x)
           c == Cardinality(S)
           L == Ranked(logs, S)
<1>1. \A x, y \in S : <<x, y>> \in R <=> Above(logs, x, y) OBVIOUS
<1> HIDE DEF R
<1>2. StrictOrder(S, R)
  <2>1. \A x \in S : ~ Above(logs, x, x) BY DEF Above
  <2>2. \A x, y, z \in S : Above(logs, x, y) /\ Above(logs, y, z) => Above(logs, x, z) BY DEF Above
  <2>3. \A x, y \in S : x = y \/ Above(logs, x, y) \/ Above(logs, y, x) BY DEF Above
  <2> QED BY <1>1, <2>1, <2>2, <2>3 DEF StrictOrder
<1>3. /\ c \in Nat /\ \A x \in S : B(x) \in 0 .. c - 1
      /\ \A x, y \in S : <<x, y>> \in R => B(x) < B(y)
      /\ \A n \in 0 .. c - 1 : \E x \in S : B(x) = n
      BY <1>2, MembersBeforeCount
<1>4. ASSUME NEW i \in S PROVE Cardinality({j \in S : Above(logs, j, i)}) = B(i)
  <2>1. {j \in S : Above(logs, j, i)} = {j \in S : <<j, i>> \in R} BY <1>1
  <2> QED BY <2>1 DEF MembersBefore
<1> HIDE DEF B
<1>5. ASSUME NEW n \in 1 .. c PROVE L[n] \in S /\ B(L[n]) = n - 1
  <2>1. L[n] = CHOOSE i \in S : Cardinality({j \in S : Above(logs, j, i)}) = n - 1 BY DEF Ranked
  <2>2. n - 1 \in 0 .. c - 1 BY <1>3
  <2>3. \E i \in S : Cardinality({j \in S : Above(logs, j, i)}) = n - 1 BY <1>3, <1>4, <2>2
  <2>4. L[n] \in S /\ Cardinality({j \in S : Above(logs, j, L[n])}) = n - 1 BY <2>1, <2>3
  <2> QED BY <1>4, <2>4
<1>6. L \in [1 .. c -> S]
  <2> DEFINE At(n) == CHOOSE i \in S : Cardinality({j \in S : Above(logs, j, i)}) = n - 1
  <2>1. L = [n \in 1 .. c |-> At(n)] BY DEF Ranked
  <2> HIDE DEF At
  <2>2. \A n \in 1 .. c : L[n] = At(n) BY <2>1
  <2> HIDE DEF L
  <2> QED BY <1>5, <2>1, <2>2
<1> HIDE DEF L, c
<1>7. ASSUME NEW m \in 1 .. c, NEW n \in 1 .. c, m < n PROVE Above(logs, L[m], L[n])
  <2>1. PICK x \in S, y \in S : x = L[m] /\ y = L[n] BY <1>5
  <2>2. B(x) = m - 1 /\ B(y) = n - 1 BY <1>5, <2>1
  <2>3. x = y \/ <<x, y>> \in R \/ <<y, x>> \in R BY <1>2 DEF StrictOrder
  <2>4. <<x, y>> \in R BY <1>3, <1>7, <2>2, <2>3
  <2> QED BY <1>1, <2>1, <2>4
<1>8. ASSUME NEW i \in S PROVE \E n \in 1 .. c : L[n] = i
  <2>1. PICK n \in 1 .. c : n = B(i) + 1 BY <1>3
  <2>2. PICK y \in S : y = L[n] BY <1>5
  <2>3. B(y) = B(i) BY <1>3, <1>5, <2>1, <2>2
  <2>4. i = y \/ <<i, y>> \in R \/ <<y, i>> \in R BY <1>2 DEF StrictOrder
  <2>5. y = i BY <1>3, <2>3, <2>4
  <2> QED BY <2>2, <2>5
<1> QED BY <1>3, <1>6, <1>7, <1>8 DEF L, c

LEMMA FirstOfLeads ==
    ASSUME NEW logs, NEW S, IsFiniteSet(S), \A i \in S : i \in Int /\ logs[i].score \in Int
    PROVE  Leads(logs, S, FirstOf(Ranked(logs, S), PickCount))
<1> DEFINE c == Cardinality(S)
           L == Ranked(logs, S)
           k == IF c < PickCount THEN c ELSE PickCount
           F == FirstOf(L, PickCount)
<1>1. /\ c \in Nat /\ L \in [1 .. c -> S]
      /\ \A m, n \in 1 .. c : m < n => Above(logs, L[m], L[n])
      /\ \A i \in S : \E n \in 1 .. c : L[n] = i
      BY RankedIsOrder
<1>2. PickCount \in Nat \ {0} BY PickAssumption
<1> HIDE DEF c, L
<1>3. k \in Nat /\ k <= c /\ k <= PickCount BY <1>1, <1>2
<1>4. L \in Seq(S) /\ Len(L) = c BY <1>1
<1>5. F = SubSeq(L, 1, k) BY <1>4 DEF FirstOf
<1> HIDE DEF k
<1>6. F \in Seq(S) /\ Len(F) = k /\ \A n \in 1 .. k : F[n] = L[n] BY <1>3, <1>4, <1>5
<1> HIDE DEF F
<1>7. \A m, n \in 1 .. k : m < n => Above(logs, F[m], F[n])
  <2>1. \A m \in 1 .. k : m \in 1 .. c BY <1>1, <1>3
  <2> QED BY <1>1, <1>6, <2>1
<1>8. ASSUME NEW m \in 1 .. k, NEW j \in S, Above(logs, j, F[m])
      PROVE  \E l \in 1 .. m - 1 : F[l] = j
  <2>1. m \in 1 .. c /\ F[m] = L[m] /\ F[m] \in S BY <1>1, <1>3, <1>6
  <2>2. PICK l \in 1 .. c : L[l] = j BY <1>1
  <2>3. ~ Above(logs, F[m], j) /\ F[m] # j BY <1>8, <2>1 DEF Above
  <2>4. l < m BY <1>1, <2>1, <2>2, <2>3
  <2>5. l \in 1 .. m - 1 /\ l \in 1 .. k BY <1>1, <1>3, <2>4
  <2> QED BY <1>6, <2>2, <2>5
<1>9. ASSUME NEW j \in S, \A n \in 1 .. k : F[n] # j
      PROVE  k = PickCount /\ \A n \in 1 .. k : Above(logs, F[n], j)
  <2>1. PICK l \in 1 .. c : L[l] = j BY <1>1
  <2>2. l > k BY <1>3, <1>6, <1>9, <2>1
  <2>3. k = PickCount BY <1>1, <1>2, <2>2 DEF k
  <2>4. \A n \in 1 .. k : n \in 1 .. c /\ n < l BY <1>1, <1>3, <2>2
  <2> QED BY <1>1, <1>6, <2>1, <2>3, <2>4
<1>10. \A j : ~ Listed(F, j) => \A n \in 1 .. k : F[n] # j BY <1>6 DEF Listed
<1>11. Leads(logs, S, F) BY <1>3, <1>6, <1>7, <1>8, <1>9, <1>10 DEF Leads
<1> QED BY <1>11 DEF F, L

\* One log is taken, or nothing changes.
LEMMA TakeNewAdds ==
    ASSUME NEW logs, NEW T, NEW picked \in Seq(T), NEW i \in T
    PROVE  /\ TakeNew(picked, i, logs) \in Seq(T)
           /\ Len(TakeNew(picked, i, logs)) <= Len(picked) + 1
           /\ \A j : Listed(picked, j) => Listed(TakeNew(picked, i, logs), j)
           /\ logs[i].score # 0 /\ Len(picked) < PickCount => Listed(TakeNew(picked, i, logs), i)
<1>1. PickCount \in Nat BY PickAssumption
<1>2. PICK t : t = TakeNew(picked, i, logs) OBVIOUS
<1>3. CASE logs[i].score = 0 \/ Listed(picked, i) \/ Len(picked) >= PickCount
  <2>1. t = picked BY <1>2, <1>3 DEF TakeNew, Listed
  <2> QED BY <1>1, <1>2, <1>3, <2>1
<1>4. CASE ~ (logs[i].score = 0 \/ Listed(picked, i) \/ Len(picked) >= PickCount)
  <2>1. t = Append(picked, i) BY <1>2, <1>4 DEF TakeNew, Listed
  <2>2. /\ t \in Seq(T) /\ Len(t) = Len(picked) + 1 /\ Len(picked) \in Nat /\ t[Len(t)] = i
        /\ \A n \in 1 .. Len(picked) : n \in 1 .. Len(t) /\ t[n] = picked[n] BY <2>1
  <2> QED BY <1>2, <2>2 DEF Listed
<1> QED BY <1>3, <1>4

LEMMA TakeAllAdds ==
    ASSUME NEW logs, NEW T, NEW picked \in Seq(T), NEW list \in Seq(T)
    PROVE  /\ TakeAll(picked, list, logs) \in Seq(T)
           /\ Len(TakeAll(picked, list, logs)) <= Len(picked) + Len(list)
           /\ \A j : Listed(picked, j) => Listed(TakeAll(picked, list, logs), j)
           /\ list # <<>> /\ logs[list[1]].score # 0 /\ Len(picked) < PickCount =>
                Listed(TakeAll(picked, list, logs), list[1])
<1> DEFINE n == Len(list)
           Fcn(f) == [i \in 0 .. n |-> IF i = 0 THEN picked ELSE TakeNew(f[i - 1], list[i], logs)]
           of == CHOOSE f : f = Fcn(f)
           V == Seq(T)
           step == [p \in (1 .. n) \X V |-> TakeNew(p[2], list[p[1]], logs)]
           First == logs[list[1]].score # 0 /\ Len(picked) < PickCount
           Right == {i \in 0 .. n : /\ of[i] \in V /\ Len(of[i]) <= Len(picked) + i
                                    /\ \A j : Listed(picked, j) => Listed(of[i], j)
                                    /\ i > 0 /\ First => Listed(of[i], list[1])}
<1>1. n \in Nat /\ \A i \in 1 .. n : list[i] \in T OBVIOUS
<1> HIDE DEF n
<1>2. step \in [(1 .. n) \X V -> V]
  <2> SUFFICES ASSUME NEW i \in 1 .. n, NEW v \in V PROVE TakeNew(v, list[i], logs) \in V OBVIOUS
  <2> QED BY <1>1, TakeNewAdds
<1>3. PICK g : Walks(g, V, picked, n, step)
  <2> HIDE DEF step
  <2> QED BY <1>1, <1>2, Recursion
<1>4. g = Fcn(g)
  <2>1. \A i \in 1 .. n : g[i] = TakeNew(g[i - 1], list[i], logs)
    <3>1. \A i \in 1 .. n, x \in V : step[<<i, x>>] = TakeNew(x, list[i], logs) OBVIOUS
    <3> HIDE DEF step, V
    <3>2. ASSUME NEW i \in 1 .. n PROVE i - 1 \in 0 .. n /\ g[i - 1] \in V
          BY <1>1, <1>3 DEF Walks
    <3> QED BY <1>3, <3>1, <3>2 DEF Walks
  <2>2. DOMAIN g = 0 .. n /\ g = [i \in 0 .. n |-> g[i]] /\ g[0] = picked BY <1>3 DEF Walks
  <2>3. ASSUME NEW i \in 0 .. n
        PROVE  g[i] = IF i = 0 THEN picked ELSE TakeNew(g[i - 1], list[i], logs)
    <3>1. CASE i = 0 BY <2>2, <3>1
    <3>2. CASE i # 0
      <4>1. i \in 1 .. n BY <1>1, <3>2
      <4> QED BY <2>1, <3>2, <4>1
    <3> QED BY <3>1, <3>2
  <2> QED BY <2>2, <2>3
<1>5. of = Fcn(of)
  <2> HIDE DEF Fcn
  <2> QED BY <1>4
<1>6. TakeAll(picked, list, logs) = of[n] BY DEF TakeAll, n
<1> HIDE DEF of, First
<1>7. 0 \in Right
  <2>1. of[0] = picked BY <1>1, <1>5
  <2> QED BY <1>1, <2>1
<1>8. ASSUME NEW i \in 1 .. n, i - 1 \in Right PROVE i \in Right
  <2>1. of[i] = TakeNew(of[i - 1], list[i], logs) BY <1>1, <1>5
  <2>2. PICK a : a = of[i - 1] OBVIOUS
  <2>3. PICK b : b = of[i] OBVIOUS
  <2>4. /\ a \in V /\ Len(a) <= Len(picked) + (i - 1)
        /\ \A j : Listed(picked, j) => Listed(a, j) /\ (i - 1 > 0 /\ First => Listed(a, list[1])) BY <1>8, <2>2
  <2>5. /\ b \in V /\ Len(b) <= Len(a) + 1 /\ \A j : Listed(a, j) => Listed(b, j)
        /\ logs[list[i]].score # 0 /\ Len(a) < PickCount => Listed(b, list[i])
    <3>1. PICK x \in T : x = list[i] BY <1>1
    <3>2. b = TakeNew(a, x, logs) BY <2>1, <2>2, <2>3, <3>1
    <3> QED BY <2>4, <3>1, <3>2, TakeNewAdds
  <2>6. Len(b) <= Len(picked) + i BY <2>4, <2>5
  <2>7. ASSUME First PROVE Listed(b, list[1])
    <3>1. CASE i = 1
      <4>1. a = picked BY <1>1, <1>5, <2>2, <3>1
      <4> QED BY <2>5, <2>7, <3>1, <4>1 DEF First
    <3>2. CASE i # 1 BY <1>8, <2>2, <2>5, <2>7, <3>2
    <3> QED BY <3>1, <3>2
  <2> QED BY <2>3, <2>4, <2>5, <2>6, <2>7
<1>9. n \in Right
  <2> HIDE DEF Right
  <2> QED BY <1>1, <1>7, <1>8, InductionUpTo
<1>10. list # <<>> => n > 0 BY DEF n
<1> QED BY <1>6, <1>9, <1>10 DEF First, n

FileLog == [content : Contents, score : 0 .. MaxScore, words : SUBSET Keywords]

LEMMA LogFits ==
    ASSUME NEW logs \in Seq(FileLog), NEW i \in 1 .. Len(logs)
    PROVE  /\ i \in Int /\ logs[i].content \in Contents /\ logs[i].score \in 0 .. MaxScore
           /\ logs[i].score \in Int /\ logs[i].words \in SUBSET Keywords
<1>1. PICK r \in FileLog : r = logs[i] OBVIOUS
<1>2. MaxScore \in Nat BY PickAssumption
<1> QED BY <1>1, <1>2 DEF FileLog

LEMMA Product ==
    ASSUME NEW x \in Nat, NEW y \in Nat
    PROVE  x * y \in Nat /\ x * y = (x - 1) * y + y /\ 0 * y = 0
<1> QED OBVIOUS

LEMMA ProductGrows ==
    ASSUME NEW x \in Nat, NEW y \in Nat, NEW z \in Nat, x <= y
    PROVE  x * z <= y * z
<1> QED OBVIOUS

\* The share of one keyword: the shares of all fit into the places.
Share(P, N) == IF P \div N < 1 THEN 1 ELSE P \div N
LEMMA ShareFits ==
    ASSUME NEW N \in Nat \ {0}, NEW P \in Nat \ {0}, NEW s, s = Share(P, N)
    PROVE  s \in Nat \ {0} /\ (N <= P => s * N <= P)
<1>1. PICK q \in Nat : q = P \div N OBVIOUS
<1>2. q * N <= P BY <1>1
<1> QED BY <1>1, <1>2 DEF Share

LEMMA OrderIsAll ==
    ASSUME NEW S, IsFiniteSet(S), NEW order \in SetToSeqs(S)
    PROVE  /\ Cardinality(S) \in Nat /\ order \in [1 .. Cardinality(S) -> S]
           /\ \A x \in S : \E k \in 1 .. Cardinality(S) : order[k] = x
<1> DEFINE c == Cardinality(S)
<1>1. c \in Nat BY FS_CardinalityType
<1>2. order \in [1 .. c -> S] /\ \A i, j \in 1 .. c : i # j => order[i] # order[j] BY DEF SetToSeqs
<1> HIDE DEF c
<1>3. order \in Injection(1 .. c, S) BY <1>2 DEF Injection, IsInjective
<1>4. Cardinality(1 .. c) = c
  <2>1. 1 \in Int /\ c \in Int BY <1>1
  <2> QED BY <1>1, <2>1, FS_Interval
<1>5. order \in Surjection(1 .. c, S) BY <1>3, <1>4, FS_Injection DEF c
<1> QED BY <1>1, <1>2, <1>5 DEF c, Surjection

\* The list from which the places of one keyword are taken begins with its best log.
LEMMA KeywordList ==
    ASSUME NEW logs \in Seq(FileLog), NEW kw, WithWord(logs, kw) # {}, NEW n \in Nat \ {0}
    PROVE  /\ FirstOf(Keyworded(logs, kw), n) \in Seq(1 .. Len(logs))
           /\ Len(FirstOf(Keyworded(logs, kw), n)) <= n /\ FirstOf(Keyworded(logs, kw), n) # <<>>
           /\ FirstOf(Keyworded(logs, kw), n)[1] \in WithWord(logs, kw)
           /\ \A i \in WithWord(logs, kw) :
                logs[i].score <= logs[FirstOf(Keyworded(logs, kw), n)[1]].score
<1> DEFINE S == WithWord(logs, kw)
           L == Ranked(logs, S)
           c == Cardinality(S)
<1>1. /\ S \subseteq 1 .. Len(logs) /\ Len(logs) \in Nat
      /\ \A i \in 1 .. Len(logs) : i \in Int /\ logs[i].score \in Int
      BY LogFits DEF WithWord
<1>2. IsFiniteSet(S)
  <2>1. IsFiniteSet(1 .. Len(logs)) BY <1>1, FS_Interval
  <2> QED BY <1>1, <2>1, FS_Subset
<1> HIDE DEF S
<1>3. /\ c \in Nat /\ L \in [1 .. c -> S]
      /\ \A m, k \in 1 .. c : m < k => Above(logs, L[m], L[k])
      /\ \A i \in S : \E k \in 1 .. c : L[k] = i
      BY <1>1, <1>2, RankedIsOrder
<1> HIDE DEF L, c
<1>4. c >= 1 /\ 1 \in 1 .. c BY <1>3 DEF S
<1>5. L \in Seq(S) /\ Len(L) = c BY <1>3
<1>6. PICK F : F = FirstOf(L, n) OBVIOUS
<1>7. F \in Seq(S) /\ Len(F) <= n /\ Len(F) >= 1 /\ F[1] = L[1] BY <1>3, <1>4, <1>5, <1>6 DEF FirstOf
<1>8. F # <<>> BY <1>7
<1>9. ASSUME NEW i \in S PROVE logs[i].score <= logs[L[1]].score
  <2>1. PICK k \in 1 .. c : L[k] = i BY <1>3
  <2>2. CASE k = 1 BY <1>1, <2>1, <2>2
  <2>3. CASE k # 1
    <3>1. Above(logs, L[1], i) BY <1>3, <1>4, <2>1, <2>3
    <3>2. PICK x \in S : x = L[1] BY <1>3, <1>4
    <3>3. logs[x].score \in Int /\ logs[i].score \in Int BY <1>1
    <3> QED BY <3>1, <3>2, <3>3 DEF Above
  <2> QED BY <2>2, <2>3
<1>10. F \in Seq(1 .. Len(logs))
  <2>1. PICK T : T = 1 .. Len(logs) OBVIOUS
  <2>2. S \subseteq T BY <1>1, <2>1
  <2>3. DOMAIN F = 1 .. Len(F) /\ Len(F) \in Nat /\ \A m \in 1 .. Len(F) : F[m] \in T BY <1>7, <2>2
  <2>4. F \in [1 .. Len(F) -> T] BY <1>7, <2>3
  <2> QED BY <2>1, <2>3, <2>4
<1> QED BY <1>3, <1>4, <1>6, <1>7, <1>8, <1>9, <1>10 DEF L, S, Keyworded

LEMMA WordsAreHeard ==
    ASSUME NEW logs \in Seq(FileLog), NEW order \in Orders(logs)
    PROVE  /\ PickByWord(logs, order) \in Seq(1 .. Len(logs))
           /\ Cardinality(Named(logs)) <= PickCount =>
                \A i \in 1 .. Len(logs), kw \in Keywords :
                  kw \in logs[i].words /\ logs[i].score > 0 =>
                    \E j \in WithWord(logs, kw) : Listed(PickByWord(logs, order), j)
<1> DEFINE T == 1 .. Len(logs)
           N == Cardinality(Named(logs))
           share == TakeNum(logs)
           F(k) == FirstOf(Keyworded(logs, order[k]), share)
           Fcn(f) == [k \in 0 .. Len(order) |-> IF k = 0 THEN <<>> ELSE TakeAll(f[k - 1], F(k), logs)]
           of == CHOOSE f : f = Fcn(f)
           V == Seq(T)
           Taken(k) == IF k = 0 THEN 0 ELSE k * share
           step == [p \in (1 .. N) \X V |-> TakeAll(p[2], F(p[1]), logs)]
           Right == {k \in 0 .. N : /\ of[k] \in V /\ Len(of[k]) <= Taken(k)
                                    /\ N <= PickCount => \A m \in 1 .. k :
                                         logs[F(m)[1]].score > 0 => Listed(of[k], F(m)[1])}
<1>1. IsFiniteSet(Named(logs))
  <2>1. Named(logs) \in SUBSET Keywords BY DEF Named
  <2> QED BY <2>1, FS_Subset, PickAssumption
<1>2. /\ N \in Nat /\ order \in [1 .. N -> Named(logs)]
      /\ \A kw \in Named(logs) : \E k \in 1 .. N : order[k] = kw
  <2>1. order \in SetToSeqs(Named(logs)) BY DEF Orders
  <2> QED BY <1>1, <2>1, OrderIsAll
<1>3. Len(order) = N BY <1>2
<1>4. PickCount \in Nat \ {0} BY PickAssumption
<1>5. share = IF PickCount \div N < 1 THEN 1 ELSE PickCount \div N BY DEF TakeNum
<1> HIDE DEF N, share
<1>6. ASSUME NEW k \in 1 .. N
      PROVE  /\ share \in Nat \ {0} /\ k * share \in Nat /\ k * share = (k - 1) * share + share
             /\ N <= PickCount => (k - 1) * share < PickCount
  <2>1. N \in Nat \ {0} /\ k \in Nat /\ k <= N BY <1>2
  <2>2. share = Share(PickCount, N) BY <1>5 DEF Share
  <2>3. share \in Nat \ {0} /\ (N <= PickCount => share * N <= PickCount) BY <1>4, <2>1, <2>2, ShareFits
  <2>4. PICK s \in Nat : s = share BY <2>3
  <2>5. k * s \in Nat /\ k * s = (k - 1) * s + s BY <2>1, <2>4, Product
  <2>6. k * s <= N * s BY <1>2, <2>1, <2>4, ProductGrows
  <2>7. N * s = s * N BY <1>2, <2>4
  <2>8. PICK a \in Int : a = (k - 1) * s BY <2>1, <2>4
  <2>9. PICK b \in Int : b = k * s BY <2>1, <2>4
  <2>10. PICK c \in Int : c = N * s BY <1>2, <2>4
  <2> QED BY <1>4, <2>3, <2>4, <2>5, <2>6, <2>7, <2>8, <2>9, <2>10
<1>7. ASSUME NEW k \in 1 .. N
      PROVE  /\ F(k) \in V /\ Len(F(k)) <= share /\ F(k) # <<>> /\ F(k)[1] \in WithWord(logs, order[k])
             /\ \A i \in WithWord(logs, order[k]) : logs[i].score <= logs[F(k)[1]].score
  <2>1. PICK kw \in Named(logs) : kw = order[k] BY <1>2
  <2>2. WithWord(logs, kw) # {} BY DEF Named
  <2>3. share \in Nat \ {0} BY <1>6
  <2> QED BY <2>1, <2>2, <2>3, KeywordList
<1> HIDE DEF F
<1>8. step \in [(1 .. N) \X V -> V]
  <2> SUFFICES ASSUME NEW k \in 1 .. N, NEW v \in V PROVE TakeAll(v, F(k), logs) \in V OBVIOUS
  <2> QED BY <1>7, TakeAllAdds
<1>9. PICK g : Walks(g, V, <<>>, N, step)
  <2>1. <<>> \in V OBVIOUS
  <2> HIDE DEF step, V
  <2> QED BY <1>2, <1>8, <2>1, Recursion
<1>10. g = Fcn(g)
  <2>1. \A k \in 1 .. N : g[k] = TakeAll(g[k - 1], F(k), logs)
    <3>1. \A k \in 1 .. N, x \in V : step[<<k, x>>] = TakeAll(x, F(k), logs) OBVIOUS
    <3> HIDE DEF step, V
    <3>2. ASSUME NEW k \in 1 .. N PROVE k - 1 \in 0 .. N /\ g[k - 1] \in V BY <1>2, <1>9 DEF Walks
    <3> QED BY <1>9, <3>1, <3>2 DEF Walks
  <2>2. DOMAIN g = 0 .. N /\ g = [k \in 0 .. N |-> g[k]] /\ g[0] = <<>> BY <1>9 DEF Walks
  <2>3. ASSUME NEW k \in 0 .. N
        PROVE  g[k] = IF k = 0 THEN <<>> ELSE TakeAll(g[k - 1], F(k), logs)
    <3>1. CASE k = 0 BY <2>2, <3>1
    <3>2. CASE k # 0
      <4>1. k \in 1 .. N BY <1>2, <3>2
      <4> QED BY <2>1, <3>2, <4>1
    <3> QED BY <3>1, <3>2
  <2>4. Fcn(g) = [k \in 0 .. N |-> IF k = 0 THEN <<>> ELSE TakeAll(g[k - 1], F(k), logs)] BY <1>3
  <2>5. [k \in 0 .. N |-> g[k]] = [k \in 0 .. N |-> IF k = 0 THEN <<>> ELSE TakeAll(g[k - 1], F(k), logs)]
        BY <2>3
  <2> HIDE DEF Fcn
  <2> QED BY <2>2, <2>4, <2>5
<1>11. of = Fcn(of)
  <2> HIDE DEF Fcn
  <2> QED BY <1>10
<1>12. PickByWord(logs, order) = TakeAll(of[N], Ranked(logs, T), logs) BY <1>3 DEF PickByWord, F, share
<1> HIDE DEF of
<1>13. 0 \in Right
  <2>1. of[0] = <<>> BY <1>2, <1>3, <1>11
  <2>2. of[0] \in V /\ Len(of[0]) <= Taken(0) BY <2>1
  <2>3. \A m \in 1 .. 0 : Listed(of[0], F(m)[1]) OBVIOUS
  <2> QED BY <1>2, <2>2, <2>3
<1>14. ASSUME NEW k \in 1 .. N, k - 1 \in Right PROVE k \in Right
  <2>1. of[k] = TakeAll(of[k - 1], F(k), logs) BY <1>2, <1>3, <1>11
  <2>2. PICK a : a = of[k - 1] OBVIOUS
  <2>3. PICK b : b = of[k] OBVIOUS
  <2>4. PICK f : f = F(k) OBVIOUS
  <2>5. /\ a \in V /\ Len(a) <= Taken(k - 1)
        /\ N <= PickCount => \A m \in 1 .. k - 1 : logs[F(m)[1]].score > 0 => Listed(a, F(m)[1])
        BY <1>14, <2>2
  <2>6. /\ f \in V /\ Len(f) <= share /\ f # <<>> BY <1>7, <2>4
  <2>7. b = TakeAll(a, f, logs) BY <2>1, <2>2, <2>3, <2>4
  <2>8. /\ b \in V /\ Len(b) <= Len(a) + Len(f) /\ \A j : Listed(a, j) => Listed(b, j)
        /\ logs[f[1]].score # 0 /\ Len(a) < PickCount => Listed(b, f[1])
        BY <2>5, <2>6, <2>7, TakeAllAdds
  <2>9. Len(a) \in Nat /\ Len(f) \in Nat /\ Len(b) \in Nat BY <2>5, <2>6, <2>8
  <2>10. Len(b) <= Taken(k) /\ (N <= PickCount => Len(a) < PickCount)
    <3>1. PICK s \in Nat : s = share BY <1>6
    <3>2. PICK x \in Int : x = (k - 1) * s BY <3>1
    <3>3. PICK y \in Int : y = k * s BY <3>1
    <3>4. Taken(k) = y BY <3>1, <3>3
    <3>5. Taken(k - 1) = x
      <4>1. k = 1 => x = 0
        <5>1. 0 * s = 0 BY <3>1, Product
        <5> QED BY <3>2, <5>1
      <4> QED BY <3>1, <3>2, <4>1
    <3>6. y = x + s /\ (N <= PickCount => x < PickCount) BY <1>6, <3>1, <3>2, <3>3
    <3> HIDE DEF Taken
    <3>7. Len(b) <= y BY <2>5, <2>6, <2>8, <2>9, <3>1, <3>5, <3>6
    <3>8. Len(b) <= Taken(k) BY <3>4, <3>7
    <3>9. N <= PickCount => Len(a) < PickCount BY <1>4, <2>5, <2>9, <3>5, <3>6
    <3> QED BY <3>8, <3>9
  <2>11. ASSUME N <= PickCount, NEW m \in 1 .. k, logs[F(m)[1]].score > 0 PROVE Listed(b, F(m)[1])
    <3>1. CASE m = k BY <2>4, <2>8, <2>10, <2>11, <3>1
    <3>2. CASE m # k BY <2>5, <2>8, <2>11, <3>2
    <3> QED BY <3>1, <3>2
  <2> QED BY <2>3, <2>8, <2>10, <2>11
<1>15. N \in Right
  <2> HIDE DEF Right
  <2> QED BY <1>2, <1>13, <1>14, InductionUpTo
<1>16. Ranked(logs, T) \in V
  <2>1. Len(logs) \in Nat /\ \A i \in T : i \in Int /\ logs[i].score \in Int BY LogFits
  <2>2. IsFiniteSet(T) BY <2>1, FS_Interval
  <2>3. Cardinality(T) \in Nat /\ Ranked(logs, T) \in [1 .. Cardinality(T) -> T]
        BY <2>1, <2>2, RankedIsOrder
  <2> QED BY <2>3
<1>17. PICK p : p = PickByWord(logs, order) OBVIOUS
<1>18. PICK q : q = of[N] OBVIOUS
<1>19. /\ q \in V
       /\ N <= PickCount => \A m \in 1 .. N : logs[F(m)[1]].score > 0 => Listed(q, F(m)[1])
       BY <1>15, <1>18
<1>20. p \in V /\ \A j : Listed(q, j) => Listed(p, j)
       BY <1>12, <1>16, <1>17, <1>18, <1>19, TakeAllAdds
<1>21. ASSUME N <= PickCount, NEW i \in T, NEW kw \in Keywords, kw \in logs[i].words, logs[i].score > 0
       PROVE  \E j \in WithWord(logs, kw) : Listed(p, j)
  <2>1. i \in WithWord(logs, kw) BY <1>21 DEF WithWord
  <2>2. kw \in Named(logs) BY <2>1 DEF Named
  <2>3. PICK k \in 1 .. N : order[k] = kw BY <1>2, <2>2
  <2>4. F(k)[1] \in WithWord(logs, kw) /\ logs[i].score <= logs[F(k)[1]].score BY <1>7, <2>1, <2>3
  <2>5. logs[F(k)[1]].score \in Int /\ logs[i].score \in Int
    <3>1. PICK x \in 1 .. Len(logs) : x = F(k)[1] BY <2>4 DEF WithWord
    <3> QED BY <3>1, LogFits
  <2>6. logs[F(k)[1]].score > 0 BY <1>21, <2>4, <2>5
  <2> QED BY <1>19, <1>20, <1>21, <2>4, <2>6
<1> QED BY <1>17, <1>20, <1>21 DEF N

-----------------------------------------------------------------------------
(* The states of a task, file by file.                                      *)

PickedLog == [file : Nat, content : Contents, score : 0 .. MaxScore, words : SUBSET Keywords]
PickFits ==
    /\ apKind \in {"none"} \cup Kinds /\ apDedup \in BOOLEAN /\ apFiles \in Nat /\ apSaved \in BOOLEAN
    /\ apLogs \in Seq(PickedLog)
    /\ apPicks \in Seq(Places)
    /\ apKind = "none" => apFiles = 0 /\ apLogs = <<>> /\ apPicks = <<>>
    /\ apSaved => apFiles = 0 /\ apKind # "none"
    /\ \A i \in Places : apLogs[i].file > apFiles

\* Copies are in one file and score the same; a picked log is picked once, a log
\* that is not picked is outscored by as many picked ones as are marked in the end,
\* and of copies the first is picked first.
CopiesScoreTheSame == \A i, j \in Places : Copy(i, j) => apLogs[i].score = apLogs[j].score
PickedOnce == \A m, n \in 1 .. Len(apPicks) : apPicks[m] = apPicks[n] => m = n
OutscoredByMany ==
    \A j \in Places : apLogs[j].score > 0 /\ ~ Listed(apPicks, j) =>
        \E D \in SUBSET Places :
            /\ IsFiniteSet(D) /\ Cardinality(D) = PickCount
            /\ \A i \in D : Listed(apPicks, i) /\ apLogs[i].score >= apLogs[j].score
FirstCopyFirst ==
    \A m \in 1 .. Len(apPicks), j \in Places :
        j < apPicks[m] /\ Copy(j, apPicks[m]) => \E l \in 1 .. m - 1 : apPicks[l] = j
RanksFit == CopiesScoreTheSame /\ PickedOnce /\ OutscoredByMany /\ FirstCopyFirst

\* The marked rows are those of the picked, scored logs that are kept.
RowsFit == apSaved => Marked = {i \in Places : (NeedDedup => Kept(i)) /\ i \in Finalists /\ apLogs[i].score > 0}

\* A keyword of a file is a word of one of its picked logs.
Theirs(i) == {j \in Places : apLogs[j].file = apLogs[i].file}
WordsNear(i) == {kw \in Keywords : \E j \in Theirs(i) : kw \in apLogs[j].words}
WordsHeard ==
    \A i \in Places : apLogs[i].score > 0 /\ Cardinality(WordsNear(i)) <= PickCount =>
        \A kw \in apLogs[i].words : \E j \in Theirs(i) : Listed(apPicks, j) /\ kw \in apLogs[j].words
PickInv == /\ PickFits /\ RowsFit
           /\ apKind # "llm" => RanksFit
           /\ apKind = "llm" => WordsHeard

LEMMA PlacedLog ==
    ASSUME PickFits, NEW i \in Places
    PROVE  /\ i \in Nat /\ apLogs[i].file \in Nat /\ apLogs[i].content \in Contents
           /\ apLogs[i].score \in Nat /\ apLogs[i].words \in SUBSET Keywords
<1>1. PICK r \in PickedLog : r = apLogs[i] BY DEF PickFits, Places
<1>2. MaxScore \in Nat BY PickAssumption
<1> QED BY <1>1, <1>2 DEF Places, PickedLog

\* The logs of a file are put behind the others, and so are its picked ones.
Adds(logs, picks) ==
    /\ Len(apLogs') = Len(apLogs) + Len(logs)
    /\ \A i \in Places : apLogs'[i] = apLogs[i]
    /\ \A i \in 1 .. Len(logs) : apLogs'[Len(apLogs) + i] =
          [file |-> apFiles, content |-> logs[i].content, score |-> logs[i].score, words |-> logs[i].words]
    /\ Len(apPicks') = Len(apPicks) + Len(picks)
    /\ \A m \in 1 .. Len(apPicks) : apPicks'[m] = apPicks[m]
    /\ \A m \in 1 .. Len(picks) : apPicks'[Len(apPicks) + m] = Len(apLogs) + picks[m]

LEMMA ScoredLogsFit ==
    ASSUME NEW logs \in ScoredLogs
    PROVE  /\ logs \in Seq(FileLog)
           /\ apKind # "llm" => \A i, j \in 1 .. Len(logs) :
                logs[i].content = logs[j].content => logs[i].score = logs[j].score
<1>1. logs \in UNION {[1..n -> FileLog] : n \in 0..FileLogs} BY DEF ScoredLogs, FileLog
<1>2. PICK n \in 0 .. FileLogs : logs \in [1 .. n -> FileLog] BY <1>1
<1>3. n \in Nat BY PickAssumption
<1>4. logs \in Seq(FileLog) BY <1>2, <1>3
<1> QED BY <1>4 DEF ScoredLogs

\* What a keywords or embedding worker picks of a file leads a set that holds all
\* the scored logs, and with a log its copies.
LEMMA FilePicksLead ==
    ASSUME NEW logs \in ScoredLogs, NEW picks \in PicksOf(logs), apKind \in Kinds \ {"llm"}
    PROVE  \E S \in SUBSET (1 .. Len(logs)) :
             /\ Leads(logs, S, picks)
             /\ \A i \in 1 .. Len(logs) : logs[i].score > 0 => i \in S
             /\ \A i \in S, j \in 1 .. Len(logs) : logs[i].score = logs[j].score => j \in S
<1>1. logs \in Seq(FileLog) BY ScoredLogsFit
<1>2. Len(logs) \in Nat /\ \A i \in 1 .. Len(logs) : i \in Int /\ logs[i].score \in Int
  <2>1. Len(logs) \in Nat BY <1>1
  <2>2. ASSUME NEW i \in 1 .. Len(logs) PROVE i \in Int /\ logs[i].score \in Int
    <3>1. logs[i].score \in Int BY <1>1, LogFits
    <3>2. i \in Int BY <2>1
    <3> QED BY <3>1, <3>2
  <2> QED BY <2>1, <2>2
<1>3. IsFiniteSet(1 .. Len(logs)) BY <1>2, FS_Interval
<1>4. CASE apKind = "keywords"
  <2>1. picks = FirstOf(Ranked(logs, 1 .. Len(logs)), PickCount) BY <1>4 DEF PicksOf, PickByScore
  <2>2. Leads(logs, 1 .. Len(logs), picks) BY <1>2, <1>3, <2>1, FirstOfLeads
  <2> QED BY <2>2
<1>5. CASE apKind = "embedding"
  <2>1. PICK S : S = {i \in 1 .. Len(logs) : logs[i].score > 0} OBVIOUS
  <2>2. picks = FirstOf(Ranked(logs, S), PickCount) BY <1>5, <2>1 DEF PicksOf, PickByReach
  <2>3. S \in SUBSET (1 .. Len(logs)) BY <2>1
  <2>4. IsFiniteSet(S) BY <1>3, <2>3, FS_Subset
  <2>5. Leads(logs, S, picks) BY <1>2, <2>2, <2>3, <2>4, FirstOfLeads
  <2> QED BY <2>1, <2>3, <2>5
<1> QED BY <1>4, <1>5, PickAssumption

LEMMA SeqOfMore ==
    ASSUME NEW S, NEW T, S \subseteq T, NEW s \in Seq(S)
    PROVE  s \in Seq(T)
<1>1. DOMAIN s = 1 .. Len(s) /\ Len(s) \in Nat /\ \A m \in 1 .. Len(s) : s[m] \in T OBVIOUS
<1>2. s \in [1 .. Len(s) -> T] BY <1>1
<1> QED BY <1>1, <1>2

LEMMA FilePicksFit ==
    ASSUME NEW logs \in ScoredLogs, NEW picks \in PicksOf(logs), apKind \in Kinds
    PROVE  picks \in Seq(1 .. Len(logs))
<1>1. CASE apKind # "llm"
  <2>1. PICK S \in SUBSET (1 .. Len(logs)) : Leads(logs, S, picks) BY <1>1, FilePicksLead
  <2>2. picks \in Seq(S) BY <2>1 DEF Leads
  <2> QED BY <2>2, SeqOfMore
<1>2. CASE apKind = "llm"
  <2>1. PICK order \in Orders(logs) : picks = PickByWord(logs, order) BY <1>2 DEF PicksOf
  <2> QED BY <2>1, ScoredLogsFit, WordsAreHeard
<1> QED BY <1>1, <1>2

LEMMA Concatenated ==
    ASSUME NEW T, NEW a \in Seq(T), NEW z \in Seq(T)
    PROVE  /\ a \o z \in Seq(T) /\ Len(a \o z) = Len(a) + Len(z)
           /\ \A i \in 1 .. Len(a) : (a \o z)[i] = a[i]
           /\ \A i \in 1 .. Len(z) : (a \o z)[Len(a) + i] = z[i]
<1> QED OBVIOUS

LEMMA FileIsAdded ==
    ASSUME PickFits, NEW logs \in Seq(FileLog), NEW picks \in Seq(1 .. Len(logs)),
           apLogs' = apLogs \o [i \in 1..Len(logs) |-> [file |-> apFiles, content |-> logs[i].content,
                                                   score |-> logs[i].score, words |-> logs[i].words]],
           apPicks' = apPicks \o [i \in 1..Len(picks) |-> Len(apLogs) + picks[i]]
    PROVE  Adds(logs, picks) /\ apLogs' \in Seq(PickedLog) /\ apPicks' \in Seq(Places')
<1> DEFINE Placed(i) == [file |-> apFiles, content |-> logs[i].content, score |-> logs[i].score, words |-> logs[i].words]
<1>1. PICK new : new = [i \in 1..Len(logs) |-> Placed(i)] OBVIOUS
<1>2. PICK more : more = [i \in 1..Len(picks) |-> Len(apLogs) + picks[i]] OBVIOUS
<1>3. Len(logs) \in Nat /\ Len(picks) \in Nat OBVIOUS
<1>4. \A i \in 1 .. Len(logs) : Placed(i) \in PickedLog
  <2>1. apFiles \in Nat BY DEF PickFits
  <2> QED BY <2>1, LogFits DEF PickedLog
<1>5. new \in Seq(PickedLog) /\ Len(new) = Len(logs) /\ \A i \in 1 .. Len(logs) : new[i] = Placed(i)
  <2> HIDE DEF Placed
  <2> QED BY <1>1, <1>3, <1>4
<1>6. PICK t \in Seq(PickedLog) : t = apLogs BY DEF PickFits
<1>7. PICK p \in Seq(Places) : p = apPicks BY DEF PickFits
<1>8. PICK n \in Nat : n = Len(t) OBVIOUS
<1>9. PICK all \in Seq(PickedLog) : all = apLogs' /\ all = t \o new BY <1>1, <1>5, <1>6, Concatenated
<1>10. /\ Len(all) = n + Len(logs) /\ \A i \in 1 .. n : all[i] = t[i]
       /\ \A i \in 1 .. Len(logs) : all[n + i] = Placed(i)
  <2>1. /\ Len(t \o new) = Len(t) + Len(new) /\ \A i \in 1 .. Len(t) : (t \o new)[i] = t[i]
        /\ \A i \in 1 .. Len(new) : (t \o new)[Len(t) + i] = new[i]
    <3>1. new \in Seq(PickedLog) BY <1>5
    <3> QED BY <3>1, Concatenated
  <2> HIDE DEF Placed
  <2> QED BY <1>5, <1>8, <1>9, <2>1
<1>11. Places = 1 .. n /\ Places' = 1 .. n + Len(logs)
  <2>1. Places = 1 .. n BY <1>6, <1>8 DEF Places
  <2>2. Len(apLogs') = n + Len(logs) BY <1>9, <1>10
  <2>3. Places' = 1 .. Len(apLogs') BY DEF Places
  <2> QED BY <2>1, <2>2, <2>3
<1>12. p \in Seq(Places') BY <1>3, <1>11, SeqOfMore
<1>13. ASSUME NEW i \in 1 .. Len(picks) PROVE n + picks[i] \in Places'
  <2>1. picks[i] \in 1 .. Len(logs) OBVIOUS
  <2>2. PICK x, k \in Nat : x = picks[i] /\ k = Len(logs) BY <1>3
  <2>3. x \in 1 .. k BY <2>1, <2>2
  <2>4. n + x \in 1 .. n + k BY <2>3
  <2> QED BY <1>11, <2>2, <2>4
<1>14. more \in Seq(Places') /\ Len(more) = Len(picks) /\ \A i \in 1 .. Len(picks) : more[i] = n + picks[i]
  <2>1. PICK T : T = Places' OBVIOUS
  <2>2. more = [i \in 1 .. Len(picks) |-> n + picks[i]] BY <1>2, <1>6, <1>8
  <2>3. more \in [1 .. Len(picks) -> T] BY <1>13, <2>1, <2>2
  <2>4. more \in Seq(T) /\ Len(more) = Len(picks)
    <3>1. PICK k \in Nat : k = Len(picks) BY <1>3
    <3>2. more \in [1 .. k -> T] BY <2>3, <3>1
    <3>3. more \in Seq(T) /\ Len(more) = k BY <3>2
    <3> QED BY <3>1, <3>3
  <2>5. \A i \in 1 .. Len(picks) : more[i] = n + picks[i] BY <2>2
  <2> QED BY <2>1, <2>4, <2>5
<1>15. PICK o : o = apPicks' /\ o = p \o more BY <1>2, <1>7
<1>16. /\ o \in Seq(Places') /\ Len(o) = Len(p) + Len(picks) /\ \A i \in 1 .. Len(p) : o[i] = p[i]
       /\ \A i \in 1 .. Len(picks) : o[Len(p) + i] = more[i]
  <2>1. PICK T : T = Places' OBVIOUS
  <2>2. /\ p \o more \in Seq(T) /\ Len(p \o more) = Len(p) + Len(more)
        /\ \A i \in 1 .. Len(p) : (p \o more)[i] = p[i]
        /\ \A i \in 1 .. Len(more) : (p \o more)[Len(p) + i] = more[i]
    <3>1. p \in Seq(T) /\ more \in Seq(T) BY <1>12, <1>14, <2>1
    <3> QED BY <3>1, Concatenated
  <2> QED BY <1>14, <1>15, <2>1, <2>2
<1>17. Adds(logs, picks)
  <2>1. Places' = 1 .. Len(apLogs) + Len(logs) /\ Len(apLogs') = Len(apLogs) + Len(logs)
    BY <1>6, <1>8, <1>9, <1>10, <1>11
  <2>2. \A i \in Places : apLogs'[i] = apLogs[i] BY <1>6, <1>9, <1>10, <1>11
  <2>3. \A i \in 1 .. Len(logs) : apLogs'[Len(apLogs) + i] = Placed(i) BY <1>6, <1>8, <1>9, <1>10
  <2>4. /\ Len(apPicks') = Len(apPicks) + Len(picks)
        /\ \A m \in 1 .. Len(apPicks) : apPicks'[m] = apPicks[m]
    BY <1>7, <1>15, <1>16
  <2>5. \A m \in 1 .. Len(picks) : apPicks'[Len(apPicks) + m] = Len(apLogs) + picks[m]
    BY <1>6, <1>7, <1>8, <1>14, <1>15, <1>16
  <2> QED BY <2>1, <2>2, <2>3, <2>4, <2>5 DEF Adds
<1> QED BY <1>9, <1>15, <1>16, <1>17

\* The state after a file: every place is an old one or one of the file's.
FilePlaces(logs) ==
    /\ \A i \in Places : i \in Places' /\ apLogs'[i] = apLogs[i] /\ apLogs[i].file > apFiles
    /\ \A k \in 1 .. Len(logs) :
         /\ Len(apLogs) + k \in Places'
         /\ apLogs'[Len(apLogs) + k].file = apFiles /\ apLogs'[Len(apLogs) + k].content = logs[k].content
         /\ apLogs'[Len(apLogs) + k].score = logs[k].score /\ apLogs'[Len(apLogs) + k].words = logs[k].words
    /\ \A j \in Places' : j \in Places \/ \E k \in 1 .. Len(logs) : j = Len(apLogs) + k

LEMMA FileHandled ==
    ASSUME PickFits, HandleFile
    PROVE  \E logs \in ScoredLogs : \E picks \in PicksOf(logs) :
             /\ logs \in Seq(FileLog) /\ picks \in Seq(1 .. Len(logs)) /\ Adds(logs, picks)
             /\ FilePlaces(logs) /\ PickFits' /\ apKind' = apKind /\ apKind \in Kinds
<1>1. PICK logs \in ScoredLogs :
        /\ apLogs' = apLogs \o [i \in 1..Len(logs) |-> [file |-> apFiles, content |-> logs[i].content,
                                                   score |-> logs[i].score, words |-> logs[i].words]]
        /\ \E picks \in PicksOf(logs) : apPicks' = apPicks \o [i \in 1..Len(picks) |-> Len(apLogs) + picks[i]]
      BY DEF HandleFile
<1>2. PICK picks \in PicksOf(logs) : apPicks' = apPicks \o [i \in 1..Len(picks) |-> Len(apLogs) + picks[i]]
      BY <1>1
<1>3. /\ apFiles > 0 /\ apFiles' = apFiles - 1 /\ apKind' = apKind /\ apSaved' = apSaved /\ apDedup' = apDedup
      /\ apKind \in Kinds /\ apFiles \in Nat
      BY DEF HandleFile, PickFits
<1>4. logs \in Seq(FileLog) BY ScoredLogsFit
<1>5. picks \in Seq(1 .. Len(logs)) BY <1>3, FilePicksFit
<1>6. Adds(logs, picks) /\ apLogs' \in Seq(PickedLog) /\ apPicks' \in Seq(Places')
      BY <1>1, <1>2, <1>4, <1>5, FileIsAdded
<1>7. Len(apLogs) \in Nat /\ Len(logs) \in Nat /\ Places = 1 .. Len(apLogs) /\ Places' = 1 .. Len(apLogs')
      BY <1>4 DEF PickFits, Places
<1>8. PICK n \in Nat, k \in Nat : n = Len(apLogs) /\ k = Len(logs) BY <1>7
<1>9. Places = 1 .. n /\ Places' = 1 .. n + k BY <1>6, <1>7, <1>8 DEF Adds
<1>10. \A j \in Places' : j \in Places \/ \E l \in 1 .. k : j = n + l
  <2> SUFFICES ASSUME NEW j \in 1 .. n + k, ~ (j \in 1 .. n) PROVE \E l \in 1 .. k : j = n + l BY <1>9
  <2>1. j - n \in 1 .. k /\ j = n + (j - n) OBVIOUS
  <2> QED BY <2>1
<1>11. \A i \in Places : i \in Places' /\ apLogs'[i] = apLogs[i] /\ apLogs[i].file > apFiles
  <2> SUFFICES ASSUME NEW i \in Places
               PROVE  i \in Places' /\ apLogs'[i] = apLogs[i] /\ apLogs[i].file > apFiles OBVIOUS
  <2>1. i \in Places'
    <3>1. i \in 1 .. n BY <1>9
    <3> QED BY <1>9, <3>1
  <2>2. apLogs'[i] = apLogs[i] BY <1>6 DEF Adds
  <2>3. apLogs[i].file > apFiles BY DEF PickFits
  <2> QED BY <2>1, <2>2, <2>3
<1>12. ASSUME NEW l \in 1 .. k
       PROVE  /\ n + l \in Places' /\ apLogs'[n + l].file = apFiles /\ apLogs'[n + l].content = logs[l].content
              /\ apLogs'[n + l].score = logs[l].score /\ apLogs'[n + l].words = logs[l].words
  <2>1. apLogs'[n + l] =
          [file |-> apFiles, content |-> logs[l].content, score |-> logs[l].score, words |-> logs[l].words]
        BY <1>6, <1>8 DEF Adds
  <2> QED BY <1>9, <2>1
<1>13. FilePlaces(logs) BY <1>8, <1>10, <1>11, <1>12 DEF FilePlaces
<1>14. \A i \in Places' : apLogs'[i].file > apFiles'
  <2> SUFFICES ASSUME NEW i \in Places' PROVE apLogs'[i].file > apFiles' OBVIOUS
  <2>1. CASE i \in Places
    <3>1. apLogs[i].file \in Nat BY <2>1, PlacedLog
    <3> QED BY <1>3, <1>11, <2>1, <3>1
  <2>2. CASE \E l \in 1 .. k : i = n + l BY <1>3, <1>12, <2>2
  <2> QED BY <1>10, <2>1, <2>2
<1>15. ~ apSaved BY <1>3 DEF PickFits
<1>16. apKind # "none" BY <1>3 DEF PickFits
<1>17. PickFits' BY <1>3, <1>6, <1>14, <1>15, <1>16 DEF PickFits
<1> QED BY <1>3, <1>4, <1>5, <1>6, <1>13, <1>17

LEMMA FileCopies ==
    ASSUME PickFits, NEW logs \in Seq(FileLog), FilePlaces(logs), NEW n, n = Len(apLogs)
    PROVE  /\ \A i, j \in Places : Copy(i, j)' <=> Copy(i, j)
           /\ \A i \in Places, k \in 1 .. Len(logs) : ~ Copy(i, n + k)' /\ ~ Copy(n + k, i)'
           /\ \A k, l \in 1 .. Len(logs) : Copy(n + k, n + l)' <=> logs[k].content = logs[l].content
<1>1. \A i, j \in Places : Copy(i, j)' <=> Copy(i, j) BY DEF FilePlaces, Copy
<1>2. ASSUME NEW i \in Places, NEW k \in 1 .. Len(logs) PROVE ~ Copy(i, n + k)' /\ ~ Copy(n + k, i)'
  <2>1. apLogs[i].file \in Nat /\ apFiles \in Nat BY PlacedLog DEF PickFits
  <2>2. apLogs'[i] = apLogs[i] /\ apLogs[i].file > apFiles /\ apLogs'[n + k].file = apFiles
        BY DEF FilePlaces
  <2> QED BY <2>1, <2>2 DEF Copy
<1>3. ASSUME NEW k \in 1 .. Len(logs), NEW l \in 1 .. Len(logs)
      PROVE  Copy(n + k, n + l)' <=> logs[k].content = logs[l].content
  <2>1. /\ apLogs'[n + k].file = apFiles /\ apLogs'[n + k].content = logs[k].content
        /\ apLogs'[n + l].file = apFiles /\ apLogs'[n + l].content = logs[l].content BY DEF FilePlaces
  <2> QED BY <2>1 DEF Copy
<1> QED BY <1>1, <1>2, <1>3

LEMMA CountOfList ==
    ASSUME NEW D, NEW c \in Nat, NEW f \in [1 .. c -> D],
           \A m, k \in 1 .. c : f[m] = f[k] => m = k, \A d \in D : \E m \in 1 .. c : f[m] = d
    PROVE  IsFiniteSet(D) /\ Cardinality(D) = c
<1>1. f \in Bijection(1 .. c, D) BY DEF Bijection, Injection, Surjection, IsInjective
<1>2. ExistsBijection(1 .. c, D) BY <1>1 DEF ExistsBijection
<1>3. IsFiniteSet(1 .. c) /\ Cardinality(1 .. c) = c
  <2>1. 1 \in Int /\ c \in Int OBVIOUS
  <2> QED BY <2>1, FS_Interval
<1> QED BY <1>2, <1>3, FS_Bijection

\* A list that leads names each place once.
LEMMA LeadsOnce ==
    ASSUME NEW logs, NEW S, NEW list, Leads(logs, S, list)
    PROVE  \A m, k \in 1 .. Len(list) : list[m] = list[k] => m = k
<1> SUFFICES ASSUME NEW m \in 1 .. Len(list), NEW k \in 1 .. Len(list), list[m] = list[k] PROVE m = k
    OBVIOUS
<1>1. list \in Seq(S) BY DEF Leads
<1>2. PICK x \in S : x = list[m] BY <1>1
<1>3. ~ Above(logs, x, x)
  <2>1. x \in Int /\ logs[x].score \in Int BY <1>2 DEF Leads
  <2> QED BY <2>1 DEF Above
<1>4. ~ (m < k) /\ ~ (k < m) BY <1>2, <1>3 DEF Leads
<1> QED BY <1>4

LEMMA RanksStep ==
    ASSUME PickFits, RanksFit, HandleFile, apKind # "llm"
    PROVE  RanksFit'
<1>1. PICK logs \in ScoredLogs : \E picks \in PicksOf(logs) :
        /\ logs \in Seq(FileLog) /\ picks \in Seq(1 .. Len(logs)) /\ Adds(logs, picks)
        /\ FilePlaces(logs) /\ PickFits' /\ apKind' = apKind /\ apKind \in Kinds
      BY FileHandled
<1>2. PICK picks \in PicksOf(logs) :
        /\ logs \in Seq(FileLog) /\ picks \in Seq(1 .. Len(logs)) /\ Adds(logs, picks)
        /\ FilePlaces(logs) /\ PickFits' /\ apKind' = apKind /\ apKind \in Kinds
      BY <1>1
<1>3. PICK n : n = Len(apLogs) OBVIOUS
<1>4. PICK c : c = Len(apPicks) OBVIOUS
<1>5. n \in Nat /\ c \in Nat /\ Places = 1 .. n /\ Len(picks) \in Nat /\ Len(logs) \in Nat
      BY <1>2, <1>3, <1>4 DEF PickFits, Places
<1>6. PICK S \in SUBSET (1 .. Len(logs)) :
        /\ Leads(logs, S, picks)
        /\ \A i \in 1 .. Len(logs) : logs[i].score > 0 => i \in S
        /\ \A i \in S, j \in 1 .. Len(logs) : logs[i].score = logs[j].score => j \in S
      BY <1>2, FilePicksLead
<1>7. \A i, j \in 1 .. Len(logs) : logs[i].content = logs[j].content => logs[i].score = logs[j].score
      BY ScoredLogsFit
<1>8. \A i \in 1 .. Len(logs) : logs[i].score \in Nat
  <2>1. MaxScore \in Nat BY PickAssumption
  <2> QED BY <1>2, <2>1, LogFits
<1>s. S \subseteq Int /\ \A i \in S : i >= 1 /\ logs[i].score \in Int BY <1>5, <1>8
<1>o. \A m, k \in 1 .. Len(picks) : picks[m] = picks[k] => m = k
  <2>1. Leads(logs, S, picks) BY <1>6
  <2> QED BY <2>1, LeadsOnce
\* The state after the step.
<1>9. PICK q : q = apPicks' OBVIOUS
<1>10. /\ Len(q) = c + Len(picks) /\ \A m \in 1 .. c : q[m] = apPicks[m] /\ q[m] \in 1 .. n
       /\ \A m \in 1 .. Len(picks) : q[c + m] = n + picks[m] /\ picks[m] \in S
  <2>1. picks \in Seq(S) BY <1>6 DEF Leads
  <2>2. \A m \in 1 .. c : apPicks[m] \in 1 .. n BY <1>4, <1>5 DEF PickFits
  <2> QED BY <1>2, <1>3, <1>4, <1>9, <2>1, <2>2 DEF Adds
<1>p. \A m \in 1 .. Len(picks) : picks[m] \in Int /\ picks[m] >= 1 BY <1>s, <1>10
<1>11. \A m \in 1 .. Len(q) : m \in 1 .. c \/ \E k \in 1 .. Len(picks) : m = c + k
  <2> SUFFICES ASSUME NEW m \in 1 .. c + Len(picks), ~ (m \in 1 .. c)
               PROVE  \E k \in 1 .. Len(picks) : m = c + k BY <1>10
  <2>1. m - c \in 1 .. Len(picks) /\ m = c + (m - c) BY <1>5
  <2> QED BY <2>1
<1>12. /\ \A i \in Places : i \in Places' /\ apLogs'[i] = apLogs[i]
       /\ \A k \in 1 .. Len(logs) : n + k \in Places' /\ apLogs'[n + k].score = logs[k].score
       /\ \A j \in Places' : j \in Places \/ \E k \in 1 .. Len(logs) : j = n + k
       BY <1>2, <1>3 DEF FilePlaces
<1>13. /\ \A i, j \in Places : Copy(i, j)' <=> Copy(i, j)
       /\ \A i \in Places, k \in 1 .. Len(logs) : ~ Copy(i, n + k)' /\ ~ Copy(n + k, i)'
       /\ \A k, l \in 1 .. Len(logs) : Copy(n + k, n + l)' <=> logs[k].content = logs[l].content
       BY <1>2, <1>3, FileCopies
<1>14. CopiesScoreTheSame'
  <2> SUFFICES ASSUME NEW i \in Places', NEW j \in Places', Copy(i, j)'
               PROVE  apLogs'[i].score = apLogs'[j].score BY DEF CopiesScoreTheSame
  <2>1. CASE i \in Places /\ j \in Places BY <1>12, <1>13, <2>1 DEF RanksFit, CopiesScoreTheSame
  <2>2. CASE ~ (i \in Places) /\ ~ (j \in Places)
    <3>1. PICK k \in 1 .. Len(logs) : i = n + k BY <1>12, <2>2
    <3>2. PICK l \in 1 .. Len(logs) : j = n + l BY <1>12, <2>2
    <3>3. Copy(n + k, n + l)' BY <3>1, <3>2
    <3> QED BY <1>7, <1>12, <1>13, <3>1, <3>2, <3>3
  <2>3. CASE i \in Places /\ ~ (j \in Places)
    <3>1. PICK l \in 1 .. Len(logs) : j = n + l BY <1>12, <2>3
    <3> QED BY <1>13, <2>3, <3>1
  <2>4. CASE ~ (i \in Places) /\ j \in Places
    <3>1. PICK k \in 1 .. Len(logs) : i = n + k BY <1>12, <2>4
    <3> QED BY <1>13, <2>4, <3>1
  <2> QED BY <2>1, <2>2, <2>3, <2>4
<1>15. PickedOnce'
  <2> SUFFICES ASSUME NEW m \in 1 .. Len(q), NEW l \in 1 .. Len(q), q[m] = q[l] PROVE m = l
      BY <1>9 DEF PickedOnce
  <2>1. CASE m \in 1 .. c /\ l \in 1 .. c BY <1>4, <1>10, <2>1 DEF RanksFit, PickedOnce
  <2>2. CASE ~ (m \in 1 .. c) /\ ~ (l \in 1 .. c)
    <3>1. PICK k \in 1 .. Len(picks) : m = c + k BY <1>11, <2>2
    <3>2. PICK h \in 1 .. Len(picks) : l = c + h BY <1>11, <2>2
    <3>3. picks[k] = picks[h] BY <1>5, <1>p, <1>10, <3>1, <3>2
    <3>4. k = h BY <1>o, <3>3
    <3> QED BY <3>1, <3>2, <3>4
  <2>3. CASE m \in 1 .. c /\ ~ (l \in 1 .. c)
    <3>1. PICK h \in 1 .. Len(picks) : l = c + h BY <1>11, <2>3
    <3>2. q[m] \in 1 .. n /\ q[l] = n + picks[h] BY <1>10, <2>3, <3>1
    <3>3. picks[h] \in Int /\ picks[h] >= 1 BY <1>p
    <3> QED BY <1>5, <3>2, <3>3
  <2>4. CASE ~ (m \in 1 .. c) /\ l \in 1 .. c
    <3>1. PICK h \in 1 .. Len(picks) : m = c + h BY <1>11, <2>4
    <3>2. q[l] \in 1 .. n /\ q[m] = n + picks[h] BY <1>10, <2>4, <3>1
    <3>3. picks[h] \in Int /\ picks[h] >= 1 BY <1>p
    <3> QED BY <1>5, <3>2, <3>3
  <2>5. \/ m \in 1 .. c /\ l \in 1 .. c
        \/ ~ (m \in 1 .. c) /\ ~ (l \in 1 .. c)
        \/ m \in 1 .. c /\ ~ (l \in 1 .. c)
        \/ ~ (m \in 1 .. c) /\ l \in 1 .. c
    OBVIOUS
  <2> HIDE DEF PickedOnce
  <2> QED BY <2>1, <2>2, <2>3, <2>4, <2>5
<1>16. OutscoredByMany'
  <2> SUFFICES ASSUME NEW j \in Places', apLogs'[j].score > 0, ~ Listed(q, j)
               PROVE  \E D \in SUBSET Places' :
                        /\ IsFiniteSet(D) /\ Cardinality(D) = PickCount
                        /\ \A i \in D : Listed(q, i) /\ apLogs'[i].score >= apLogs'[j].score
      BY <1>9 DEF OutscoredByMany, Listed
  <2>1. \A i : Listed(apPicks, i) => Listed(q, i)
    <3>1. \A m \in 1 .. c : m \in 1 .. Len(q) BY <1>5, <1>10
    <3> QED BY <1>4, <1>10, <3>1 DEF Listed
  <2>2. CASE j \in Places
    <3>1. PICK D \in SUBSET Places :
            /\ IsFiniteSet(D) /\ Cardinality(D) = PickCount
            /\ \A i \in D : Listed(apPicks, i) /\ apLogs[i].score >= apLogs[j].score
          BY <1>12, <2>1, <2>2 DEF RanksFit, OutscoredByMany
    <3> QED BY <1>12, <2>1, <2>2, <3>1
  <2>3. CASE ~ (j \in Places)
    <3>1. PICK k \in 1 .. Len(logs) : j = n + k BY <1>12, <2>3
    <3>2. k \in S /\ logs[k].score > 0 BY <1>6, <1>12, <3>1
    <3>3. \A m \in 1 .. Len(picks) : c + m \in 1 .. Len(q) /\ q[c + m] = n + picks[m] BY <1>5, <1>10
    <3>4. ~ Listed(picks, k) BY <3>1, <3>3 DEF Listed
    <3>5. Len(picks) = PickCount /\ \A m \in 1 .. Len(picks) : Above(logs, picks[m], k)
          BY <1>6, <3>2, <3>4 DEF Leads
    <3>6. PICK f : f = [m \in 1 .. Len(picks) |-> n + picks[m]] OBVIOUS
    <3>7. PICK D : D = {n + picks[m] : m \in 1 .. Len(picks)} OBVIOUS
    <3>8. IsFiniteSet(D) /\ Cardinality(D) = Len(picks)
      <4>1. f \in [1 .. Len(picks) -> D] BY <3>6, <3>7
      <4>2. \A d \in D : \E m \in 1 .. Len(picks) : f[m] = d BY <3>6, <3>7
      <4>3. ASSUME NEW m \in 1 .. Len(picks), NEW h \in 1 .. Len(picks), f[m] = f[h] PROVE m = h
        <5>1. picks[m] = picks[h] BY <1>5, <1>p, <3>6, <4>3
        <5> QED BY <1>o, <5>1
      <4> QED BY <1>5, <4>1, <4>2, <4>3, CountOfList
    <3>9. ASSUME NEW i \in D PROVE i \in Places' /\ Listed(q, i) /\ apLogs'[i].score >= apLogs'[j].score
      <4>1. PICK m \in 1 .. Len(picks) : i = n + picks[m] BY <3>7
      <4>2. PICK x \in S : x = picks[m] BY <1>10
      <4>3. logs[x].score >= logs[k].score BY <1>8, <3>5, <4>2 DEF Above
      <4>4. Listed(q, i) BY <3>3, <4>1 DEF Listed
      <4> QED BY <1>12, <3>1, <4>1, <4>2, <4>3, <4>4
    <3> QED BY <3>5, <3>8, <3>9
  <2> QED BY <2>2, <2>3
<1>17. FirstCopyFirst'
  <2> SUFFICES ASSUME NEW m \in 1 .. Len(q), NEW j \in Places', j < q[m], Copy(j, q[m])'
               PROVE  \E l \in 1 .. m - 1 : q[l] = j
    <3>1. \A m \in 1 .. Len(q), j \in Places' :
            j < q[m] /\ Copy(j, q[m])' => \E l \in 1 .. m - 1 : q[l] = j OBVIOUS
    <3> QED BY <1>9, <3>1 DEF FirstCopyFirst, Copy
  <2>1. CASE m \in 1 .. c
    <3>1. PICK i \in Places : i = q[m] /\ i = apPicks[m] BY <1>5, <1>10, <2>1
    <3>2. j \in Places
      <4>1. ASSUME NEW k \in 1 .. Len(logs), j = n + k PROVE FALSE BY <1>5, <3>1, <4>1
      <4> QED BY <1>12, <4>1
    <3>3. Copy(j, i)' BY <3>1
    <3>4. Copy(j, i) BY <1>13, <3>1, <3>2, <3>3
    <3>5. PICK l \in 1 .. m - 1 : apPicks[l] = j BY <1>4, <2>1, <3>1, <3>2, <3>4 DEF RanksFit, FirstCopyFirst
    <3>6. l \in 1 .. c BY <1>5, <2>1
    <3> QED BY <1>10, <3>5, <3>6
  <2>2. CASE ~ (m \in 1 .. c)
    <3>1. PICK k \in 1 .. Len(picks) : m = c + k BY <1>11, <2>2
    <3>2. PICK x \in S : x = picks[k] BY <1>10
    <3>3. q[m] = n + x BY <1>10, <3>1, <3>2
    <3>4. Copy(j, n + x)' BY <3>3
    <3>5. PICK i \in 1 .. Len(logs) : j = n + i
      <4>1. ~ (j \in Places) BY <1>13, <3>4
      <4> QED BY <1>12, <4>1
    <3>6. Copy(n + i, n + x)' BY <3>4, <3>5
    <3>7. logs[i].score = logs[x].score BY <1>7, <1>13, <3>6
    <3>8. i \in S /\ i < x BY <1>5, <1>6, <3>3, <3>5, <3>7
    <3>9. Above(logs, i, picks[k]) BY <3>2, <3>7, <3>8 DEF Above
    <3>10. PICK l \in 1 .. k - 1 : picks[l] = i BY <1>6, <3>8, <3>9 DEF Leads
    <3>11. c + l \in 1 .. m - 1 /\ l \in 1 .. Len(picks) BY <1>5, <3>1
    <3>12. q[c + l] = j BY <1>10, <3>5, <3>10, <3>11
    <3> QED BY <3>11, <3>12
  <2> QED BY <2>1, <2>2
<1> QED BY <1>14, <1>15, <1>16, <1>17 DEF RanksFit

LEMMA WordsStep ==
    ASSUME PickFits, WordsHeard, HandleFile, apKind = "llm"
    PROVE  WordsHeard'
<1>1. PICK logs \in ScoredLogs : \E picks \in PicksOf(logs) :
        /\ logs \in Seq(FileLog) /\ picks \in Seq(1 .. Len(logs)) /\ Adds(logs, picks)
        /\ FilePlaces(logs) /\ PickFits' /\ apKind' = apKind /\ apKind \in Kinds
      BY FileHandled
<1>2. PICK picks \in PicksOf(logs) :
        /\ logs \in Seq(FileLog) /\ picks \in Seq(1 .. Len(logs)) /\ Adds(logs, picks)
        /\ FilePlaces(logs) /\ PickFits' /\ apKind' = apKind /\ apKind \in Kinds
      BY <1>1
<1>3. PICK order \in Orders(logs) : picks = PickByWord(logs, order) BY <1>2 DEF PicksOf
<1>4. PICK n : n = Len(apLogs) OBVIOUS
<1>5. PICK c : c = Len(apPicks) OBVIOUS
<1>6. n \in Nat /\ c \in Nat /\ Places = 1 .. n /\ Len(picks) \in Nat /\ Len(logs) \in Nat
      BY <1>2, <1>4, <1>5 DEF PickFits, Places
<1>7. /\ \A i \in Places : i \in Places' /\ apLogs'[i] = apLogs[i] /\ apLogs[i].file > apFiles
      /\ \A k \in 1 .. Len(logs) :
           /\ n + k \in Places' /\ apLogs'[n + k].file = apFiles
           /\ apLogs'[n + k].score = logs[k].score /\ apLogs'[n + k].words = logs[k].words
      /\ \A j \in Places' : j \in Places \/ \E k \in 1 .. Len(logs) : j = n + k
      BY <1>2, <1>4 DEF FilePlaces
<1>8. \A i \in Places : apLogs[i].file # apFiles
  <2> SUFFICES ASSUME NEW i \in Places PROVE apLogs[i].file # apFiles OBVIOUS
  <2>1. apLogs[i].file \in Nat /\ apFiles \in Nat BY PlacedLog DEF PickFits
  <2> QED BY <1>7, <2>1
<1>9. PICK q : q = apPicks' OBVIOUS
<1>10. /\ \A i : Listed(apPicks, i) => Listed(q, i)
       /\ \A i : Listed(picks, i) => Listed(q, n + i)
  <2>1. Len(q) = c + Len(picks) /\ \A m \in 1 .. c : q[m] = apPicks[m] BY <1>2, <1>5, <1>9 DEF Adds
  <2>2. \A m \in 1 .. Len(picks) : q[c + m] = n + picks[m] BY <1>2, <1>4, <1>5, <1>9 DEF Adds
  <2>3. \A m \in 1 .. c : m \in 1 .. Len(q) BY <1>6, <2>1
  <2>4. \A m \in 1 .. Len(picks) : c + m \in 1 .. Len(q) BY <1>6, <2>1
  <2> QED BY <1>5, <2>1, <2>2, <2>3, <2>4 DEF Listed
<1> DEFINE NearNow(i) == {j \in Places' : apLogs'[j].file = apLogs'[i].file}
           WordsNow(i) == {kw \in Keywords : \E j \in NearNow(i) : kw \in apLogs'[j].words}
<1>11. SUFFICES ASSUME NEW i \in Places', apLogs'[i].score > 0, Cardinality(WordsNow(i)) <= PickCount,
                       NEW kw \in apLogs'[i].words
                PROVE  \E j \in NearNow(i) : Listed(q, j) /\ kw \in apLogs'[j].words
       BY <1>9 DEF WordsHeard, WordsNear, Theirs, Listed
<1>12. CASE i \in Places
  <2>1. NearNow(i) = Theirs(i)
    <3>1. \A k \in 1 .. Len(logs) : apLogs'[n + k].file # apLogs'[i].file BY <1>7, <1>8, <1>12
    <3> QED BY <1>7, <1>12, <3>1 DEF Theirs
  <2>2. \A j \in Theirs(i) : apLogs'[j].words = apLogs[j].words BY <1>7 DEF Theirs
  <2>3. WordsNow(i) = WordsNear(i) BY <2>1, <2>2 DEF WordsNear
  <2>4. apLogs[i].score > 0 /\ kw \in apLogs[i].words /\ Cardinality(WordsNear(i)) <= PickCount
        BY <1>7, <1>11, <1>12, <2>3
  <2>5. PICK j \in Theirs(i) : Listed(apPicks, j) /\ kw \in apLogs[j].words
        BY <1>12, <2>4 DEF WordsHeard
  <2> QED BY <1>10, <2>1, <2>2, <2>5
<1>13. CASE ~ (i \in Places)
  <2>1. PICK k \in 1 .. Len(logs) : i = n + k BY <1>7, <1>13
  <2>2. \A l \in 1 .. Len(logs) : n + l \in NearNow(i) BY <1>7, <2>1
  <2>3. \A j \in NearNow(i) : \E l \in 1 .. Len(logs) : j = n + l BY <1>7, <1>8, <2>1
  <2>4. WordsNow(i) = Named(logs)
    <3>1. ASSUME NEW x \in Keywords, NEW j \in NearNow(i), x \in apLogs'[j].words
          PROVE  WithWord(logs, x) # {}
      <4>1. PICK l \in 1 .. Len(logs) : j = n + l BY <2>3
      <4>2. x \in logs[l].words BY <1>7, <3>1, <4>1
      <4>3. l \in WithWord(logs, x) BY <4>2 DEF WithWord
      <4> QED BY <4>3
    <3>2. ASSUME NEW x \in Keywords, WithWord(logs, x) # {}
          PROVE  \E j \in NearNow(i) : x \in apLogs'[j].words
      <4>1. PICK l \in 1 .. Len(logs) : x \in logs[l].words BY <3>2 DEF WithWord
      <4>2. x \in apLogs'[n + l].words BY <1>7, <4>1
      <4> QED BY <2>2, <4>2
    <3> HIDE DEF NearNow
    <3> QED BY <3>1, <3>2 DEF Named
  <2>5. kw \in logs[k].words /\ logs[k].score > 0 BY <1>7, <1>11, <2>1
  <2>6. kw \in Keywords BY <1>2, <2>5, LogFits
  <2>7. PICK j \in WithWord(logs, kw) : Listed(picks, j)
        BY <1>2, <1>3, <1>11, <2>4, <2>5, <2>6, WordsAreHeard
  <2>8. j \in 1 .. Len(logs) /\ kw \in logs[j].words BY DEF WithWord
  <2> QED BY <1>7, <1>10, <2>2, <2>7, <2>8
<1> QED BY <1>12, <1>13

LEMMA PickInvInit == PickInit => PickInv
<1> SUFFICES ASSUME PickInit PROVE PickInv OBVIOUS
<1>1. apLogs = <<>> /\ apPicks = <<>> /\ Places = {} /\ Len(apPicks) = 0 BY DEF PickInit, Places
<1>2. apPicks \in Seq(Places) /\ apLogs \in Seq(PickedLog) BY <1>1
<1>3. PickFits BY <1>1, <1>2 DEF PickFits, PickInit
<1>4. RowsFit BY DEF RowsFit, PickInit
<1>5. RanksFit /\ WordsHeard
      BY <1>1 DEF RanksFit, CopiesScoreTheSame, PickedOnce, OutscoredByMany, FirstCopyFirst, WordsHeard
<1> QED BY <1>3, <1>4, <1>5 DEF PickInv

LEMMA PickInvStep == PickInv /\ [PickNext]_apVars => PickInv'
<1> SUFFICES ASSUME PickInv, [PickNext]_apVars PROVE PickInv' OBVIOUS
<1>0. PickFits BY DEF PickInv
<1>1. CASE TakeTask
  <2>1. /\ apKind = "none" /\ apKind' \in Kinds /\ apDedup' \in BOOLEAN /\ apFiles' \in 1..FilesOf[apKind']
        /\ apLogs' = apLogs /\ apPicks' = apPicks /\ apSaved' = apSaved /\ apRows' = apRows
        BY <1>1 DEF TakeTask
  <2>2. apLogs = <<>> /\ apPicks = <<>> /\ ~ apSaved BY <1>0, <2>1 DEF PickFits
  <2>3. apFiles' \in Nat BY <2>1, PickAssumption
  <2>4. apLogs' = <<>> /\ apPicks' = <<>> /\ Places' = {} /\ Len(apPicks') = 0 /\ ~ apSaved'
        BY <2>1, <2>2 DEF Places
  <2>5. apKind' # "none" BY <2>1, PickAssumption
  <2>6. PickFits'
    <3>1. apPicks' \in Seq(Places') /\ apLogs' \in Seq(PickedLog) BY <2>4
    <3> QED BY <1>0, <2>1, <2>3, <2>4, <2>5, <3>1 DEF PickFits
  <2>7. RowsFit' BY <2>4 DEF RowsFit
  <2>8. RanksFit' /\ WordsHeard'
        BY <2>4 DEF RanksFit, CopiesScoreTheSame, PickedOnce, OutscoredByMany, FirstCopyFirst, WordsHeard
  <2> QED BY <2>6, <2>7, <2>8 DEF PickInv
<1>2. CASE HandleFile
  <2>1. PickFits' /\ apKind' = apKind BY <1>0, <1>2, FileHandled
  <2>2. ~ apSaved' BY <1>0, <1>2 DEF HandleFile, PickFits
  <2>3. RowsFit' BY <2>2 DEF RowsFit
  <2>4. apKind' # "llm" => RanksFit' BY <1>0, <1>2, <2>1, RanksStep DEF PickInv
  <2>5. apKind' = "llm" => WordsHeard' BY <1>0, <1>2, <2>1, WordsStep DEF PickInv
  <2> QED BY <2>1, <2>3, <2>4, <2>5 DEF PickInv
<1> DEFINE Same == apKind' = apKind /\ apDedup' = apDedup /\ apLogs' = apLogs /\ apPicks' = apPicks
<1>3. ASSUME Same
      PROVE  /\ Places' = Places /\ Finalists' = Finalists /\ NeedDedup' = NeedDedup
             /\ \A i \in Places : Kept(i)' = Kept(i)
             /\ RanksFit => RanksFit'
             /\ WordsHeard => WordsHeard'
  <2>1. Places' = Places BY <1>3 DEF Places
  <2>2. Candidates' = Candidates BY <1>3 DEF Candidates
  <2>3. BestPicks' = BestPicks BY <1>3, <2>2 DEF BestPicks
  <2>4. Finalists' = Finalists BY <1>3, <2>3 DEF Finalists
  <2>5. \A i, j : Copy(i, j)' = Copy(i, j) BY <1>3 DEF Copy
  <2>6. Copies' = Copies BY <2>1, <2>5 DEF Copies
  <2>7. NeedDedup' = NeedDedup BY <1>3, <2>6 DEF NeedDedup
  <2>8. \A i \in Places : Kept(i)' = Kept(i) BY <1>3, <2>1, <2>5 DEF Kept
  <2>9. RanksFit => RanksFit'
        BY <1>3, <2>1, <2>5 DEF RanksFit, CopiesScoreTheSame, PickedOnce, OutscoredByMany, FirstCopyFirst, Copy
  <2>10. WordsHeard => WordsHeard' BY <1>3, <2>1 DEF WordsHeard, WordsNear, Theirs
  <2> QED BY <2>1, <2>4, <2>7, <2>8, <2>9, <2>10
<1>4. CASE SaveRows
  <2>1. Same /\ apSaved' = TRUE /\ apFiles' = apFiles /\ apFiles = 0 /\ apKind # "none"
        BY <1>4 DEF SaveRows
  <2>2. apRows' = {[log |-> i, marked |-> i \in Finalists /\ apLogs[i].score > 0] :
                     i \in {i \in Places : NeedDedup => Kept(i)}}
        BY <1>4 DEF SaveRows
  <2>3. Marked' = {i \in Places : (NeedDedup => Kept(i)) /\ i \in Finalists /\ apLogs[i].score > 0}
    <3> DEFINE B(i) == i \in Finalists /\ apLogs[i].score > 0
               row(i) == [log |-> i, marked |-> B(i)]
    <3>1. PICK X : X = {i \in Places : NeedDedup => Kept(i)} OBVIOUS
    <3>2. apRows' = {row(i) : i \in X} BY <2>2, <3>1
    <3>3. \A i : row(i).log = i /\ row(i).marked = B(i) OBVIOUS
    <3> HIDE DEF row, B
    <3>4. Marked' = {r.log : r \in {r \in apRows' : r.marked}} BY DEF Marked
    <3>5. Marked' = {i \in X : B(i)}
      <4>1. \A r \in apRows' : \E i \in X : r = row(i) BY <3>2
      <4>2. \A i \in X : row(i) \in apRows' BY <3>2
      <4>3. ASSUME NEW x \in Marked' PROVE x \in X /\ B(x)
        <5>1. PICK r \in apRows' : r.marked /\ x = r.log BY <3>4, <4>3
        <5>2. PICK i \in X : r = row(i) BY <4>1
        <5> QED BY <3>3, <5>1, <5>2
      <4>4. ASSUME NEW x \in X, B(x) PROVE x \in Marked'
        <5>1. row(x) \in apRows' /\ row(x).marked /\ row(x).log = x BY <3>3, <4>2, <4>4
        <5> QED BY <3>4, <5>1
      <4> QED BY <4>3, <4>4
    <3> QED BY <3>1, <3>5 DEF B
  <2>4. RowsFit' BY <1>3, <2>1, <2>3 DEF RowsFit
  <2>5. PickFits' BY <1>0, <1>3, <2>1 DEF PickFits
  <2> QED BY <1>3, <2>1, <2>4, <2>5 DEF PickInv
<1>5. CASE UNCHANGED apVars
  <2>1. Same /\ apSaved' = apSaved /\ apFiles' = apFiles /\ apRows' = apRows BY <1>5 DEF apVars
  <2>2. Marked' = Marked BY <2>1 DEF Marked
  <2>3. RowsFit' BY <1>3, <2>1, <2>2 DEF RowsFit, PickInv
  <2>4. PickFits' BY <1>0, <1>3, <2>1 DEF PickFits
  <2> QED BY <1>3, <2>1, <2>3, <2>4 DEF PickInv
<1> QED BY <1>1, <1>2, <1>4, <1>5 DEF PickNext

\* The finalists are as many as may be marked, or all scored logs are among them;
\* none of the others outscores one, and with a log its earlier copies are chosen.
LEMMA FinalistsFit ==
    ASSUME PickFits, RanksFit
    PROVE  /\ Finalists \subseteq Places /\ IsFiniteSet(Finalists)
           /\ Cardinality(Finalists) \in Nat /\ Cardinality(Finalists) <= PickCount
           /\ \A j \in Places : apLogs[j].score > 0 /\ j \notin Finalists =>
                /\ Cardinality(Finalists) = PickCount
                /\ \A i \in Finalists : apLogs[i].score >= apLogs[j].score
           /\ \A i \in Finalists, j \in Places : Copy(j, i) /\ j < i => j \in Finalists
<1> DEFINE c == Len(apPicks)
           B == BestPicks
           k == Len(B)
           F == Finalists
<1>1. c \in Nat /\ \A n \in 1 .. c : apPicks[n] \in Places BY DEF PickFits
<1>2. \A n \in 1 .. c : Candidates[n] = apLogs[apPicks[n]] BY DEF Candidates
<1>3. \A i \in Places : i \in Nat /\ apLogs[i].score \in Nat BY PlacedLog
<1>4. Leads(Candidates, 1 .. c, B)
  <2>1. IsFiniteSet(1 .. c) BY <1>1, FS_Interval
  <2>2. \A n \in 1 .. c : n \in Int /\ Candidates[n].score \in Int BY <1>1, <1>2, <1>3
  <2>3. B = FirstOf(Ranked(Candidates, 1 .. c), PickCount) BY DEF BestPicks
  <2> QED BY <2>1, <2>2, <2>3, FirstOfLeads
<1>5. k \in Nat /\ k <= PickCount /\ \A n \in 1 .. k : B[n] \in 1 .. c
  <2>1. B \in Seq(1 .. c) /\ Len(B) <= PickCount BY <1>4 DEF Leads
  <2> QED BY <2>1
<1>6. F = {apPicks[B[n]] : n \in 1 .. k} BY DEF Finalists
<1>7. PickCount \in Nat \ {0} BY PickAssumption
<1> HIDE DEF c, B, k, F
<1>8. F \subseteq Places BY <1>1, <1>5, <1>6
<1>9. IsFiniteSet(F) /\ Cardinality(F) = k
  <2>1. PICK f : f = [n \in 1 .. k |-> apPicks[B[n]]] OBVIOUS
  <2>2. f \in [1 .. k -> F] /\ \A d \in F : \E n \in 1 .. k : f[n] = d BY <1>6, <2>1
  <2>3. ASSUME NEW m \in 1 .. k, NEW n \in 1 .. k, f[m] = f[n] PROVE m = n
    <3>1. apPicks[B[m]] = apPicks[B[n]] BY <2>1, <2>3
    <3>2. B[m] = B[n] BY <1>5, <3>1 DEF RanksFit, PickedOnce, c
    <3> QED BY <1>4, <3>2, LeadsOnce DEF k
  <2> QED BY <1>5, <2>2, <2>3, CountOfList
<1>10. ASSUME NEW p \in 1 .. c, apPicks[p] \notin F
       PROVE  k = PickCount /\ \A i \in F : apLogs[i].score >= apLogs[apPicks[p]].score
  <2>1. ~ Listed(B, p) BY <1>6, <1>10 DEF Listed, k
  <2>2. k = PickCount /\ \A n \in 1 .. k : Above(Candidates, B[n], p) BY <1>4, <2>1 DEF Leads, k
  <2>3. ASSUME NEW i \in F PROVE apLogs[i].score >= apLogs[apPicks[p]].score
    <3>1. PICK n \in 1 .. k : i = apPicks[B[n]] BY <1>6
    <3>2. PICK b \in 1 .. c : b = B[n] BY <1>5
    <3>3. Above(Candidates, b, p) BY <2>2, <3>2
    <3>4. apPicks[b] \in Places /\ apPicks[p] \in Places BY <1>1
    <3>5. apLogs[apPicks[b]].score \in Nat /\ apLogs[apPicks[p]].score \in Nat BY <1>3, <3>4
    <3> QED BY <1>2, <3>1, <3>2, <3>3, <3>5 DEF Above
  <2> QED BY <2>2, <2>3
<1>11. ASSUME NEW j \in Places, apLogs[j].score > 0, j \notin F
       PROVE  k = PickCount /\ \A i \in F : apLogs[i].score >= apLogs[j].score
  <2>1. CASE Listed(apPicks, j)
    <3>1. PICK p \in 1 .. c : apPicks[p] = j BY <2>1 DEF Listed, c
    <3> QED BY <1>10, <1>11, <3>1
  <2>2. CASE ~ Listed(apPicks, j)
    <3>1. PICK D \in SUBSET Places :
            /\ IsFiniteSet(D) /\ Cardinality(D) = PickCount
            /\ \A i \in D : Listed(apPicks, i) /\ apLogs[i].score >= apLogs[j].score
          BY <1>11, <2>2 DEF RanksFit, OutscoredByMany
    <3>2. CASE D \subseteq F
      <4>1. Cardinality(D) <= Cardinality(F) BY <1>9, <3>2, FS_Subset
      <4>2. Cardinality(D) = Cardinality(F) /\ k = PickCount BY <1>5, <1>7, <1>9, <3>1, <4>1
      <4>3. D = F BY <1>9, <3>2, <4>2, FS_Subset
      <4> QED BY <3>1, <4>2, <4>3
    <3>3. CASE ~ (D \subseteq F)
      <4>1. PICK d \in D : d \notin F BY <3>3
      <4>2. PICK p \in 1 .. c : apPicks[p] = d BY <3>1 DEF Listed, c
      <4>3. k = PickCount /\ \A i \in F : apLogs[i].score >= apLogs[d].score BY <1>10, <4>1, <4>2
      <4>4. apLogs[d].score >= apLogs[j].score /\ d \in Places BY <3>1
      <4>5. ASSUME NEW i \in F PROVE apLogs[i].score >= apLogs[j].score
        <5>1. apLogs[i].score \in Nat /\ apLogs[d].score \in Nat /\ apLogs[j].score \in Nat
              BY <1>3, <1>8, <4>4
        <5> QED BY <4>3, <4>4, <5>1
      <4> QED BY <4>3, <4>5
    <3> QED BY <3>2, <3>3
  <2> QED BY <2>1, <2>2
<1>12. ASSUME NEW i \in F, NEW j \in Places, Copy(j, i), j < i PROVE j \in F
  <2>1. PICK n \in 1 .. k : i = apPicks[B[n]] BY <1>6
  <2>2. PICK m \in 1 .. c : m = B[n] BY <1>5
  <2>3. PICK l \in 1 .. m - 1 : apPicks[l] = j BY <1>12, <2>1, <2>2 DEF RanksFit, FirstCopyFirst, c
  <2>4. l \in 1 .. c BY <1>1, <2>2
  <2>5. i \in Places BY <1>8
  <2>6. apLogs[j].score = apLogs[i].score BY <1>12, <2>5 DEF RanksFit, CopiesScoreTheSame
  <2>7. Above(Candidates, l, m) BY <1>1, <1>2, <2>1, <2>2, <2>3, <2>4, <2>6 DEF Above
  <2>8. PICK h \in 1 .. n - 1 : B[h] = l BY <1>4, <2>2, <2>4, <2>7 DEF Leads, k
  <2>9. h \in 1 .. k BY <1>5
  <2> QED BY <1>6, <2>3, <2>8, <2>9
<1> QED BY <1>5, <1>8, <1>9, <1>11, <1>12 DEF F

LEMMA BestOnes ==
    ASSUME PickInv, apSaved, ~NeedDedup, apKind # "llm"
    PROVE  /\ \A i \in Marked, j \in Places \ Marked : apLogs[i].score >= apLogs[j].score
           /\ Cardinality(Marked) = IF Cardinality(Scored) < PickCount THEN Cardinality(Scored) ELSE PickCount
<1> DEFINE F == Finalists
<1>1. PickFits /\ RanksFit BY DEF PickInv
<1>2. /\ F \subseteq Places /\ IsFiniteSet(F) /\ Cardinality(F) \in Nat /\ Cardinality(F) <= PickCount
      /\ \A j \in Places : apLogs[j].score > 0 /\ j \notin F =>
           Cardinality(F) = PickCount /\ \A i \in F : apLogs[i].score >= apLogs[j].score
      BY <1>1, FinalistsFit
<1>3. Marked = {i \in Places : i \in F /\ apLogs[i].score > 0} BY DEF PickInv, RowsFit
<1> HIDE DEF F
<1>4. \A i \in Places : apLogs[i].score \in Nat BY <1>1, PlacedLog
<1>5. ASSUME NEW i \in Marked, NEW j \in Places \ Marked PROVE apLogs[i].score >= apLogs[j].score
  <2>1. i \in Places /\ i \in F /\ apLogs[i].score > 0 BY <1>3
  <2>2. CASE apLogs[j].score > 0
    <3>1. j \notin F BY <1>3, <2>2
    <3> QED BY <1>2, <2>1, <2>2, <3>1
  <2>3. CASE ~ (apLogs[j].score > 0) BY <1>4, <2>1, <2>3
  <2> QED BY <2>2, <2>3
<1>6. Marked = F \cap Scored BY <1>2, <1>3 DEF Scored
<1>7. IsFiniteSet(Scored) /\ Cardinality(Scored) \in Nat
  <2>1. IsFiniteSet(Places) BY <1>1, FS_Interval DEF Places, PickFits
  <2>2. Scored \in SUBSET Places BY DEF Scored
  <2> QED BY <2>1, <2>2, FS_Subset, FS_CardinalityType
<1>8. PickCount \in Nat BY PickAssumption
<1>9. CASE Scored \subseteq F
  <2>1. Marked = Scored BY <1>6, <1>9
  <2>2. Cardinality(Scored) <= Cardinality(F) BY <1>2, <1>9, FS_Subset
  <2> QED BY <1>2, <1>5, <1>7, <1>8, <2>1, <2>2
<1>10. CASE ~ (Scored \subseteq F)
  <2>1. PICK j \in Scored : j \notin F BY <1>10
  <2>2. j \in Places /\ apLogs[j].score > 0 BY DEF Scored
  <2>3. Cardinality(F) = PickCount /\ \A i \in F : apLogs[i].score >= apLogs[j].score BY <1>2, <2>1, <2>2
  <2>4. F \subseteq Scored
    <3> SUFFICES ASSUME NEW i \in F PROVE i \in Scored OBVIOUS
    <3>1. apLogs[i].score \in Nat /\ apLogs[j].score \in Nat BY <1>2, <1>4, <2>2
    <3> QED BY <1>2, <2>2, <2>3, <3>1 DEF Scored
  <2>5. Marked = F BY <1>6, <2>4
  <2>6. Cardinality(F) <= Cardinality(Scored) BY <1>7, <2>4, FS_Subset
  <2> QED BY <1>5, <1>7, <1>8, <2>3, <2>5, <2>6
<1> QED BY <1>9, <1>10

LEMMA SelectedOnes ==
    ASSUME PickInv, apSaved, apKind # "llm", NEW i \in Finalists \cap Scored
    PROVE  \E j \in Marked : Copy(i, j)
<1>1. PickFits /\ RanksFit BY DEF PickInv
<1>2. /\ i \in Places /\ i \in Finalists /\ apLogs[i].score > 0
      /\ \A j \in Places : Copy(j, i) /\ j < i => j \in Finalists
      BY <1>1, FinalistsFit DEF Scored
<1>3. Marked = {j \in Places : (NeedDedup => Kept(j)) /\ j \in Finalists /\ apLogs[j].score > 0}
      BY DEF PickInv, RowsFit
<1>4. CASE ~NeedDedup
  <2>1. i \in Marked BY <1>2, <1>3, <1>4
  <2> QED BY <2>1 DEF Copy
<1>5. CASE NeedDedup
  <2>1. PICK C : C = {j \in Places : Copy(i, j)} OBVIOUS
  <2>2. C \in SUBSET Nat /\ i \in C
    <3>1. \A j \in Places : j \in Nat BY <1>1, PlacedLog
    <3> QED BY <1>2, <2>1, <3>1 DEF Copy
  <2>3. PICK m \in C : \A j \in C : m <= j BY <2>2, LeastOf
  <2>4. m \in Places /\ Copy(i, m) /\ Copy(m, i) BY <2>1 DEF Copy
  <2>5. apLogs[m].score = apLogs[i].score BY <1>1, <1>2, <2>4 DEF RanksFit, CopiesScoreTheSame
  <2>6. m \in Finalists
    <3>1. m = i \/ m < i BY <2>2, <2>3
    <3> QED BY <1>2, <2>4, <3>1
  <2>7. Kept(m)
    <3> SUFFICES ASSUME NEW j \in Places, Copy(m, j), j # m
                 PROVE  apLogs[j].score = apLogs[m].score /\ m < j BY DEF Kept
    <3>1. j \in C BY <2>1, <2>4 DEF Copy
    <3>2. m < j BY <2>2, <2>3, <3>1
    <3>3. apLogs[j].score = apLogs[m].score BY <1>1, <2>4 DEF RanksFit, CopiesScoreTheSame
    <3> QED BY <3>2, <3>3
  <2>8. m \in Marked BY <1>2, <1>3, <2>4, <2>5, <2>6, <2>7
  <2> QED BY <2>4, <2>8
<1> QED BY <1>4, <1>5

LEMMA PickInvSound == PickInv => PickIsKept
<1> SUFFICES ASSUME PickInv PROVE PickIsKept OBVIOUS
<1>1. BestAreMarked BY BestOnes DEF BestAreMarked
<1>2. SelectedSurvives BY SelectedOnes DEF SelectedSurvives
<1>3. KeywordsHeard
  <2> SUFFICES ASSUME apKind = "llm", NEW i \in Places, apLogs[i].score > 0,
                      Cardinality(UNION {apLogs[j].words : j \in Theirs(i)}) <= PickCount,
                      NEW kw \in apLogs[i].words
               PROVE  \E j \in Range(apPicks) : j \in Theirs(i) /\ kw \in apLogs[j].words
      BY DEF KeywordsHeard, Theirs
  <2>1. PickFits /\ WordsHeard BY DEF PickInv
  <2>2. \A j \in Theirs(i) : apLogs[j].words \in SUBSET Keywords BY <2>1, PlacedLog DEF Theirs
  <2>3. UNION {apLogs[j].words : j \in Theirs(i)} = WordsNear(i) BY <2>2 DEF WordsNear
  <2>4. PICK j \in Theirs(i) : Listed(apPicks, j) /\ kw \in apLogs[j].words BY <2>1, <2>3 DEF WordsHeard
  <2>5. DOMAIN apPicks = 1 .. Len(apPicks) BY <2>1 DEF PickFits
  <2>6. j \in Range(apPicks) BY <2>4, <2>5 DEF Listed, Range
  <2> QED BY <2>4, <2>6
<1> QED BY <1>1, <1>2, <1>3 DEF PickIsKept

\* Cutting file by file marks what one ranking of all logs would, dropping copies
\* keeps a copy of every marked log (handle_single_log_file of the keywords and
\* embedding workers, add_log_parse_results), and no keyword of a file is crowded
\* out (the LLM worker), for every number of files, logs, places and keywords.
THEOREM PicksStayKept ==
    PickInit /\ [][PickNext]_apVars => []PickIsKept
<1> QED BY PickInvInit, PickInvStep, PickInvSound, PTL
=============================================================================
