------------------------------- MODULE LlmStream -------------------------------
(***************************************************************************)
(* The calls of one batch of logs to the language model                    *)
(* (witty-log-detection service/llm.py, handle_single_log_model): for each *)
(* log a producer task reads the model's stream into a bounded queue and   *)
(* the caller takes the text out of it until the end mark; gather waits    *)
(* for all of them.  The model and its connection are the environment.     *)
(***************************************************************************)
EXTENDS Integers, Sequences

CONSTANTS Logs,       \* the logs of the batch
          Chunks,     \* bound: content chunks of an answer
          QueueSize

ASSUME LlmAssumption == QueueSize \in Nat \ {0} /\ Chunks \in Nat

VARIABLES llTask,    \* log -> where its producer is
          llHave,    \* log -> chunk the producer holds, 0 for none
          llRead,    \* log -> chunks read from the stream
          llQueue,   \* log -> the queue
          llText,    \* log -> chunks the caller has joined
          llScore    \* log -> "none", then what the worker makes of the text
llVars == <<llTask, llHave, llRead, llQueue, llText, llScore>>

EndMark == -1
LlInit == /\ llTask = [l \in Logs |-> "create"]
          /\ llHave = [l \in Logs |-> 0] /\ llRead = [l \in Logs |-> 0]
          /\ llQueue = [l \in Logs |-> <<>>] /\ llText = [l \in Logs |-> <<>>]
          /\ llScore = [l \in Logs |-> "none"]

Producer(l, from, to) == llTask[l] = from /\ llTask' = [llTask EXCEPT ![l] = to]

(* create_stream asks twice, the second time with fewer options; a second    *)
(* failure leaves data_producer before its try block.                        *)
Create(l) == /\ Producer(l, "create", "read") \/ Producer(l, "create", "again")
             /\ UNCHANGED <<llHave, llRead, llQueue, llText, llScore>>
CreateAgain(l) == /\ Producer(l, "again", "read") \/ Producer(l, "again", "dead")
                  /\ UNCHANGED <<llHave, llRead, llQueue, llText, llScore>>

(* The stream: content, its end, or an error; both of these end the queue.   *)
ReadChunk(l) == /\ Producer(l, "read", "put") /\ llRead[l] < Chunks
                /\ llRead' = [llRead EXCEPT ![l] = @ + 1] /\ llHave' = [llHave EXCEPT ![l] = llRead[l] + 1]
                /\ UNCHANGED <<llQueue, llText, llScore>>
ReadEnd(l) == /\ Producer(l, "read", "whole") \/ Producer(l, "read", "broken")
              /\ UNCHANGED <<llHave, llRead, llQueue, llText, llScore>>
Room(l) == Len(llQueue[l]) < QueueSize
\* mutant: a chunk that finds the queue full is dropped
PutDropping(l) == /\ Producer(l, "put", "read")
                  /\ llQueue' = IF Room(l) THEN [llQueue EXCEPT ![l] = Append(@, llHave[l])] ELSE llQueue
                  /\ llHave' = [llHave EXCEPT ![l] = 0] /\ UNCHANGED <<llRead, llText, llScore>>
Put(l) == /\ Producer(l, "put", "read") /\ Room(l)
          /\ llQueue' = [llQueue EXCEPT ![l] = Append(@, llHave[l])]
          /\ llHave' = [llHave EXCEPT ![l] = 0] /\ UNCHANGED <<llRead, llText, llScore>>
PutEnd(l) == /\ Producer(l, "whole", "ended") \/ Producer(l, "broken", "failed")
             /\ Room(l) /\ llQueue' = [llQueue EXCEPT ![l] = Append(@, EndMark)]
             /\ UNCHANGED <<llHave, llRead, llText, llScore>>

(* The caller joins chunks until the end mark.  A text that parses gives the *)
(* log the model's score, one that does not gives it 0.                      *)
Take(l) == /\ llScore[l] = "none" /\ llQueue[l] # <<>> /\ Head(llQueue[l]) # EndMark
           /\ llText' = [llText EXCEPT ![l] = Append(@, Head(llQueue[l]))]
           /\ llQueue' = [llQueue EXCEPT ![l] = Tail(@)]
           /\ UNCHANGED <<llTask, llHave, llRead, llScore>>
Judged(l, score) ==
  /\ llScore[l] = "none" /\ llQueue[l] # <<>> /\ Head(llQueue[l]) = EndMark
  /\ llTask[l] = "failed" => (score = "zero" \/ llText[l] # <<>>)   \* a text cut off may parse or not
  /\ llScore' = [llScore EXCEPT ![l] = score]
  /\ llQueue' = [llQueue EXCEPT ![l] = Tail(@)]
  /\ UNCHANGED <<llTask, llHave, llRead, llText>>

LlNext == \E l \in Logs : \/ Create(l) \/ CreateAgain(l) \/ ReadChunk(l) \/ ReadEnd(l) \/ Put(l) \/ PutEnd(l)
                          \/ Take(l) \/ \E score \in {"model", "zero"} : Judged(l, score)
(* Producers, callers and the model answer in the end: requests time out.    *)
LlFairness == \A l \in Logs : /\ WF_llVars(Create(l) \/ CreateAgain(l) \/ ReadChunk(l) \/ ReadEnd(l))
                              /\ WF_llVars(Put(l) \/ PutEnd(l))
                              /\ WF_llVars(Take(l) \/ \E score \in {"model", "zero"} : Judged(l, score))

(* A log is judged by the text the model had sent, every chunk of it in its  *)
(* order, however producer and caller alternate on a queue that fills up.    *)
TextIsWhole == \A l \in Logs : llScore[l] # "none" => llText[l] = [n \in 1..llRead[l] |-> n]
(* LLMService.nostream is written to return '' when something goes wrong     *)
(* (llm.py:130-133), and gather waits for every call: each log is judged in  *)
(* the end.                                                                  *)
EveryLogJudged == \A l \in Logs : (llScore[l] = "none") ~> (llScore[l] # "none")
=============================================================================
