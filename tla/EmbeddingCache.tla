---------------------------- MODULE EmbeddingCache ----------------------------
(***************************************************************************)
(* Turning texts into vectors (witty-log-detection service/embedding.py,   *)
(* sqlite/manager/embedding_cache.py).  Workers are processes, each with   *)
(* the model its configuration names; they share one cache table whose key *)
(* is the text alone.  A worker takes its texts in batches: look up, fetch *)
(* what is missing, save it, merge by position.  The service that computes *)
(* the vectors is the environment; a vector is known by its text and model.*)
(***************************************************************************)
EXTENDS Integers, Sequences, SequencesExt

CONSTANTS Texts, Models, Workers,
          Providers,              \* subset of {"openapi", "ascending"}
          MaxTexts,               \* bound: texts a worker is given
          VectorBatch, Tries      \* embedding_model.batch_size, max_retries

ASSUME CacheAssumption == {VectorBatch, Tries, MaxTexts} \subseteq Nat \ {0}

VARIABLES ecCache,    \* text -> its row [model, vec], or NoRow
          ecWork      \* worker -> its configuration, texts, vectors so far, and the batch under way
ecVars == <<ecCache, ecWork>>

Vec(t, m) == [text |-> t, model |-> m]
ZeroVec == [zero |-> TRUE]
NoRow == [none |-> TRUE]

EcInit == /\ ecCache = [t \in Texts |-> NoRow]
          /\ ecWork = [w \in Workers |-> [at |-> "idle", texts |-> <<>>]]
(* A worker reads its configuration and has texts for the first time.        *)
Begin(w) == /\ ecWork[w].at = "idle"
            /\ \E p \in Providers, m \in Models, ts \in SeqOf(Texts, MaxTexts) \ {<<>>} :
                 ecWork' = [ecWork EXCEPT ![w] = [provider |-> p, model |-> m, texts |-> ts, out |-> <<>>, at |-> "look",
                                                  hits |-> <<>>, got |-> <<>>, tries |-> 0, failed |-> FALSE]]
            /\ UNCHANGED ecCache

Batch(k) == LET left == Len(k.texts) - Len(k.out)
            IN SubSeq(k.texts, Len(k.out) + 1, Len(k.out) + (IF left < VectorBatch THEN left ELSE VectorBatch))
\* uncached_indices: the places that were no hit, one appended after the other
WithPlace(s, hits, n) == IF hits[n] = NoRow THEN Append(s, n) ELSE s
Missing(hits) ==
  LET upTo[n \in 0..Len(hits)] == IF n = 0 THEN <<>> ELSE WithPlace(upTo[n - 1], hits, n) IN upTo[Len(hits)]
Work(w, k) == ecWork' = [ecWork EXCEPT ![w] = k]

(* The vectors of a batch join the result; the next batch is looked up.      *)
Joined(k, vecs) == [k EXCEPT !.out = @ \o vecs, !.hits = <<>>, !.got = <<>>, !.tries = 0,
                             !.at = IF Len(k.out) + Len(vecs) < Len(k.texts) THEN "look" ELSE "done"]
\* mutant: a row of another model is a hit
HitOfAny(t, m) == IF ecCache[t] = NoRow THEN NoRow ELSE ecCache[t].vec
Hit(t, m) == IF ecCache[t] # NoRow /\ ecCache[t].model = m THEN ecCache[t].vec ELSE NoRow

(* What the look-up read is kept while the rest is fetched; a read that      *)
(* fails counts as no hit.                                                   *)
LookUp(w) == LET k == ecWork[w] IN
  /\ k.at = "look"
  /\ \E read \in BOOLEAN :
       LET hits == [i \in 1..Len(Batch(k)) |-> IF read THEN Hit(Batch(k)[i], k.model) ELSE NoRow] IN
       Work(w, IF NoRow \in Range(hits) THEN [k EXCEPT !.at = "fetch", !.hits = hits] ELSE Joined(k, hits))
  /\ UNCHANGED ecCache

Zeros(k) == [i \in 1..Len(Batch(k)) |-> ZeroVec]
(* openapi: the list in one request.  429 and a lost connection are tried    *)
(* again; other answers, and the last try, give up the batch: its vectors    *)
(* are zero, those found in the cache too, and nothing is saved.             *)
Abandon(k) == [Joined(k, Zeros(k)) EXCEPT !.failed = TRUE]
AskList(w) == LET k == ecWork[w] IN
  /\ k.at = "fetch" /\ k.provider = "openapi"
  /\ \/ Work(w, [k EXCEPT !.at = "save", !.got = [i \in 1..Len(Missing(k.hits)) |-> Vec(Batch(k)[Missing(k.hits)[i]], k.model)]])
     \/ k.tries + 1 < Tries /\ Work(w, [k EXCEPT !.tries = @ + 1])
     \/ Work(w, Abandon(k))
  /\ UNCHANGED ecCache

(* ascending: one text a request, every refusal tried again, an exception    *)
(* not; a text that fails has the zero vector.                               *)
AskText(w) == LET k == ecWork[w] IN
  /\ k.at = "fetch" /\ k.provider = "ascending"
  /\ LET n == Len(k.got) + 1 IN
     LET To(vec) == [k EXCEPT !.got = Append(@, vec), !.tries = 0, !.failed = @ \/ vec = ZeroVec,
                              !.at = IF n = Len(Missing(k.hits)) THEN "save" ELSE "fetch"] IN
     \/ Work(w, To(Vec(Batch(k)[Missing(k.hits)[n]], k.model)))
     \/ k.tries + 1 < Tries /\ Work(w, [k EXCEPT !.tries = @ + 1])
     \/ Work(w, To(ZeroVec))
  /\ UNCHANGED ecCache

(* One INSERT OR REPLACE a text, each committed by itself: a failure leaves  *)
(* the rows before it, and its result is not looked at.                      *)
Saved(k, n) == LET Latest(t) == CHOOSE i \in 1..n : /\ Batch(k)[Missing(k.hits)[i]] = t
                                                  /\ \A j \in (i + 1)..n : Batch(k)[Missing(k.hits)[j]] # t
               IN [t \in Texts |-> IF \E i \in 1..n : Batch(k)[Missing(k.hits)[i]] = t
                                     THEN [model |-> k.model, vec |-> k.got[Latest(t)]] ELSE ecCache[t]]
Merged(k) == [i \in 1..Len(k.hits) |->
                IF k.hits[i] # NoRow THEN k.hits[i]
                ELSE k.got[CHOOSE n \in 1..Len(k.got) : Missing(k.hits)[n] = i]]
SaveAndMerge(w) == LET k == ecWork[w] IN
  /\ k.at = "save"
  /\ \E n \in 0..Len(k.got) : ecCache' = Saved(k, n)
  /\ Work(w, Joined(k, Merged(k)))

EcNext == \E w \in Workers : Begin(w) \/ LookUp(w) \/ AskList(w) \/ AskText(w) \/ SaveAndMerge(w)

Started == {w \in Workers : ecWork[w].at # "idle"}
(* Whatever other workers write to the shared cache meanwhile, a text gets a *)
(* vector its own worker's model made of that very text, or the zero vector. *)
OwnVector == \A w \in Started : LET k == ecWork[w] IN
  \A i \in 1..Len(k.out) : k.out[i] \in {Vec(k.texts[i], k.model), ZeroVec}
(* With a service that answers lists, a failure stays with the worker that   *)
(* saw it: no other worker finds zero vectors in the cache.                  *)
ZeroIsOwnFailure == (\A w \in Started : ecWork[w].provider = "openapi") =>
  \A w \in Started : ZeroVec \in Range(ecWork[w].out) => ecWork[w].failed
(* Both: the shared cache gives no worker another's vector or failure.       *)
VectorsAreOwn == OwnVector /\ ZeroIsOwnFailure
(* embedding.py:212 saves "the newly fetched vectors": a row is a vector.    *)
CacheHoldsVectors == \A t \in Texts : ecCache[t] # NoRow => ecCache[t].vec # ZeroVec
=============================================================================
