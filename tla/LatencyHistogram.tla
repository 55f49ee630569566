---------------------------- MODULE LatencyHistogram ----------------------------
(***************************************************************************)
(* The server-side latency quantiles of a round (metrics.py): the scraper  *)
(* records the cumulative buckets of a histogram, some scrapes fail, the   *)
(* server may restart and count from zero, and the report interpolates a   *)
(* quantile from the last buckets minus the first.  Bucket i holds the     *)
(* requests that took between i - 1 and i; one more holds the rest.        *)
(***************************************************************************)
EXTENDS Integers, Sequences, FiniteSetsExt, SequencesExt

CONSTANTS
  Bounds,        \* finite buckets
  Percents,      \* the quantiles of the report (50, 90, 99)
  MaxObserved,   \* requests served in a behaviour
  MaxScrapes

ASSUME LatencyAssumption == Bounds \in Nat /\ Percents \subseteq 1 .. 100

Buckets == 1 .. Bounds + 1

VARIABLES
  counts,        \* the server: requests of each bucket since it started
  scrapes,       \* the samples: [Buckets -> Nat], cumulative, or <<>> for a failed one
  observed,      \* ghost: requests of each bucket since the first good scrape
  truth,         \* ghost: observed at the last good scrape
  restarted,     \* ghost: since the last good scrape
  hidden         \* ghost: a restart that the next good scrape does not show

lhVars == <<counts, scrapes, observed, truth, restarted, hidden>>

Nothing == [b \in Buckets |-> 0]
Upto(f, b) == LET sum[c \in 0 .. Bounds + 1] == IF c = 0 THEN 0 ELSE sum[c - 1] + f[c] IN sum[b]
All(f) == Upto(f, Bounds + 1)

LhInit == /\ counts = Nothing /\ scrapes = <<>>
          /\ observed = Nothing /\ truth = Nothing
          /\ restarted = FALSE /\ hidden = FALSE

\* The scrapes that did not fail.
WithGood(kept, i) == IF scrapes[i] = <<>> THEN kept ELSE Append(kept, scrapes[i])
Good == LET kept[i \in 0 .. Len(scrapes)] == IF i = 0 THEN <<>> ELSE WithGood(kept[i - 1], i)
        IN  kept[Len(scrapes)]

Observe(b) ==
  /\ All(counts) < MaxObserved /\ All(observed) < MaxObserved /\ Len(scrapes) < MaxScrapes
  /\ counts' = [counts EXCEPT ![b] = @ + 1]
  /\ observed' = IF Good = <<>> THEN observed ELSE [observed EXCEPT ![b] = @ + 1]
  /\ UNCHANGED <<scrapes, truth, restarted, hidden>>

Restart ==
  /\ counts # Nothing /\ Len(scrapes) < MaxScrapes
  /\ counts' = Nothing /\ restarted' = (Good # <<>>)
  /\ UNCHANGED <<scrapes, observed, truth, hidden>>

(* parse_prometheus: the cumulative buckets, those of all engines added up.  *)
Parsed == [b \in Buckets |-> Upto(counts, b)]

Scrape ==
  /\ Len(scrapes) < MaxScrapes
  /\ scrapes' = Append(scrapes, Parsed)
  /\ hidden' = (hidden \/ (restarted /\ Parsed[Bounds + 1] >= Last(Good)[Bounds + 1]))
  /\ truth' = observed /\ restarted' = FALSE
  /\ UNCHANGED <<counts, observed>>

ScrapeFails ==
  /\ Len(scrapes) < MaxScrapes
  /\ scrapes' = Append(scrapes, <<>>)
  /\ UNCHANGED <<counts, observed, truth, restarted, hidden>>

LhNext == (\E b \in Buckets : Observe(b)) \/ Restart \/ Scrape \/ ScrapeFails
-----------------------------------------------------------------------------
(* Mutant: like _bucket_delta, it compares only the first and the last.      *)
CountDeltaOfEnds(good) ==
  LET count(i) == good[i][Bounds + 1]
  IN IF Len(good) < 2 \/ count(Len(good)) < count(1) THEN -1 ELSE count(Len(good)) - count(1)

(* _delta of the _count series: -1 when a counter went back.                 *)
CountDelta(good) ==
  LET count(i) == good[i][Bounds + 1]
  IN IF Len(good) < 2 \/ \E i \in 1 .. Len(good) - 1 : count(i + 1) < count(i) THEN -1
     ELSE count(Len(good)) - count(1)

(* _bucket_delta: {} when some bucket went back.                             *)
BucketDelta(good) ==
  IF Len(good) < 2 \/ \E b \in Buckets : Last(good)[b] < Head(good)[b] THEN <<>>
  ELSE [b \in Buckets |-> Last(good)[b] - Head(good)[b]]

(* _hist_quantile_ms: the bucket of the quantile and its place in it, "part" *)
(* of "span"; the last bucket gives the greatest bound.                      *)
Quantile(percent) ==
  LET good == Good
      count == CountDelta(good)
      delta == BucketDelta(good)
      rank == percent * count
      at == Min({b \in Buckets : 100 * delta[b] >= rank})
      before == IF at = 1 THEN 0 ELSE delta[at - 1]
  IN IF delta = <<>> \/ count <= 0 THEN [bucket |-> 0, part |-> 0, span |-> 0]
     ELSE IF at = Bounds + 1 THEN [bucket |-> at, part |-> 0, span |-> 1]
     ELSE [bucket |-> at, part |-> rank - 100 * before, span |-> 100 * (delta[at] - before)]
-----------------------------------------------------------------------------
(* A quantile that is reported lies in the bucket of the request it names,   *)
(* among those served between the first and the last good scrape, whatever   *)
(* scrapes failed, unless a restart was caught up with before the next one.  *)
QuantileIsReal ==
  ~hidden /\ Len(scrapes) > 1 => \A percent \in Percents :
    LET q == Quantile(percent)
    IN q.bucket # 0 =>
         /\ 100 * Upto(truth, q.bucket) >= percent * All(truth)
         /\ 100 * Upto(truth, q.bucket - 1) < percent * All(truth)
         /\ 0 <= q.part /\ q.part <= q.span

(* Not so when a restart stays hidden: the counters tell nothing of it.      *)
RestartsAreSeen == ~hidden
=============================================================================
