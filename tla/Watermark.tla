------------------------------- MODULE Watermark -------------------------------
(***************************************************************************)
(* One incremental dataset of kernel-dataset-agent: the rounds that page   *)
(* through the upstream list from the watermark on, store every item not   *)
(* yet on disk, and move the watermark (cycle.mjs, collectors/shared.mjs,  *)
(* commits.mjs, openeuler-issue.mjs, linux-bugzilla.mjs).  Dates are small *)
(* numbers, 0 stands for none.  Items, the clock and the upstream lists    *)
(* are the environment's.                                                  *)
(***************************************************************************)
EXTENDS Integers, Sequences, FiniteSets, SequencesExt, FiniteSetsExt

CONSTANTS Items,      \* upstream items, numbered in the order they turn up
          MaxDate,    \* bound: the clock runs from 1 to MaxDate
          MaxRounds,  \* bound: rounds begun
          PageSize, MaxPages, Interval,
          Kinds,      \* subset of {"commits", "issues", "bugs"}
          Limits      \* --limit values a round may be given, 0 for none

ASSUME WatermarkAssumption == /\ Items \subseteq Nat
                              /\ {MaxDate, MaxRounds, PageSize, MaxPages, Interval} \subseteq Nat \ {0}
                              /\ Limits \subseteq Nat

VARIABLES wmKind,     \* the collector that serves the dataset
          wmNow, wmDate,   \* clock; item -> its date upstream
          wmStored,   \* items with a file
          wmState,    \* the saved state file: [saved, watermark, start]
          wmRound,    \* the round under way, volatile, and wmBegun, how many began
          wmBegun,
          wmLate,     \* history: items a watermark cannot promise
          wmCut       \* history: items a truncated round did not fetch
wmVars == <<wmKind, wmNow, wmDate, wmStored, wmState, wmRound, wmBegun, wmLate, wmCut>>

Asleep == [at |-> "idle", since |-> 0, page |-> 1, seen |-> <<>>, cut |-> FALSE, todo |-> <<>>, limit |-> 0, start |-> 0]
Published == {i \in Items : wmDate[i] > 0}
WmInit == /\ wmKind \in Kinds
          /\ wmNow = 1 /\ wmDate = [i \in Items |-> 0]
          /\ wmStored = {} /\ wmRound = Asleep /\ wmBegun = 0
          /\ wmState = [saved |-> FALSE, watermark |-> 0, start |-> 0]
          /\ wmLate = {} /\ wmCut = {}

(* Upstream.  A commit carries the date its author gave it, so it may turn   *)
(* up older than the clock; issues and bugs are dated by the server, and an  *)
(* update dates them again.                                                  *)
Publish(i, d) ==
  /\ wmDate[i] = 0 /\ (\A j \in Items : j < i => wmDate[j] > 0)
  /\ wmKind = "commits" \/ d = wmNow
  /\ wmDate' = [wmDate EXCEPT ![i] = d]
  /\ wmLate' = IF d < wmNow THEN wmLate \cup {i} ELSE wmLate
  /\ UNCHANGED <<wmBegun, wmKind, wmNow, wmStored, wmState, wmRound, wmCut>>
Touch(i) ==
  /\ wmKind # "commits" /\ wmDate[i] \in 1..(wmNow - 1)
  /\ wmDate' = [wmDate EXCEPT ![i] = wmNow]
  /\ wmLate' = IF wmKind = "bugs" /\ wmRound.at # "idle" THEN wmLate \cup {i} ELSE wmLate
  /\ UNCHANGED <<wmBegun, wmKind, wmNow, wmStored, wmState, wmRound, wmCut>>
WmTick == /\ wmNow < MaxDate /\ wmNow' = wmNow + 1
          /\ UNCHANGED <<wmBegun, wmKind, wmDate, wmStored, wmState, wmRound, wmLate, wmCut>>

(* freshState and resolveWatermark: --since or --full come first, then the   *)
(* saved watermark, then the instant one interval before the first start.    *)
Loaded == IF wmState.saved THEN wmState ELSE [wmState EXCEPT !.start = Max({0, wmNow - Interval})]
Resolved == IF Loaded.watermark > 0 THEN Loaded.watermark ELSE Loaded.start
BeginRound(since, limit) ==
  /\ wmRound.at = "idle" /\ wmBegun < MaxRounds /\ wmBegun' = wmBegun + 1
  /\ wmRound' = [Asleep EXCEPT !.at = "page", !.since = since, !.limit = limit, !.start = Loaded.start]
  /\ wmLate' = wmLate \cup {i \in Published : Resolved <= wmDate[i] /\ wmDate[i] < since}
  /\ UNCHANGED <<wmKind, wmNow, wmDate, wmStored, wmState, wmCut>>

(* The members of S as a sequence, in the strict order R: the n-th has n-1   *)
(* before it.                                                                *)
Rank(S, R, x) == Cardinality({y \in S : <<y, x>> \in R})
InOrder(S, R) == [n \in 1..Cardinality(S) |-> CHOOSE x \in S : Rank(S, R, x) = n - 1]

(* The upstream list: newest first, bugs by their number.                    *)
Listed(since) == {i \in Published : wmDate[i] >= since}
Precedes(i, j) == IF wmKind = "bugs" \/ wmDate[i] = wmDate[j] THEN i < j ELSE wmDate[i] > wmDate[j]
ListOrder(since) == {p \in Listed(since) \X Listed(since) : Precedes(p[1], p[2])}
Listing(since) == InOrder(Listed(since), ListOrder(since))
PageOf(since, p) ==
  LET all == Listing(since)
  IN  [k \in 1..Min({PageSize, Max({0, Len(all) - (p - 1) * PageSize})}) |->
         LET i == all[(p - 1) * PageSize + k] IN [id |-> i, date |-> wmDate[i]]]

(* Stored in the order fetched for commits, oldest first for the others:     *)
(* the sort by date is stable.                                               *)
ByDate(seen) == {p \in (DOMAIN seen) \X (DOMAIN seen) :
                   seen[p[1]].date < seen[p[2]].date \/ (seen[p[1]].date = seen[p[2]].date /\ p[1] < p[2])}
WorkOrder(seen) ==
  IF wmKind = "commits" THEN seen
  ELSE [n \in DOMAIN seen |-> seen[InOrder(DOMAIN seen, ByDate(seen))[n]]]
FetchPage(lowQuota) ==
  LET batch == PageOf(wmRound.since, wmRound.page)
      seen  == wmRound.seen \o batch
      frontier == wmKind = "issues" /\ batch # <<>> /\ \A k \in DOMAIN batch : batch[k].date <= wmRound.since
      quota == lowQuota /\ wmKind = "commits" /\ batch # <<>>
      ended == Len(batch) < PageSize \/ frontier
      cut   == quota \/ (~ended /\ wmRound.page = MaxPages)
  IN  /\ wmRound.at = "page"
      /\ wmRound' = IF ended \/ cut
                    THEN [wmRound EXCEPT !.at = "store", !.seen = seen, !.cut = cut, !.todo = WorkOrder(seen)]
                    ELSE [wmRound EXCEPT !.seen = seen, !.page = @ + 1]
      /\ wmLate' = IF frontier THEN wmLate \cup ({i \in Published : wmDate[i] = wmRound.since} \ {seen[k].id : k \in DOMAIN seen})
                   ELSE wmLate
      /\ UNCHANGED <<wmBegun, wmKind, wmNow, wmDate, wmStored, wmState, wmCut>>

Processed == Len(wmRound.seen) - Len(wmRound.todo)
Limited == wmRound.limit > 0 /\ Processed >= wmRound.limit /\ wmRound.todo # <<>>
StoreNext ==
  /\ wmRound.at = "store" /\ wmRound.todo # <<>> /\ ~Limited
  /\ wmStored' = wmStored \cup {Head(wmRound.todo).id}
  /\ wmRound' = [wmRound EXCEPT !.todo = Tail(@)]
  /\ UNCHANGED <<wmBegun, wmKind, wmNow, wmDate, wmState, wmLate, wmCut>>

(* mergeState: a round that saw nothing keeps the watermark; the state is     *)
(* saved with the start it was loaded with.                                  *)
Dates == {wmRound.seen[k].date : k \in DOMAIN wmRound.seen}
NewWatermark == IF Dates = {} THEN wmState.watermark
                ELSE IF wmRound.cut \/ Limited THEN Min(Dates) ELSE Max(Dates)
EndRound ==
  /\ wmRound.at = "store" /\ (wmRound.todo = <<>> \/ Limited)
  /\ wmState' = [saved |-> TRUE, watermark |-> NewWatermark, start |-> wmRound.start]
  /\ wmCut' = IF wmRound.cut THEN wmCut \cup (Published \ {wmRound.seen[k].id : k \in DOMAIN wmRound.seen}) ELSE wmCut
  /\ wmRound' = Asleep
  /\ UNCHANGED <<wmBegun, wmKind, wmNow, wmDate, wmStored, wmLate>>

(* A request that fails after its retries ends the round: a page, or the     *)
(* comments of a bug.  The state is saved with the watermark it had.         *)
\* mutant: the error path advances the watermark over what it had fetched
FailedStateAdvanced == [saved |-> TRUE, watermark |-> NewWatermark, start |-> wmRound.start]
FailedState == [saved |-> TRUE, watermark |-> wmState.watermark, start |-> wmRound.start]
FailRound ==
  /\ \/ wmRound.at = "page"
     \/ wmRound.at = "store" /\ wmKind = "bugs" /\ wmRound.todo # <<>> /\ ~Limited /\ Head(wmRound.todo).id \notin wmStored
  /\ wmState' = FailedState /\ wmRound' = Asleep
  /\ UNCHANGED <<wmBegun, wmKind, wmNow, wmDate, wmStored, wmLate, wmCut>>
CrashRound ==
  /\ wmRound.at # "idle" /\ wmRound' = Asleep
  /\ UNCHANGED <<wmBegun, wmKind, wmNow, wmDate, wmStored, wmState, wmLate, wmCut>>

WmNext == \/ \E i \in Items : (\E d \in 1..wmNow : Publish(i, d)) \/ Touch(i)
          \/ WmTick
          \/ \E since \in {Resolved, wmNow}, limit \in Limits : BeginRound(since, limit)
          \/ \E low \in BOOLEAN : FetchPage(low)
          \/ StoreNext \/ EndRound \/ FailRound \/ CrashRound

(* What the watermark stands for: an item dated in the window the dataset    *)
(* started with and before the watermark has its file.  Whatever order pages *)
(* are read, items turn up and rounds fail or die in, only these may be      *)
(* missing: an item published with a date of the past, a bug that changed    *)
(* while its list was read, one that a later --since stepped over, an issue  *)
(* of the very date a round starts at, past the page that reaches it         *)
(* (wmLate), and one a truncated round had not reached (wmCut).                        *)
Window == {i \in Published : wmState.start <= wmDate[i] /\ wmDate[i] < wmState.watermark}
WatermarkCovers == wmState.saved => Window \subseteq wmStored \cup wmLate \cup wmCut
(* commits.mjs:61 says that a truncated round takes the watermark back to    *)
(* its oldest item and that the next round goes on from there: what it did   *)
(* not reach would still be ahead of the watermark.                          *)
NothingSkipped == wmState.saved => Window \subseteq wmStored \cup wmLate
=============================================================================
