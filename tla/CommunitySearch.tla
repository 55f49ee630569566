--------------------------- MODULE CommunitySearch ---------------------------
(***************************************************************************)
(* Retrieval of community cases for a crash (crash_matcher, the functions  *)
(* retrieve_community_cases and retrieve_upstream_online): three levels of *)
(* search in the knowledge base, the online fallback, the first-hand       *)
(* verification of every card against the upstream patch, the collapse of  *)
(* cards of one patch, and the write of a confirmed patch back into the    *)
(* knowledge base.  Queries of one server process share the knowledge base *)
(* and the cache of fetched evidence.                                      *)
(*                                                                         *)
(* Scores keep only their order with respect to the two thresholds.  What  *)
(* a search recalls, and what the kernel-version filter leaves of it, is   *)
(* a choice; the code ranks by score, so cards are a set and a cut keeps   *)
(* the best of them, ties being broken by the order of recall.  Every case *)
(* points at a commit: issues are never collapsed nor persisted.           *)
(***************************************************************************)
EXTENDS Integers, FiniteSets, Sequences, Functions

CONSTANTS
  Queries,      \* the tool calls of one server process
  MaxActive,    \* calls served at the same time
  Seeds,        \* documents of the knowledge base, [sha, title]
  Online,       \* upstream commits the REST search can return, [sha, title]
  Modes,        \* scoring modes in use, of "keyword", "llm", "hybrid"
  Scores,       \* the scores a scorer can give
  L1Score, L2Score,   \* the thresholds of the mode
  Baseline,     \* score of a card of the online search
  TopScore,     \* the upper limit of a score
  TopK,         \* cards of a report (top_k_final)
  MaxOnline,    \* cards of one online search (max_candidates)
  MaxAnalyzed,  \* cards verified per report (max_commits_to_analyze)
  Verifying     \* settings of commit_analysis.enabled in use

ASSUME SearchAssumption ==
  /\ IsFiniteSet(Seeds) /\ IsFiniteSet(Online)
  /\ \A d \in Seeds \cup Online : d = [sha |-> d.sha, title |-> d.title]
  /\ \A d, e \in Online : d.sha = e.sha => d = e
  /\ Modes \subseteq {"keyword", "llm", "hybrid"} /\ Verifying \subseteq BOOLEAN
  /\ Scores \subseteq Nat /\ L1Score \in Nat /\ L2Score \in Nat
  /\ Baseline \in Nat /\ TopScore \in Nat /\ Baseline < TopScore
  /\ TopK \in Nat \ {0} /\ MaxOnline \in Nat /\ MaxAnalyzed \in Nat

Verdicts == {"confirmed", "same_area", "not_relevant"}
Positive == {"confirmed", "same_area"}
Shas == {d.sha : d \in Seeds \cup Online}
Urls == Seeds \cup Online

VARIABLES
  base,       \* the documents of the knowledge base, persisted ones included
  evidence,   \* _EVIDENCE_CACHE: url -> "absent", "fetched", "failed"
  stage,      \* query -> the await it stands at
  mode,       \* query -> its configuration, [scoring, verify]
  truth,      \* query -> what the diff of each patch read so far says
  cards,      \* query -> candidates, then final_cases
  hits,       \* query -> the knowledge base returned something
  found,      \* query -> the verification that confirmed a patch
  todo        \* query -> the cards still to be persisted, in order

searchVars == <<base, evidence, stage, mode, truth, cards, hits, found, todo>>

Card(d, level, score) ==
  [doc |-> d, level |-> level, score |-> score, verdict |-> "",
   blocked |-> FALSE]

\* source_file of a card: a commit has one address at each host that has it.
Url(c) == [sha |-> c.doc.sha, title |-> c.doc.title]

\* The best TopK of a set of cards: _cases.sort(key=score)[:top_k_final].
Cuts(S) ==
  {T \in SUBSET S :
     /\ Cardinality(T) = IF Cardinality(S) < TopK THEN Cardinality(S) ELSE TopK
     /\ \A c \in T, d \in S \ T : c.score >= d.score}

Cap(n) == IF n > TopScore THEN TopScore ELSE n

\* A score between the limits needs shared words; 15 points above the
\* threshold none are needed, 15 below they do not help.  The words are a
\* choice.  llm mode: the score alone.
CanConfirm(q, c) ==
  IF mode[q].scoring = "llm" THEN c.score >= L2Score ELSE c.score >= L2Score - 1
MustConfirm(q, c) ==
  IF mode[q].scoring = "llm" THEN c.score >= L2Score ELSE c.score >= L2Score + 1
ConfirmSets(q, S) ==
  {T \in SUBSET S : /\ \A c \in T : CanConfirm(q, c)
                    /\ \A c \in S \ T : ~MustConfirm(q, c)}

WithLevel(S, level) == {[c EXCEPT !.level = level] : c \in S}
Scored(R, level) ==
  {{Card(d, level, f[d]) : d \in R} : f \in [R -> Scores]}

Goto(q, s) == stage' = [stage EXCEPT ![q] = s]
Hold(q, S) == cards' = [cards EXCEPT ![q] = S]

NoMode == [scoring |-> "keyword", verify |-> TRUE]

-----------------------------------------------------------------------------
SearchInit ==
  /\ base = {[sha |-> d.sha, title |-> d.title, copy |-> 0] : d \in Seeds}
  /\ evidence = [u \in Urls |-> "absent"]
  /\ stage = [q \in Queries |-> "idle"]
  /\ mode = [q \in Queries |-> NoMode]
  /\ truth = [q \in Queries |-> [s \in Shas |-> "unread"]]
  /\ cards = [q \in Queries |-> {}]
  /\ hits = [q \in Queries |-> FALSE]
  /\ found = [q \in Queries |-> "nothing"]
  /\ todo = [q \in Queries |-> <<>>]

Active == {q \in Queries : stage[q] \notin {"idle", "done"}}

\* query_community_cases, or query_upstream_online which asks no base.
Ask(q) ==
  /\ stage[q] = "idle" /\ Cardinality(Active) < MaxActive
  /\ mode' \in {[mode EXCEPT ![q] = m] : m \in [scoring : Modes, verify : Verifying]}
  /\ \E s \in {"first", "upstream"} : Goto(q, s)
  /\ UNCHANGED <<base, evidence, truth, cards, hits, found, todo>>

\* What the variants of a query, fused by rank, can return of both bases; a
\* search that fails returns nothing.
Recalled == SUBSET base

\* L1: both bases, scored, filtered by kernel version.  A score above the
\* threshold ends the search; else the second confirmation; else L3.
FirstLevel(q) ==
  /\ stage[q] = "first"
  /\ \E R \in Recalled : \E S \in Scored(R, "L1") :
       LET over == {c \in S : c.score > L1Score} IN
       \/ /\ over # {}
          /\ Hold(q, over) /\ Goto(q, "select")
       \/ /\ over = {}
          /\ \E T \in ConfirmSets(q, S) :
               IF T # {} THEN Hold(q, WithLevel(T, "L2")) /\ Goto(q, "select")
                         ELSE Hold(q, S) /\ Goto(q, "wider")
  /\ UNCHANGED <<base, evidence, mode, truth, hits, found, todo>>

\* L3: wider recall; a case scored at L1 keeps that score, which the second
\* confirmation already refused.  New ones may be promoted to L2.
Wider(q) ==
  /\ stage[q] = "wider"
  /\ \E R \in Recalled :
       LET reused == {c \in cards[q] : c.doc \in R}
           fresh  == R \ {c.doc : c \in cards[q]}
       IN  \E S \in Scored(fresh, "L3") : \E T \in ConfirmSets(q, S) :
             Hold(q, WithLevel(reused, "L3") \cup (S \ T) \cup WithLevel(T, "L2"))
  /\ Goto(q, "select")
  /\ UNCHANGED <<base, evidence, mode, truth, hits, found, todo>>

\* Cards of _online_fallback_cases: none when the REST search fails.
OnlineSets(blocked) ==
  {{[Card([sha |-> d.sha, title |-> d.title, copy |-> -1], "ONLINE", Baseline)
       EXCEPT !.verdict = "unverified", !.blocked = blocked] : d \in D} :
     D \in {D \in SUBSET Online : Cardinality(D) <= MaxOnline}}

AfterSelect(q) == IF mode[q].scoring = "hybrid" THEN "rescore" ELSE "verify"

\* The first top_k_final candidates; with none, the online fallback.
Select(q) ==
  /\ stage[q] = "select"
  /\ hits' = [hits EXCEPT ![q] = cards[q] # {}]
  /\ \/ cards[q] # {} /\ \E T \in Cuts(cards[q]) : Hold(q, T)
     \/ cards[q] = {} /\ \E F \in OnlineSets(FALSE) : Hold(q, F)
  /\ Goto(q, AfterSelect(q))
  /\ UNCHANGED <<base, evidence, mode, truth, found, todo>>

\* hybrid mode: the LLM's score is weighed in; an L3 card that reaches the
\* threshold is promoted.
Rescore(q) ==
  /\ stage[q] = "rescore"
  /\ \E f \in [cards[q] -> Scores] :
       Hold(q, {[c EXCEPT !.score = f[c],
                          !.level = IF @ = "L3" /\ f[c] >= L2Score
                                    THEN "L2" ELSE @] : c \in cards[q]})
  /\ Goto(q, "verify")
  /\ UNCHANGED <<base, evidence, mode, truth, hits, found, todo>>

-----------------------------------------------------------------------------
(* First-hand verification                                                 *)

\* fetch_community_evidence: what was tried once in this process, with or
\* without success, is never fetched again.
FetchedAs(failing, targets) ==
  [u \in Urls |-> IF u \in {Url(c) : c \in targets} /\ evidence[u] = "absent"
                  THEN IF u \in failing THEN "failed" ELSE "fetched"
                  ELSE evidence[u]]

\* analyze_community_verdict, from the words the diff and the crash share: a
\* choice, made once per patch and crash.
Readings(q, targets, cache) ==
  LET new == {s \in {c.doc.sha : c \in {c \in targets : cache[Url(c)] = "fetched"}} :
                truth[q][s] = "unread"}
  IN  {[s \in Shas |-> IF s \in new THEN f[s] ELSE truth[q][s]] :
         f \in [new -> Verdicts]}

\* analyze_commit_relevance: no evidence, no verdict.
Verdict(c, cache, reading) ==
  IF cache[Url(c)] = "fetched" THEN reading[c.doc.sha] ELSE "unverified"

\* A confirmed card gains score and is no weak match; an unrelated one loses
\* half its score.
Judged(c, cache, reading, gain) ==
  LET v == Verdict(c, cache, reading) IN
  [c EXCEPT !.verdict = v,
            !.score = IF v = "confirmed" THEN Cap(@ + gain)
                      ELSE IF v = "not_relevant" THEN @ \div 2 ELSE @,
            !.level = IF v = "confirmed" /\ @ = "L3" THEN "L2" ELSE @]

\* Online cards are synthetic: unverified ones are dropped.
Survives(c) == c.level # "ONLINE" \/ c.verdict \in Positive

\* The first max_commits_to_analyze cards are verified; then the cut.
Verify(q) ==
  /\ stage[q] = "verify"
  /\ \/ /\ mode[q].verify /\ cards[q] # {}
        /\ \E targets \in SUBSET cards[q] :
           \E failing \in SUBSET {Url(c) : c \in targets} :
           \E reading \in Readings(q, targets, FetchedAs(failing, targets)) :
             LET cache  == FetchedAs(failing, targets)
                 judged == {Judged(c, cache, reading, 1) : c \in targets}
                 all    == judged \cup (cards[q] \ targets)
             IN  /\ Cardinality(targets) =
                      IF Cardinality(cards[q]) < MaxAnalyzed
                      THEN Cardinality(cards[q]) ELSE MaxAnalyzed
                 /\ \A c \in targets, d \in cards[q] \ targets : c.score >= d.score
                 /\ evidence' = cache
                 /\ truth' = [truth EXCEPT ![q] = reading]
                 /\ found' = [found EXCEPT ![q] =
                      IF \E c \in judged : c.verdict = "confirmed" THEN "report"
                                                                 ELSE @]
                 /\ \E T \in Cuts({c \in all : Survives(c)}) : Hold(q, T)
     \/ /\ ~mode[q].verify \/ cards[q] = {}
        /\ UNCHANGED <<evidence, truth, found, cards>>
  /\ Goto(q, "extra")
  /\ UNCHANGED <<base, mode, hits, todo>>

\* Nothing verified positive: search upstream as well.  These cards must
\* not be persisted; with one of them kept the unrelated cards go.
Extra(q) ==
  /\ stage[q] = "extra"
  /\ \/ /\ mode[q].verify /\ cards[q] # {}
        /\ \A c \in cards[q] : c.verdict \notin Positive
        /\ \E F \in OnlineSets(TRUE) : \E failing \in SUBSET {Url(c) : c \in F} :
           \E reading \in Readings(q, F, FetchedAs(failing, F)) :
             LET cache  == FetchedAs(failing, F)
                 judged == {Judged(c, cache, reading, 2) : c \in F}
                 kept   == {c \in judged : c.verdict \in Positive}
                 all    == {c \in cards[q] : c.verdict # "not_relevant"} \cup kept
             IN  /\ evidence' = cache
                 /\ truth' = [truth EXCEPT ![q] = reading]
                 /\ found' = [found EXCEPT ![q] =
                      IF \E c \in kept : c.verdict = "confirmed" THEN "extra"
                                                               ELSE @]
                 /\ IF kept = {} THEN UNCHANGED cards
                    ELSE \E T \in Cuts(all) : Hold(q, T)
     \/ /\ \/ ~mode[q].verify
           \/ cards[q] = {}
           \/ \E c \in cards[q] : c.verdict \in Positive
        /\ UNCHANGED <<evidence, truth, found, cards>>
  /\ Goto(q, "collapse")
  /\ UNCHANGED <<base, mode, hits, todo>>

-----------------------------------------------------------------------------
(* One card per patch                                                      *)

\* The position of a group in groups that a card joins, 0 for a new one:
\* the same sha first, else the title the group was opened with.
Joins(groups, c) ==
  LET bySha   == {i \in DOMAIN groups : c.doc.sha \in groups[i].shas}
      byTitle == {i \in DOMAIN groups : c.doc.title = groups[i].title}
      first(S) == CHOOSE i \in S : \A j \in S : i <= j
  IN  IF bySha # {} THEN first(bySha)
      ELSE IF byTitle # {} THEN first(byTitle) ELSE 0

AddCard(groups, c) ==
  LET i == Joins(groups, c) IN
  IF i = 0
  THEN Append(groups, [shas |-> {c.doc.sha}, title |-> c.doc.title,
                       members |-> {c}])
  ELSE [groups EXCEPT ![i].shas = @ \cup {c.doc.sha},
                      ![i].members = @ \cup {c}]

\* A mutant: a card of the base first, else the first of the group.
BetterFirst(c, d) == c.level # "ONLINE" \/ d.level = "ONLINE"

\* The order of _rank: confirmed, then from the base, then the score.
Better(c, d) ==
  LET rank(x) == <<IF x.verdict = "confirmed" THEN 1 ELSE 0,
                   IF x.level = "ONLINE" THEN 0 ELSE 1, x.score>>
      r == rank(c)
      s == rank(d)
  IN  \/ r[1] > s[1]
      \/ r[1] = s[1] /\ r[2] > s[2]
      \/ r[1] = s[1] /\ r[2] = s[2] /\ r[3] >= s[3]

\* top_verdict of the summary of an answer (_build_verdict_summary).
TopVerdict(S) ==
  LET verdicts == {c.verdict : c \in S} IN
  IF "confirmed" \in verdicts THEN "confirmed"
  ELSE IF verdicts \cap {"same_area", "not_relevant"} # {} THEN "same_area"
  ELSE IF S # {} THEN "unverified" ELSE "none"

\* Every order the ranked list can have.
Listings(S) ==
  {l \in [1..Cardinality(S) -> S] :
     Range(l) = S /\ \A i, j \in DOMAIN l : i < j => l[i].score >= l[j].score}

\* The groups of a ranked list, card by card.
Grouped(l) ==
  LET of[n \in 0..Len(l)] == IF n = 0 THEN <<>> ELSE AddCard(of[n - 1], l[n])
  IN  of[Len(l)]

\* _dedupe_same_patch_cases: the sets of cards it can return.
Collapsed(S) ==
  LET groupings == {Grouped(l) : l \in Listings(S)}
  IN  UNION {{{p[i] : i \in DOMAIN g} :
                p \in {p \in [DOMAIN g -> S] :
                         \A i \in DOMAIN g :
                           /\ p[i] \in g[i].members
                           /\ \A d \in g[i].members : Better(p[i], d)}} :
             g \in groupings}

ToPersist(S) ==
  {c \in S : c.level = "ONLINE" /\ c.verdict = "confirmed" /\ ~c.blocked}

Collapse(q) ==
  /\ stage[q] = "collapse"
  /\ \E S \in Collapsed(cards[q]) :
       /\ Hold(q, S)
       /\ \E l \in Listings(ToPersist(S)) : todo' = [todo EXCEPT ![q] = l]
  /\ Goto(q, "persist")
  /\ UNCHANGED <<base, evidence, mode, truth, hits, found>>

\* retrieve_upstream_online: only positive cards are returned, none when the
\* verification is switched off, and nothing is persisted.
Upstream(q) ==
  /\ stage[q] = "upstream"
  /\ \/ /\ mode[q].verify
        /\ \E F \in OnlineSets(FALSE) : \E failing \in SUBSET {Url(c) : c \in F} :
           \E reading \in Readings(q, F, FetchedAs(failing, F)) :
             LET cache  == FetchedAs(failing, F)
                 judged == {Judged(c, cache, reading, 2) : c \in F}
             IN  /\ evidence' = cache
                 /\ truth' = [truth EXCEPT ![q] = reading]
                 /\ Hold(q, {c \in judged : c.verdict \in Positive})
     \/ ~mode[q].verify /\ UNCHANGED <<evidence, truth, cards>>
  /\ Goto(q, "persist")
  /\ UNCHANGED <<base, mode, hits, found, todo>>

-----------------------------------------------------------------------------
(* _persist_online_confirmed                                               *)

Stored(sha) == {d \in base : d.sha = sha}

\* community_commit_exists: a failed search also answers "not there".
CheckStored(q) ==
  /\ stage[q] = "persist" /\ todo[q] # <<>>
  /\ \/ /\ Stored(Head(todo[q]).doc.sha) # {}
        /\ todo' = [todo EXCEPT ![q] = Tail(@)]
        /\ UNCHANGED stage
     \/ /\ Goto(q, "create")
        /\ UNCHANGED todo
  /\ UNCHANGED <<base, evidence, mode, truth, cards, hits, found>>

\* create_community_case for a patch that was not there at the check; a
\* write that fails is only logged.
Create(q) ==
  /\ stage[q] = "create"
  /\ LET d == Head(todo[q]).doc IN
     \/ base' = base \cup {[sha |-> d.sha, title |-> d.title,
                             copy |-> Cardinality(Stored(d.sha)) + 1]}
     \/ UNCHANGED base
  /\ todo' = [todo EXCEPT ![q] = Tail(@)]
  /\ Goto(q, "persist")
  /\ UNCHANGED <<evidence, mode, truth, cards, hits, found>>

Reply(q) ==
  /\ stage[q] = "persist" /\ todo[q] = <<>>
  /\ Goto(q, "done")
  /\ Hold(q, {})
  /\ mode' = [mode EXCEPT ![q] = NoMode]
  /\ truth' = [truth EXCEPT ![q] = [s \in Shas |-> "unread"]]
  /\ hits' = [hits EXCEPT ![q] = FALSE]
  /\ found' = [found EXCEPT ![q] = "nothing"]
  /\ UNCHANGED <<base, evidence, todo>>

SearchNext ==
  \E q \in Queries :
    \/ Ask(q) \/ FirstLevel(q) \/ Wider(q) \/ Select(q) \/ Rescore(q)
    \/ Verify(q) \/ Extra(q) \/ Collapse(q) \/ Upstream(q)
    \/ CheckStored(q) \/ Create(q) \/ Reply(q)

-----------------------------------------------------------------------------
Reported(q) == stage[q] \in {"persist", "create"}

\* A card found online reaches a report only when its diff was read and
\* speaks for it, wherever in the search it came from (where verification is
\* switched on).
OnlyVerifiedOnline ==
  \A q \in Queries : Reported(q) /\ mode[q].verify =>
    \A c \in cards[q] : c.level = "ONLINE" => c.verdict \in Positive

\* What is written into the knowledge base was confirmed first-hand and was
\* found for a query to which the base had no answer: a patch that merely
\* touches a hot function, found although the base had answered, must not
\* make itself a hit of later queries.
NoSelfReinforcement ==
  \A q \in Queries : \A i \in DOMAIN todo[q] :
    LET c == todo[q][i] IN
    ~hits[q] /\ evidence[Url(c)] = "fetched" /\ truth[q][c.doc.sha] = "confirmed"

\* A patch the verification of the report confirmed makes the answer a
\* confirmed one, after the cut and after cards of one patch were collapsed
\* (hybrid mode, which weighs in another score, may cut it).
ConfirmedReachesReport ==
  \A q \in Queries : Reported(q) /\ found[q] = "report" /\ mode[q].scoring # "hybrid" =>
    TopVerdict(cards[q]) = "confirmed"

\* A card labelled as a weak match never carries a confirmed verdict, nor,
\* where a score alone decides, a score of the next level.
WeakNeverStrong ==
  \A q \in Queries : Reported(q) =>
    \A c \in cards[q] : c.level = "L3" =>
      /\ c.verdict # "confirmed"
      /\ mode[q].scoring # "keyword" => c.score < L2Score

\* No two cards of one report are the same commit.
OneCardPerCommit ==
  \A q \in Queries : Reported(q) =>
    \A c, d \in cards[q] : c.doc.sha = d.doc.sha => c = d

\* All five: the cards of a report, and those it writes back, are what the
\* evidence of the search supports.
CardsAreSound == /\ OnlyVerifiedOnline /\ NoSelfReinforcement /\ ConfirmedReachesReport
                 /\ WeakNeverStrong /\ OneCardPerCommit

\* The knowledge base holds no commit twice that was not there twice.
StoredOnce ==
  \A d, e \in base : d.copy > 0 /\ e.copy > 0 /\ d.sha = e.sha => d = e

\* Cards of the report that share a title are one patch and one card: the
\* commit and its backport are "merged across groups sharing the normalized
\* title".
OneCardPerTitle ==
  \A q \in Queries : Reported(q) /\ stage[q] = "persist" =>
    \A c, d \in cards[q] : c.doc.title = d.doc.title => c = d
=============================================================================
