---------------------------- MODULE KnowledgeMatch ----------------------------
(***************************************************************************)
(* The base of known issues of crash_matcher: issues are recorded and      *)
(* merged (add_knowledge, merge_knowledge), and a crash is looked up by    *)
(* its signature, then by a scored search (match_crash).  Every tool call  *)
(* awaits the base between reading and writing it, calls interleave, a     *)
(* failed search reads as an empty answer and a failed write as no id.     *)
(*                                                                         *)
(* A signature is contained in others (x+0x1 in x+0x10), so the "like"     *)
(* search of the first level may return issues without the signature.      *)
(* Scores keep their order with respect to the two thresholds.             *)
(***************************************************************************)
EXTENDS Integers, FiniteSets, Sequences

CONSTANTS
  Tools,        \* the tool calls
  Signatures,   \* fingerprints of issues and crashes
  Like,         \* signature -> the signatures that contain it
  FirstTop,     \* issues a first level search returns (top_k=5)
  MergeTop,     \* issues merge_knowledge looks at (top_k=250)
  Grades,       \* scores of an issue for a crash
  KnownGrade,   \* the score of a second level match (60)
  HighGrade,    \* the score of a high match (70)
  MaxIssues     \* bound of the model

ASSUME KnowledgeAssumption ==
  /\ {FirstTop, MergeTop, KnownGrade, HighGrade, MaxIssues} \subseteq Nat /\ Grades \subseteq Nat
  /\ \A s \in Signatures : s \in Like[s]

VARIABLES
  issues,   \* stored issues: number -> [fps, parts]
  at,       \* tool call -> the await it stands at
  work,     \* tool call -> what it holds across the await
  told      \* the last answer given

kmVars == <<issues, at, work, told>>

Numbers == DOMAIN issues
FpsOf(n) == {issues[n].fps[i] : i \in DOMAIN issues[n].fps}
Nothing == [kind |-> "nothing"]

KmInit ==
  /\ issues = <<>>
  /\ at = [c \in Tools |-> "idle"]
  /\ work = [c \in Tools |-> Nothing]
  /\ told = Nothing

Store(i) == issues' = Append(issues, i)
Answer(c, a) ==
  /\ told' = a
  /\ at' = [at EXCEPT ![c] = "idle"]
  /\ work' = [work EXCEPT ![c] = Nothing]
Await(c, s, w) ==
  /\ at' = [at EXCEPT ![c] = s]
  /\ work' = [work EXCEPT ![c] = w]
  /\ told' = Nothing

\* add_knowledge: fingerprints are given, or one is computed from the issue.
\* A write that fails still answers success, with no id.
AddKnowledge(c) ==
  /\ at[c] = "idle" /\ Len(issues) < MaxIssues
  /\ \E fps \in {q \in [1..1 -> Signatures] \cup [1..2 -> Signatures] :
                  \A i, j \in DOMAIN q : i # j => q[i] # q[j]} :
       \/ /\ Store([fps |-> fps, parts |-> {}])
          /\ Answer(c, [kind |-> "success", id |-> Len(issues) + 1])
       \/ /\ UNCHANGED issues
          /\ Answer(c, [kind |-> "success", id |-> 0])

\* The fingerprints of a merge: each one once, in the order of the sources.
Added(fps, f) == IF \E i \in DOMAIN fps : fps[i] = f THEN fps ELSE Append(fps, f)
Joined(fps, own) ==
  LET with[i \in 0..Len(own)] == IF i = 0 THEN fps ELSE Added(with[i - 1], own[i])
  IN  with[Len(own)]
Gathered(S) ==
  LET of[n \in 0..Len(issues)] ==
        IF n = 0 THEN <<>>
        ELSE IF n \in S THEN Joined(of[n - 1], issues[n].fps) ELSE of[n - 1]
  IN  of[Len(issues)]

\* merge_knowledge, the search: sources are those of the named issues that
\* are among the first of a search for nothing in particular.
FindSources(c) ==
  /\ at[c] = "idle"
  /\ \E named \in {N \in SUBSET Numbers : Cardinality(N) >= 2} :
     \E seen \in {S \in SUBSET Numbers : Cardinality(S) <= MergeTop} :
       LET S == named \cap seen IN
       IF Cardinality(S) < 2 THEN Answer(c, [kind |-> "error"])
       ELSE Await(c, "merge",
                  [kind |-> "merge", sources |-> S, named |-> named,
                   fps |-> Gathered(S)])
  /\ UNCHANGED issues

\* merge_knowledge, the write.  The sources stay.
StoreMerged(c) ==
  /\ at[c] = "merge" /\ Len(issues) < MaxIssues
  /\ \E id \in {0, Len(issues) + 1} :
       /\ IF id = 0 THEN UNCHANGED issues
          ELSE Store([fps |-> work[c].fps, parts |-> work[c].sources])
       /\ Answer(c, [kind |-> "merged", id |-> id, named |-> work[c].named,
                     sources |-> work[c].sources])

\* A mutant of Carries: an issue is known by its first fingerprint.
CarriesFirst(n, sig) == issues[n].fps[1] = sig

\* feature_sig in issue.fingerprints
Carries(n, sig) == \E i \in DOMAIN issues[n].fps : issues[n].fps[i] = sig

\* The issues a first level search for a signature may return.
Matching(sig) == {n \in Numbers : FpsOf(n) \cap Like[sig] # {}}

\* match_crash, the first level: the first issue returned that carries the
\* signature is the answer, whatever its score.  crowded and missing are the
\* model's: why a miss was a miss.
FirstLevelMatch(c) ==
  /\ at[c] = "idle"
  /\ \E sig \in Signatures :
     \E got \in {S \in SUBSET Matching(sig) : Cardinality(S) <= FirstTop} :
       /\ Cardinality(got) = FirstTop \/ got = Matching(sig) \/ got = {}
       /\ \/ \E n \in got, g \in Grades :
               /\ Carries(n, sig)
               /\ Answer(c, [kind |-> "L1", id |-> n, sig |-> sig,
                             online |-> g < HighGrade])
          \/ /\ \A n \in got : ~Carries(n, sig)
             /\ Await(c, "second",
                      [kind |-> "crash", sig |-> sig,
                       known |-> {n \in Numbers : sig \in FpsOf(n)},
                       whole |-> got = Matching(sig)])
  /\ UNCHANGED issues

\* match_crash, the second level: the best of the issues returned, whichever
\* that is, when it reaches the threshold; else the crash is a new issue.
SecondLevelMatch(c) ==
  /\ at[c] = "second"
  /\ LET w == work[c] IN
     \/ \E n \in Numbers, g \in Grades :
          /\ g >= KnownGrade
          /\ Answer(c, [kind |-> "L2", id |-> n, sig |-> w.sig,
                        online |-> g < HighGrade])
     \/ Answer(c, [kind |-> "new", sig |-> w.sig, known |-> w.known,
                   whole |-> w.whole, online |-> TRUE])
  /\ UNCHANGED issues

\* query_knowledge: each issue of a search has its score and its level; one
\* of them here.
LevelOf(n, sig, g) ==
  IF Carries(n, sig) THEN "L1" ELSE IF g >= KnownGrade THEN "L2" ELSE "L3"

QueryKnowledge(c) ==
  /\ at[c] = "idle"
  /\ \E sig \in Signatures, n \in Numbers, g \in Grades :
       Answer(c, [kind |-> "listed", id |-> n, sig |-> sig,
                  level |-> LevelOf(n, sig, g), online |-> g < HighGrade])
  /\ UNCHANGED issues

KmNext ==
  \E c \in Tools :
    \/ AddKnowledge(c) \/ FindSources(c) \/ StoreMerged(c)
    \/ FirstLevelMatch(c) \/ SecondLevelMatch(c) \/ QueryKnowledge(c)

-----------------------------------------------------------------------------
\* A crash whose signature any fingerprint of a stored issue equals is never
\* called a new issue, unless the first level search failed or was too
\* crowded to show that issue.
KnownIsNotNew ==
  told.kind = "new" /\ told.whole => told.known = {}

\* A merged issue carries every fingerprint its sources had, those recorded
\* later aside, and none of another issue.
MergeGathers ==
  \A n \in Numbers : issues[n].parts # {} =>
    FpsOf(n) = UNION {FpsOf(m) : m \in issues[n].parts}

\* Both: the fingerprints of the base recognise the crashes they were made of.
KnownIsRecognised == KnownIsNotNew /\ MergeGathers

\* A call that answers success has stored its issue.
SuccessIsStored ==
  told.kind \in {"success", "merged"} => told.id # 0

\* A crash found by its fingerprint needs no search online.
FingerprintIsEnough ==
  told.kind = "L1" => ~told.online
=============================================================================
