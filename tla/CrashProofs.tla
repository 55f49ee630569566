------------------------------ MODULE CrashProofs ------------------------------
(***************************************************************************)
(* Proofs about the tools of shennong-crash (MCCrash), for any values of   *)
(* the constants: what the scripts of the crash report let pass            *)
(* (CrashReport, ReportBlock), that the base of known issues recognises    *)
(* what it holds (KnowledgeMatch), that the features taken from a kernel   *)
(* log and a chain built from them are of one crash and in order           *)
(* (CrashFeatures), and that the cards of a community search are what its  *)
(* evidence supports (CommunitySearch).                                    *)
(***************************************************************************)
EXTENDS MCCrash, RecursionLemmas

-----------------------------------------------------------------------------
(* The report: the validated copy.                                          *)

\* A report that was written has an id of its own.
CrInv ==
    /\ reportId \in Ids
    /\ report # NoFile => report.id \in {"dated", "other", "unknown"}
    /\ CopyIsSound

LEMMA CrInvStep ==
    ASSUME CrInv, [CrNext]_crVars
    PROVE  CrInv'
<1> USE DEF CrInv, CopyIsSound
<1>1. ASSUME NEW n \in SectionNames, NEW grade \in SectionGrades, WriteSection(n, grade) PROVE CrInv'
  BY <1>1 DEF WriteSection, NoFile
<1>2. ASSUME NEW id \in Ids, WriteId(id) PROVE CrInv'
  BY <1>2 DEF WriteId, NoFile
<1>3. CASE Combine
  <2>1. report'.id \in {"dated", "other", "unknown"}
    BY <1>3 DEF Combine, Built, Ids
  <2> QED
    BY <1>3, <2>1 DEF Combine, NoFile
<1>4. CASE Validate
  <2>1. /\ \A n \in SectionNames : report.parts[n] = "sound"
        /\ report.id \notin {"unknown", "other"}
    BY <1>4 DEF Validate, Errors, SemanticErrors
  <2> QED
    BY <1>4, <2>1 DEF Validate, NoFile
<1>5. CASE Publish(report) \/ Publish(validated)
  BY <1>5 DEF Publish, NoFile
<1>6. CASE UNCHANGED crVars
  BY <1>6 DEF crVars, NoFile
<1> QED
  BY <1>1, <1>2, <1>3, <1>4, <1>5, <1>6 DEF CrNext

-----------------------------------------------------------------------------
(* A quoted block: validator and page.                                      *)

Block0 == [kind : BlockKinds, first : FirstLines, form : [Rel -> LineForms],
           hl : SUBSET Nat, ann : SUBSET Nat]

RbInv == block.kind # "none" => block \in Block0

\* Where a key cannot be read both ways, the line that the validator takes it
\* for is the line at which the page looks it up.
LEMMA KeyOfLine ==
    ASSUME NEW b \in Block0, Unambiguous(b), NEW r \in Rel, NEW k \in KeysOf(b, r)
    PROVE  RelOf(b, k) = r
<1> DEFINE f == b.first
           n == BlockLines
<1>0. b.first \in FirstLines
  BY DEF Block0
<1>1. n \in Nat /\ f \in Nat /\ r \in Nat /\ r >= 1 /\ r <= n
  <2>1. BlockLines \in Nat /\ FirstLines \subseteq Nat
    BY ReportBlockAssumption
  <2>2. r \in 1 .. BlockLines
    BY DEF Rel
  <2>3. r \in Nat /\ r >= 1 /\ r <= BlockLines
    BY ONLY <2>1, <2>2
  <2>4. b.first \in Nat
    BY <1>0, <2>1
  <2> QED
    BY <2>1, <2>3, <2>4
<1>2. k = r \/ (f # 0 /\ k = f + r - 1)
  BY DEF KeysOf
<1>3. f = 0 \/ f = 1 \/ f > n
  BY DEF Unambiguous
<1>4. RelOf(b, k) = IF k \in 1 .. n THEN k
                    ELSE IF f # 0 /\ k \in f .. f + n - 1 THEN k - f + 1 ELSE 0
  BY DEF RelOf, Rel, Abs
<1> HIDE DEF f, n
<1>5. CASE k = r
  BY <1>1, <1>4, <1>5
<1>6. CASE f # 0 /\ k = f + r - 1
  <2>1. k \in f .. f + n - 1 /\ (f > n => k \notin 1 .. n) /\ k - f + 1 = r
    BY <1>1, <1>6
  <2> QED
    BY <1>1, <1>3, <1>4, <1>6, <2>1
<1> QED
  BY <1>2, <1>5, <1>6

\* A key within the block names a line of it, under one of the two numbers.
LEMMA LineOfKey ==
    ASSUME NEW b \in Block0, NEW k \in Nat, RelOf(b, k) # 0
    PROVE  /\ RelOf(b, k) \in Rel
           /\ b.kind # "list" \/ k \in Rel => k \in KeysOf(b, RelOf(b, k))
           /\ k = RelOf(b, k) \/ (b.first # 0 /\ k = b.first + RelOf(b, k) - 1)
<1>1. BlockLines \in Nat /\ b.first \in Nat
  BY ReportBlockAssumption DEF Block0
<1> QED
  BY <1>1 DEF RelOf, Rel, Abs, KeysOf

LEMMA BlockAgrees ==
    ASSUME NEW b \in Block0, Unambiguous(b), Warnings(b) = {}
    PROVE  Agrees(b)
<1>1. /\ b.hl \subseteq Nat /\ b.ann \subseteq Nat
      /\ \A k \in b.hl \cup b.ann : RelOf(b, k) # 0
  <2>1. \A k \in b.hl \cup b.ann : RelOf(b, k) = 0 => <<"out of range", k>> \in Warnings(b)
    BY DEF Warnings
  <2> QED
    BY <2>1 DEF Block0
<1>2. \A k \in b.hl : b.form[RelOf(b, k)] # "blank"
  <2>1. \A k \in b.hl : b.form[RelOf(b, k)] = "blank" => <<"blank", k>> \in Warnings(b)
    BY <1>1 DEF Warnings
  <2> QED
    BY <2>1
<1>3. b.kind = "quoted" => \A k \in b.hl : Noted(b, RelOf(b, k))
  <2>1. \A k \in b.hl : b.kind = "quoted" /\ ~Noted(b, RelOf(b, k)) => <<"no comment", k>> \in Warnings(b)
    BY <1>1 DEF Warnings
  <2> QED
    BY <2>1
<1>4. b.kind # "list" => {RelOf(b, k) : k \in b.hl} \subseteq Lit(b)
  BY <1>1, <1>2, LineOfKey DEF Lit
<1>5. b.kind = "quoted" => Lit(b) \subseteq ShownNoted(b)
  <2> SUFFICES ASSUME b.kind = "quoted", NEW r \in Lit(b), b.form[r] # "commented"
               PROVE  KeysOf(b, r) \cap b.ann # {}
    BY DEF Lit, ShownNoted
  <2>1. PICK k \in b.hl : r \in Rel /\ k \in KeysOf(b, r)
    BY DEF Lit
  <2>2. Noted(b, r)
    BY <1>3, <2>1, KeyOfLine
  <2> QED
    BY <2>2 DEF Noted, KeysOf
<1>6. b.kind = "quoted" => {RelOf(b, k) : k \in b.ann} \subseteq ShownNoted(b)
  BY <1>1, LineOfKey DEF ShownNoted
<1>7. Lit(b) \subseteq {RelOf(b, k) : k \in b.hl} \cup {r \in Rel : b.form[r] = "commented"}
  BY KeyOfLine DEF Lit
<1> QED
  BY <1>4, <1>5, <1>6, <1>7 DEF Agrees

LEMMA RbInvStep ==
    ASSUME RbInv, [RbNext]_rbVars
    PROVE  RbInv'
<1>1. CASE ReadBlock
  <2>1. PICK kind \in BlockKinds, first \in FirstLines, form \in [Rel -> LineForms],
             hl \in SUBSET Nat, ann \in SUBSET Nat :
          block' = [kind |-> kind, first |-> first, form |-> form, hl |-> hl, ann |-> ann]
    <3>1. \A first \in FirstLines : SomeKeys(first) \subseteq SUBSET Nat
      BY ReportBlockAssumption DEF SomeKeys, KeyRange
    <3> QED
      BY <1>1, <3>1 DEF ReadBlock
  <2> QED
    BY <2>1 DEF RbInv, Block0
<1>2. CASE UNCHANGED rbVars
  BY <1>2 DEF rbVars, RbInv
<1> QED
  BY <1>1, <1>2 DEF RbNext

\* Whatever order sections are written, corrected, combined and checked in,
\* the copy that validate_report.py keeps has no error; and a block of any
\* length without warnings is shown as its author meant it.
THEOREM ReportStaysSound == Spec => []ReportIsSound
<1> DEFINE Both == CrInv /\ RbInv
<1>1. Init => Both
  <2>1. CrInit => CrInv
    BY DEF CrInit, CrInv, CopyIsSound, Ids
  <2>2. RbInit => RbInv
    BY DEF RbInit, RbInv
  <2> QED
    BY <2>1, <2>2 DEF Init
<1>2. Both /\ [Next]_vars => Both'
  <2>1. [Next]_vars => [CrNext]_crVars /\ [RbNext]_rbVars
    BY DEF Next, OfCommunity, OfIssues, OfFeatures, OfReport, OfBlock, vars, crVars, rbVars
  <2> QED
    BY <2>1, CrInvStep, RbInvStep
<1>3. Both => ReportIsSound
  BY BlockAgrees DEF CrInv, RbInv, ReportIsSound, WarnedOrShown
<1> QED
  BY <1>1, <1>2, <1>3, PTL DEF Spec

-----------------------------------------------------------------------------
(* The base of known issues: what a merge gathers.                          *)

Fingerprints == Seq(Signatures)
Issue == [fps : Fingerprints, parts : SUBSET Nat]

LEMMA AddedHolds ==
    ASSUME NEW fps \in Fingerprints, NEW f \in Signatures
    PROVE  Added(fps, f) \in Fingerprints /\ Range(Added(fps, f)) = Range(fps) \cup {f}
<1>1. CASE \E i \in DOMAIN fps : fps[i] = f
  BY <1>1 DEF Added, Range
<1>2. CASE ~\E i \in DOMAIN fps : fps[i] = f
  <2> DEFINE q == Append(fps, f)
  <2>1. /\ q \in Fingerprints /\ DOMAIN fps = 1 .. Len(fps) /\ Len(fps) \in Nat
        /\ DOMAIN q = 1 .. Len(fps) + 1 /\ q[Len(fps) + 1] = f
        /\ \A i \in 1 .. Len(fps) : q[i] = fps[i]
    BY DEF Fingerprints
  <2>2. Added(fps, f) = q
    BY <1>2 DEF Added
  <2> HIDE DEF q
  <2> QED
    BY <2>1, <2>2 DEF Range
<1> QED
  BY <1>1, <1>2

LEMMA JoinedHolds ==
    ASSUME NEW fps \in Fingerprints, NEW own \in Fingerprints
    PROVE  Joined(fps, own) \in Fingerprints /\ Range(Joined(fps, own)) = Range(fps) \cup Range(own)
<1> DEFINE N == Len(own)
           Fcn(f) == [i \in 0 .. N |-> IF i = 0 THEN fps ELSE Added(f[i - 1], own[i])]
           with == CHOOSE f : f = Fcn(f)
           step == [p \in (1 .. N) \X Fingerprints |-> Added(p[2], own[p[1]])]
           Some(n) == {own[i] : i \in 1 .. n}
           Holds == {n \in 0 .. N : with[n] \in Fingerprints /\ Range(with[n]) = Range(fps) \cup Some(n)}
<1>0. N \in Nat
  BY DEF Fingerprints
<1>1. \A i \in 1 .. N : own[i] \in Signatures
  BY DEF Fingerprints
<1>2. step \in [(1 .. N) \X Fingerprints -> Fingerprints]
  BY <1>1, AddedHolds
<1>3. PICK g : Walks(g, Fingerprints, fps, N, step)
  <2> HIDE DEF step, N
  <2> QED
    BY <1>0, <1>2, Recursion
<1>4. g = Fcn(g)
  <2>1. \A i \in 1 .. N : g[i] = Added(g[i - 1], own[i])
    <3>1. \A i \in 1 .. N, x \in Fingerprints : step[<<i, x>>] = Added(x, own[i])
      OBVIOUS
    <3> HIDE DEF step, N
    <3>2. ASSUME NEW i \in 1 .. N PROVE i - 1 \in 0 .. N /\ g[i - 1] \in Fingerprints
      BY <1>0, <1>3 DEF Walks
    <3> QED
      BY <1>3, <3>1, <3>2 DEF Walks
  <2>2. DOMAIN g = 0 .. N /\ g = [i \in 0 .. N |-> g[i]] /\ g[0] = fps
    BY <1>3 DEF Walks
  <2> QED
    BY <1>0, <2>1, <2>2
<1>5. with = Fcn(with)
  <2> HIDE DEF Fcn
  <2> QED
    BY <1>4
<1>6. with[0] = fps /\ \A i \in 1 .. N : with[i] = Added(with[i - 1], own[i])
  <2> HIDE DEF with
  <2> QED
    BY <1>0, <1>5
<1> HIDE DEF with
<1>7. 0 \in Holds
  BY <1>0, <1>1, <1>6
<1>8. ASSUME NEW n \in 1 .. N, n - 1 \in Holds PROVE n \in Holds
  <2>1. with[n] \in Fingerprints /\ Range(with[n]) = Range(with[n - 1]) \cup {own[n]}
    BY <1>0, <1>1, <1>6, <1>8, AddedHolds
  <2>2. Some(n) = Some(n - 1) \cup {own[n]}
    <3>1. 1 .. n = 1 .. (n - 1) \cup {n}
      BY <1>0, <1>1
    <3> QED
      BY <3>1
  <2> QED
    BY <1>8, <2>1, <2>2
<1>9. N \in Holds
  <2> HIDE DEF Holds
  <2>1. \A n \in 1 .. N : n - 1 \in Holds => n \in Holds
    BY <1>8
  <2> QED
    BY <1>0, <1>7, <2>1, InductionUpTo
<1>10. Some(N) = Range(own)
  BY <1>0, <1>1 DEF Range, Fingerprints
<1>11. Joined(fps, own) = with[N]
  BY DEF Joined, with
<1> QED
  BY <1>9, <1>10, <1>11

LEMMA GatheredHolds ==
    ASSUME issues \in Seq(Issue), NEW S \in SUBSET Numbers
    PROVE  /\ Gathered(S) \in Fingerprints
           /\ Range(Gathered(S)) = UNION {FpsOf(m) : m \in S}
<1> DEFINE N == Len(issues)
           Next1(q, n) == IF n \in S THEN Joined(q, issues[n].fps) ELSE q
           Fcn(f) == [n \in 0 .. N |-> IF n = 0 THEN <<>>
                                       ELSE IF n \in S THEN Joined(f[n - 1], issues[n].fps) ELSE f[n - 1]]
           of == CHOOSE f : f = Fcn(f)
           step == [p \in (1 .. N) \X Fingerprints |-> Next1(p[2], p[1])]
           Upon(n) == UNION {FpsOf(m) : m \in S \cap (1 .. n)}
           Holds == {n \in 0 .. N : of[n] \in Fingerprints /\ Range(of[n]) = Upon(n)}
<1>0. N \in Nat /\ <<>> \in Fingerprints /\ Range(<<>>) = {}
  BY DEF Fingerprints, Range
<1>1. \A n \in 1 .. N : issues[n].fps \in Fingerprints /\ FpsOf(n) = Range(issues[n].fps)
  <2>1. \A n \in 1 .. N : issues[n] \in Issue
    OBVIOUS
  <2>2. \A n \in 1 .. N : issues[n].fps \in Fingerprints
    BY <2>1 DEF Issue
  <2>3. \A n : FpsOf(n) = Range(issues[n].fps)
    BY DEF FpsOf, Range
  <2> QED
    BY <2>2, <2>3
<1>1a. \A n \in 1 .. N, q \in Fingerprints : Next1(q, n) \in Fingerprints
  BY <1>1, JoinedHolds
<1>2. step \in [(1 .. N) \X Fingerprints -> Fingerprints]
  <2> HIDE DEF Next1
  <2> QED
    BY <1>1a
<1>3. PICK g : Walks(g, Fingerprints, <<>>, N, step)
  <2> HIDE DEF step, N
  <2> QED
    BY <1>0, <1>2, Recursion
<1>4. g = Fcn(g)
  <2>1. \A i \in 1 .. N : g[i] = Next1(g[i - 1], i)
    <3>1. \A i \in 1 .. N, x \in Fingerprints : step[<<i, x>>] = Next1(x, i)
      OBVIOUS
    <3> HIDE DEF step, N, Next1
    <3>2. ASSUME NEW i \in 1 .. N PROVE i - 1 \in 0 .. N /\ g[i - 1] \in Fingerprints
      BY <1>0, <1>3 DEF Walks
    <3> QED
      BY <1>3, <3>1, <3>2 DEF Walks
  <2>2. DOMAIN g = 0 .. N /\ g = [i \in 0 .. N |-> g[i]] /\ g[0] = <<>>
    BY <1>3 DEF Walks
  <2>3. \A i \in 0 .. N : g[i] = IF i = 0 THEN <<>> ELSE Next1(g[i - 1], i)
    <3> HIDE DEF Next1, N
    <3> QED
      BY <1>0, <2>1, <2>2
  <2> QED
    BY <2>2, <2>3
<1>5. of = Fcn(of)
  <2> HIDE DEF Fcn
  <2> QED
    BY <1>4
<1>6. of[0] = <<>> /\ \A i \in 1 .. N : of[i] = Next1(of[i - 1], i)
  <2> HIDE DEF of
  <2> QED
    BY <1>0, <1>5
<1> HIDE DEF of
<1>7. 0 \in Holds
  BY <1>0, <1>6
<1>8. ASSUME NEW n \in 1 .. N, n - 1 \in Holds PROVE n \in Holds
  <2>1. n \in 0 .. N /\ of[n] = Next1(of[n - 1], n) /\ of[n - 1] \in Fingerprints
        /\ Range(of[n - 1]) = Upon(n - 1)
    BY <1>0, <1>6, <1>8
  <2>2. 1 .. n = 1 .. (n - 1) \cup {n}
    BY <1>0
  <2>3. CASE n \in S
    <3>1. /\ of[n] \in Fingerprints
          /\ Range(of[n]) = Range(of[n - 1]) \cup FpsOf(n)
      BY <1>1, <2>1, <2>3, JoinedHolds
    <3>2. S \cap (1 .. n) = (S \cap (1 .. (n - 1))) \cup {n}
      BY <2>2, <2>3
    <3>3. Upon(n) = Upon(n - 1) \cup FpsOf(n)
      BY <3>2
    <3> QED
      BY <2>1, <3>1, <3>3
  <2>4. CASE n \notin S
    <3>1. S \cap (1 .. n) = S \cap (1 .. (n - 1))
      BY <2>2, <2>4
    <3> QED
      BY <2>1, <2>4, <3>1
  <2> QED
    BY <2>3, <2>4
<1>9. N \in Holds
  <2> HIDE DEF Holds
  <2>1. \A n \in 1 .. N : n - 1 \in Holds => n \in Holds
    BY <1>8
  <2> QED
    BY <1>0, <1>7, <2>1, InductionUpTo
<1>10. S \cap (1 .. N) = S
  BY DEF Numbers
<1>11. Gathered(S) = of[N]
  BY DEF Gathered, of
<1> QED
  BY <1>9, <1>10, <1>11

\* What a call carries across its await still fits the base: issues are added
\* and never change.
KmInv ==
    /\ issues \in Seq(Issue)
    /\ \A n \in Numbers : issues[n].parts \subseteq Numbers
    /\ at \in [Tools -> {"idle", "merge", "second"}] /\ DOMAIN work = Tools
    /\ \A c \in Tools : at[c] = "merge" =>
          /\ work[c].sources \subseteq Numbers /\ work[c].fps \in Fingerprints
          /\ Range(work[c].fps) = UNION {FpsOf(m) : m \in work[c].sources}
    /\ \A c \in Tools : at[c] = "second" /\ work[c].whole => work[c].known = {}
    /\ KnownIsRecognised

\* An issue added changes no other.
LEMMA StoreKeeps ==
    ASSUME issues \in Seq(Issue), NEW new \in Issue, Store(new), NEW k, k = Len(issues) + 1
    PROVE  /\ issues' \in Seq(Issue) /\ Numbers' = Numbers \cup {k}
           /\ k \notin Numbers
           /\ \A n \in Numbers : issues'[n] = issues[n] /\ FpsOf(n)' = FpsOf(n)
           /\ issues'[k] = new
           /\ FpsOf(k)' = Range(new.fps)
<1>1. /\ issues' \in Seq(Issue) /\ Len(issues) \in Nat /\ DOMAIN issues = 1 .. Len(issues)
      /\ DOMAIN issues' = 1 .. Len(issues) + 1 /\ issues'[k] = new
      /\ \A n \in 1 .. Len(issues) : issues'[n] = issues[n]
  BY DEF Store
<1>2. \A n \in Numbers : FpsOf(n)' = FpsOf(n)
  BY <1>1 DEF FpsOf, Numbers
<1>3. FpsOf(k)' = Range(new.fps)
  BY <1>1 DEF FpsOf, Range
<1> QED
  BY <1>1, <1>2, <1>3 DEF Numbers

\* A step that adds an issue, with a call that is over then.
LEMMA StoreStep ==
    ASSUME KmInv, NEW c \in Tools, NEW new \in Issue, Store(new),
           new.parts \subseteq Numbers,
           new.parts # {} => Range(new.fps) = UNION {FpsOf(m) : m \in new.parts},
           NEW a, Answer(c, a), a.kind # "new"
    PROVE  KmInv'
<1>0. issues \in Seq(Issue)
  BY DEF KmInv
<1>k. PICK k : k = Len(issues) + 1
  OBVIOUS
<1>1. /\ issues' \in Seq(Issue) /\ Numbers' = Numbers \cup {k}
      /\ k \notin Numbers
      /\ \A n \in Numbers : issues'[n] = issues[n] /\ FpsOf(n)' = FpsOf(n)
      /\ issues'[k] = new
      /\ FpsOf(k)' = Range(new.fps)
  BY <1>0, <1>k, StoreKeeps
<1>2. \A S \in SUBSET Numbers : UNION {FpsOf(m)' : m \in S} = UNION {FpsOf(m) : m \in S}
  BY <1>1
<1>3. \A n \in Numbers' : issues'[n].parts \subseteq Numbers
  BY <1>1 DEF KmInv
<1>4. MergeGathers'
  <2> SUFFICES ASSUME NEW n \in Numbers', issues'[n].parts # {}
               PROVE  FpsOf(n)' = UNION {FpsOf(m)' : m \in issues'[n].parts}
    BY DEF MergeGathers
  <2>1. UNION {FpsOf(m)' : m \in issues'[n].parts} = UNION {FpsOf(m) : m \in issues'[n].parts}
    BY <1>2, <1>3
  <2>2. CASE n = k
    BY <1>1, <2>1, <2>2
  <2>3. CASE n \in Numbers
    BY <1>1, <2>1, <2>3 DEF KmInv, KnownIsRecognised, MergeGathers
  <2> QED
    BY <1>1, <2>2, <2>3
<1>5. /\ at' \in [Tools -> {"idle", "merge", "second"}] /\ DOMAIN work' = Tools
      /\ at'[c] = "idle" /\ \A d \in Tools \ {c} : at'[d] = at[d] /\ work'[d] = work[d]
      /\ told' = a
  BY DEF Answer, KmInv
<1>6. ASSUME NEW d \in Tools, at'[d] = "merge"
      PROVE  /\ work'[d].sources \subseteq Numbers' /\ work'[d].fps \in Fingerprints
             /\ Range(work'[d].fps) = UNION {FpsOf(m)' : m \in work'[d].sources}
  <2>1. d # c /\ at[d] = "merge" /\ work'[d] = work[d]
    BY <1>5, <1>6
  <2>2. /\ work[d].sources \subseteq Numbers /\ work[d].fps \in Fingerprints
        /\ Range(work[d].fps) = UNION {FpsOf(m) : m \in work[d].sources}
    BY <2>1 DEF KmInv
  <2>3. UNION {FpsOf(m)' : m \in work[d].sources} = UNION {FpsOf(m) : m \in work[d].sources}
    BY <1>2, <2>2
  <2> QED
    BY <1>1, <2>1, <2>2, <2>3
<1>7. KnownIsNotNew'
  BY <1>5 DEF KnownIsNotNew
<1>8. \A d \in Tools : at'[d] = "second" /\ work'[d].whole => work'[d].known = {}
  BY <1>5 DEF KmInv
<1>9. \A n \in Numbers' : issues'[n].parts \subseteq Numbers'
  BY <1>1, <1>3
<1> QED
  BY <1>1, <1>4, <1>5, <1>6, <1>7, <1>8, <1>9 DEF KmInv, KnownIsRecognised

\* A step that leaves the base alone.
LEMMA AskStep ==
    ASSUME KmInv, UNCHANGED issues,
           at' \in [Tools -> {"idle", "merge", "second"}], DOMAIN work' = Tools,
           NEW c \in Tools,
           \A d \in Tools \ {c} : at'[d] = at[d] /\ work'[d] = work[d],
           at'[c] = "merge" =>
             /\ work'[c].sources \subseteq Numbers /\ work'[c].fps \in Fingerprints
             /\ Range(work'[c].fps) = UNION {FpsOf(m) : m \in work'[c].sources},
           at'[c] = "second" /\ work'[c].whole => work'[c].known = {},
           KnownIsNotNew'
    PROVE  KmInv'
<1>1. Numbers' = Numbers /\ \A m : FpsOf(m)' = FpsOf(m)
  BY DEF Numbers, FpsOf
<1>2. MergeGathers'
  BY <1>1 DEF KmInv, KnownIsRecognised, MergeGathers
<1>3. ASSUME NEW d \in Tools, at'[d] = "merge"
      PROVE  /\ work'[d].sources \subseteq Numbers /\ work'[d].fps \in Fingerprints
             /\ Range(work'[d].fps) = UNION {FpsOf(m) : m \in work'[d].sources}
  BY <1>3 DEF KmInv
<1>4. \A d \in Tools : at'[d] = "second" /\ work'[d].whole => work'[d].known = {}
  BY DEF KmInv
<1>5. issues' \in Seq(Issue) /\ \A n \in Numbers : issues'[n].parts \subseteq Numbers
  BY DEF KmInv
<1> QED
  BY <1>1, <1>2, <1>3, <1>4, <1>5 DEF KmInv, KnownIsRecognised

LEMMA KmInvStep ==
    ASSUME KmInv, [KmNext]_kmVars
    PROVE  KmInv'
<1>a. \A c \in Tools : \A a : Answer(c, a) =>
         /\ at' \in [Tools -> {"idle", "merge", "second"}] /\ DOMAIN work' = Tools
         /\ at'[c] = "idle" /\ \A d \in Tools \ {c} : at'[d] = at[d] /\ work'[d] = work[d]
         /\ told' = a
  BY DEF Answer, KmInv
<1>b. \A c \in Tools, s \in {"merge", "second"} : \A w : Await(c, s, w) =>
         /\ at' \in [Tools -> {"idle", "merge", "second"}] /\ DOMAIN work' = Tools
         /\ at'[c] = s /\ work'[c] = w /\ \A d \in Tools \ {c} : at'[d] = at[d] /\ work'[d] = work[d]
         /\ told' = Nothing
  BY DEF Await, KmInv
<1>c. ASSUME NEW c \in Tools, NEW a, Answer(c, a), UNCHANGED issues,
             a.kind = "new" /\ a.whole => a.known = {}
      PROVE  KmInv'
  <2>1. KnownIsNotNew'
    BY <1>a, <1>c DEF KnownIsNotNew
  <2> QED
    BY <1>a, <1>c, <2>1, AskStep
<1>1. ASSUME NEW c \in Tools, AddKnowledge(c) PROVE KmInv'
  <2>1. PICK fps \in [1..1 -> Signatures] \cup [1..2 -> Signatures] :
           \/ /\ Store([fps |-> fps, parts |-> {}])
              /\ Answer(c, [kind |-> "success", id |-> Len(issues) + 1])
           \/ /\ UNCHANGED issues
              /\ Answer(c, [kind |-> "success", id |-> 0])
    BY <1>1 DEF AddKnowledge
  <2>2. [fps |-> fps, parts |-> {}] \in Issue
    <3>1. fps \in Seq(Signatures)
      <4>1. ASSUME NEW n \in Nat, fps \in [1..n -> Signatures] PROVE fps \in Seq(Signatures)
        BY <4>1
      <4>2. fps \in [1..1 -> Signatures] \/ fps \in [1..2 -> Signatures]
        OBVIOUS
      <4> QED
        BY <4>1, <4>2
    <3> QED
      BY <3>1 DEF Issue, Fingerprints
  <2>3. CASE Store([fps |-> fps, parts |-> {}]) /\ Answer(c, [kind |-> "success", id |-> Len(issues) + 1])
    BY <2>2, <2>3, StoreStep
  <2>4. CASE UNCHANGED issues /\ Answer(c, [kind |-> "success", id |-> 0])
    BY <1>c, <2>4
  <2> QED
    BY <2>1, <2>3, <2>4
<1>2. ASSUME NEW c \in Tools, FindSources(c) PROVE KmInv'
  <2>1. UNCHANGED issues /\ \E S \in SUBSET Numbers :
           \/ Answer(c, [kind |-> "error"])
           \/ \E named : Await(c, "merge", [kind |-> "merge", sources |-> S, named |-> named,
                                            fps |-> Gathered(S)])
    BY <1>2 DEF FindSources
  <2>2. CASE Answer(c, [kind |-> "error"])
    BY <1>c, <2>1, <2>2
  <2>3. ASSUME NEW S \in SUBSET Numbers, NEW named,
               Await(c, "merge", [kind |-> "merge", sources |-> S, named |-> named,
                                  fps |-> Gathered(S)])
        PROVE  KmInv'
    <3>1. Gathered(S) \in Fingerprints /\ Range(Gathered(S)) = UNION {FpsOf(m) : m \in S}
      BY GatheredHolds DEF KmInv
    <3>2. KnownIsNotNew'
      BY <1>b, <2>3 DEF KnownIsNotNew, Nothing
    <3> QED
      BY <1>b, <2>1, <2>3, <3>1, <3>2, AskStep
  <2> QED
    BY <2>1, <2>2, <2>3
<1>3. ASSUME NEW c \in Tools, StoreMerged(c) PROVE KmInv'
  <2> DEFINE new == [fps |-> work[c].fps, parts |-> work[c].sources]
  <2>1. /\ at[c] = "merge"
        /\ UNCHANGED issues \/ Store(new)
        /\ \E id : Answer(c, [kind |-> "merged", id |-> id, named |-> work[c].named,
                              sources |-> work[c].sources])
    BY <1>3 DEF StoreMerged
  <2>2. PICK id : Answer(c, [kind |-> "merged", id |-> id, named |-> work[c].named,
                             sources |-> work[c].sources])
    BY <2>1
  <2>3. /\ work[c].sources \subseteq Numbers /\ work[c].fps \in Fingerprints
        /\ Range(work[c].fps) = UNION {FpsOf(m) : m \in work[c].sources}
    BY <2>1 DEF KmInv
  <2>4. new \in Issue
    BY <2>3 DEF Issue, Numbers, KmInv
  <2>5. CASE UNCHANGED issues
    BY <1>c, <2>2, <2>5
  <2>6. CASE Store(new)
    BY <2>2, <2>3, <2>4, <2>6, StoreStep
  <2> QED
    BY <2>1, <2>5, <2>6
<1>4. ASSUME NEW c \in Tools, FirstLevelMatch(c) PROVE KmInv'
  <2>0. PICK sig \in Signatures : \E got \in SUBSET Matching(sig) :
           \/ \E n \in got, g \in Grades :
                Answer(c, [kind |-> "L1", id |-> n, sig |-> sig, online |-> g < HighGrade])
           \/ /\ \A n \in got : ~Carries(n, sig)
              /\ Await(c, "second", [kind |-> "crash", sig |-> sig,
                                     known |-> {n \in Numbers : sig \in FpsOf(n)},
                                     whole |-> got = Matching(sig)])
    BY <1>4 DEF FirstLevelMatch
  <2>1. PICK got \in SUBSET Matching(sig) :
           \/ \E n \in got, g \in Grades :
                Answer(c, [kind |-> "L1", id |-> n, sig |-> sig, online |-> g < HighGrade])
           \/ /\ \A n \in got : ~Carries(n, sig)
              /\ Await(c, "second", [kind |-> "crash", sig |-> sig,
                                     known |-> {n \in Numbers : sig \in FpsOf(n)},
                                     whole |-> got = Matching(sig)])
    BY <2>0
  <2>2. UNCHANGED issues
    BY <1>4 DEF FirstLevelMatch
  <2>3. ASSUME NEW n \in got, NEW g \in Grades,
               Answer(c, [kind |-> "L1", id |-> n, sig |-> sig, online |-> g < HighGrade])
        PROVE  KmInv'
    BY <1>c, <2>2, <2>3
  <2> DEFINE w == [kind |-> "crash", sig |-> sig, known |-> {n \in Numbers : sig \in FpsOf(n)},
                   whole |-> got = Matching(sig)]
  <2>4. ASSUME \A n \in got : ~Carries(n, sig), Await(c, "second", w) PROVE KmInv'
    <3>1. ASSUME got = Matching(sig), NEW n \in Numbers, sig \in FpsOf(n) PROVE FALSE
      <4>1. n \in Matching(sig) /\ Carries(n, sig)
        BY <3>1, KnowledgeAssumption DEF Matching, Carries, FpsOf
      <4> QED
        BY <2>4, <3>1, <4>1
    <3>2. w.whole => w.known = {}
      BY <3>1
    <3>3. KnownIsNotNew'
      BY <1>b, <2>4 DEF KnownIsNotNew, Nothing
    <3> HIDE DEF w
    <3> QED
      BY <1>b, <2>2, <2>4, <3>2, <3>3, AskStep
  <2> QED
    BY <2>1, <2>3, <2>4
<1>5. ASSUME NEW c \in Tools, SecondLevelMatch(c) PROVE KmInv'
  <2> DEFINE a == [kind |-> "new", sig |-> work[c].sig, known |-> work[c].known,
                   whole |-> work[c].whole, online |-> TRUE]
  <2>1. /\ at[c] = "second" /\ UNCHANGED issues
        /\ \/ \E n \in Numbers, g \in Grades :
                Answer(c, [kind |-> "L2", id |-> n, sig |-> work[c].sig, online |-> g < HighGrade])
           \/ Answer(c, a)
    BY <1>5 DEF SecondLevelMatch
  <2>2. ASSUME NEW n \in Numbers, NEW g \in Grades,
               Answer(c, [kind |-> "L2", id |-> n, sig |-> work[c].sig, online |-> g < HighGrade])
        PROVE  KmInv'
    BY <1>c, <2>1, <2>2
  <2>3. CASE Answer(c, a)
    <3>1. a.whole => a.known = {}
      BY <2>1 DEF KmInv
    <3> HIDE DEF a
    <3> QED
      BY <1>c, <2>1, <2>3, <3>1
  <2> QED
    BY <2>1, <2>2, <2>3
<1>6. ASSUME NEW c \in Tools, QueryKnowledge(c) PROVE KmInv'
  <2>1. PICK sig \in Signatures, n \in Numbers, g \in Grades :
           Answer(c, [kind |-> "listed", id |-> n, sig |-> sig,
                      level |-> LevelOf(n, sig, g), online |-> g < HighGrade])
    BY <1>6 DEF QueryKnowledge
  <2>2. UNCHANGED issues
    BY <1>6 DEF QueryKnowledge
  <2> QED
    BY <1>c, <2>1, <2>2
<1>7. CASE UNCHANGED kmVars
  <2>1. Numbers' = Numbers /\ \A m : FpsOf(m)' = FpsOf(m)
    BY <1>7 DEF kmVars, Numbers, FpsOf
  <2> QED
    BY <1>7, <2>1 DEF kmVars, KmInv, KnownIsRecognised, KnownIsNotNew, MergeGathers
<1> QED
  BY <1>1, <1>2, <1>3, <1>4, <1>5, <1>6, <1>7 DEF KmNext

\* However recordings, merges and look-ups interleave across their awaits: a
\* crash with a recorded fingerprint is new only when the first level failed
\* or was crowded, and a merged issue has the fingerprints of its sources.
THEOREM KnownStaysRecognised == Spec => []KnownIsRecognised
<1>1. Init => KmInv
  <2> SUFFICES ASSUME KmInit PROVE KmInv
    BY DEF Init
  <2>1. issues = <<>> /\ issues \in Seq(Issue) /\ Numbers = {}
    BY DEF KmInit, Numbers
  <2> QED
    BY <2>1 DEF KmInit, KmInv, KnownIsRecognised, KnownIsNotNew, MergeGathers, Nothing
<1>2. KmInv /\ [Next]_vars => KmInv'
  <2>1. [Next]_vars => [KmNext]_kmVars
    BY DEF Next, OfCommunity, OfIssues, OfFeatures, OfReport, OfBlock, vars, kmVars
  <2> QED
    BY <2>1, KmInvStep
<1>3. KmInv => KnownIsRecognised
  BY DEF KmInv
<1> QED
  BY <1>1, <1>2, <1>3, PTL DEF Spec

-----------------------------------------------------------------------------
(* The search for community cases: what a query relies on at each await.    *)

Outcomes == Verdicts \cup {"", "unverified", "unread"}
Docs == {d \in [sha : Shas, title : {u.title : u \in Urls}, copy : Int] :
           [sha |-> d.sha, title |-> d.title] \in Urls}
CaseOf == [doc : Docs, level : {"L1", "L2", "L3", "ONLINE"}, score : Nat,
           verdict : Outcomes, blocked : BOOLEAN]
Tidings == Verdicts \cup {"unread"}

Stages == {"idle", "first", "upstream", "wider", "select", "rescore", "verify", "extra",
           "collapse", "persist", "create", "done"}

SearchTypes ==
  /\ base \subseteq Docs /\ IsFiniteSet(base)
  /\ evidence \in [Urls -> {"absent", "fetched", "failed"}]
  /\ stage \in [Queries -> Stages]
  /\ mode \in [Queries -> [scoring : {"keyword", "llm", "hybrid"}, verify : BOOLEAN]]
  /\ truth \in [Queries -> [Shas -> Tidings]]
  /\ cards \in [Queries -> SUBSET CaseOf] /\ \A q \in Queries : IsFiniteSet(cards[q])
  /\ DOMAIN hits = Queries
  /\ found \in [Queries -> {"nothing", "report", "extra"}]
  /\ todo \in [Queries -> Seq(CaseOf)]

Raw(S) == \A c \in S : c.verdict \notin Verdicts
NoneOnline(S) == \A c \in S : c.level # "ONLINE"
WeakIsLow(S) == \A c \in S : c.level = "L3" => c.score < L2Score
Confirmed(S) == \E c \in S : c.verdict = "confirmed"

\* Before the verification: nothing is judged, a case below the threshold
\* is the only one that is called weak, and what was found online was found
\* because the base had no answer.
Unjudged(q) ==
  /\ Raw(cards[q]) /\ todo[q] = <<>> /\ found[q] = "nothing"
  /\ stage[q] \in {"wider", "select"} => NoneOnline(cards[q])
  /\ stage[q] = "wider" /\ mode[q].scoring = "llm" => \A c \in cards[q] : c.score < L2Score
  /\ stage[q] = "select" /\ mode[q].scoring = "llm" => WeakIsLow(cards[q])
  /\ stage[q] = "rescore" => mode[q].scoring = "hybrid"
  /\ stage[q] = "verify" /\ mode[q].scoring # "keyword" => WeakIsLow(cards[q])
  /\ stage[q] \in {"rescore", "verify"} =>
       \A c \in cards[q] : c.level = "ONLINE" => ~hits[q]
  /\ stage[q] = "verify" /\ mode[q].scoring # "hybrid" =>
       \/ Cardinality(cards[q]) <= TopK
       \/ \A c \in cards[q] : c.score = Baseline

\* After it: what CardsAreSound says of a report.
Settled(q) ==
  /\ mode[q].verify => \A c \in cards[q] : c.level = "ONLINE" => c.verdict \in Positive
  /\ \A c \in cards[q] : c.level = "L3" => c.verdict # "confirmed"
  /\ mode[q].scoring # "keyword" => WeakIsLow(cards[q])
  /\ found[q] = "report" /\ mode[q].scoring # "hybrid" => Confirmed(cards[q])

\* Between the verification and the collapse: a confirmed card was read.
Backed(q) ==
  /\ todo[q] = <<>>
  /\ \A c \in cards[q] : c.verdict = "confirmed" =>
       evidence[Url(c)] = "fetched" /\ truth[q][c.doc.sha] = "confirmed"
  /\ \A c \in cards[q] : c.level = "ONLINE" /\ ~c.blocked => ~hits[q]

\* After the collapse: what waits to be written was read as well.
Pending(q) ==
  /\ \A c, d \in cards[q] : c.doc.sha = d.doc.sha => c = d
  /\ \A i \in DOMAIN todo[q] :
       /\ ~hits[q]
       /\ evidence[Url(todo[q][i])] = "fetched"
       /\ truth[q][todo[q][i].doc.sha] = "confirmed"

QueryInv(q) ==
  /\ stage[q] \in {"idle", "first", "upstream"} =>
       cards[q] = {} /\ todo[q] = <<>> /\ found[q] = "nothing"
  /\ stage[q] \in {"wider", "select", "rescore", "verify"} => Unjudged(q)
  /\ stage[q] \in {"extra", "collapse", "persist", "create"} => Settled(q)
  /\ stage[q] \in {"extra", "collapse"} => Backed(q)
  /\ stage[q] \in {"persist", "create"} => Pending(q)
  /\ stage[q] = "create" => todo[q] # <<>>
  /\ stage[q] = "done" => todo[q] = <<>>

SearchInv == SearchTypes /\ \A q \in Queries : QueryInv(q)

-----------------------------------------------------------------------------
LEMMA RangeIsFinite ==
    ASSUME NEW S, IsFiniteSet(S), NEW f, f = [x \in S |-> f[x]]
    PROVE  /\ IsFiniteSet(Range(f)) /\ Cardinality(Range(f)) <= Cardinality(S)
           /\ Cardinality(Range(f)) \in Nat
<1>1. f \in [S -> Range(f)] /\ \A y \in Range(f) : \E x \in S : f[x] = y
  BY DEF Range
<1>2. f \in Surjection(S, Range(f))
  BY <1>1 DEF Surjection
<1> QED
  BY <1>2, FS_Surjection, FS_CardinalityType

\* A cut keeps the best: all when there is room, and never none of some.
LEMMA CutKeeps ==
    ASSUME NEW S, IsFiniteSet(S), NEW T, T \in Cuts(S)
    PROVE  /\ T \subseteq S /\ IsFiniteSet(T) /\ Cardinality(T) <= TopK
           /\ Cardinality(S) <= TopK => T = S
           /\ S # {} => T # {}
           /\ \A c \in T, d \in S \ T : c.score >= d.score
<1>1. TopK \in Nat \ {0}
  BY SearchAssumption
<1>2. /\ T \in SUBSET S
      /\ Cardinality(T) = IF Cardinality(S) < TopK THEN Cardinality(S) ELSE TopK
      /\ \A c \in T, d \in S \ T : c.score >= d.score
  BY DEF Cuts
<1>3. IsFiniteSet(T) /\ Cardinality(S) \in Nat
  BY <1>2, FS_Subset, FS_CardinalityType
<1>4. Cardinality(S) <= TopK => T = S
  BY <1>1, <1>2, <1>3, FS_Subset
<1>5. S # {} => T # {}
  <2>1. S # {} => Cardinality(S) # 0
    BY FS_EmptySet
  <2>2. Cardinality(T) # 0 => T # {}
    BY FS_EmptySet
  <2> QED
    BY <1>1, <1>2, <1>3, <2>1, <2>2
<1>6. Cardinality(T) <= TopK
  BY <1>1, <1>2, <1>3
<1> QED
  BY <1>2, <1>3, <1>4, <1>5, <1>6

\* What the verification of a card tells: j is the card c, judged.
Tells(j, c, cache, reading, gain) ==
  /\ j.doc = c.doc /\ (j.blocked <=> c.blocked)
  /\ j.verdict = "confirmed" =>
       /\ cache[Url(c)] = "fetched" /\ reading[c.doc.sha] = "confirmed"
       /\ j.score = Cap(c.score + gain) /\ j.level # "L3"
  /\ j.verdict # "confirmed" => j.score <= c.score
  /\ j.level = "ONLINE" <=> c.level = "ONLINE"
  /\ j.level = "L3" => c.level = "L3" /\ j.score <= c.score

LEMMA JudgedTells ==
    ASSUME NEW c \in CaseOf, NEW cache, NEW reading \in [Shas -> Tidings],
           NEW gain \in Nat, NEW j, j = Judged(c, cache, reading, gain)
    PROVE  j \in CaseOf /\ Tells(j, c, cache, reading, gain)
<1> DEFINE v == Verdict(c, cache, reading)
           s == IF v = "confirmed" THEN Cap(c.score + gain)
                ELSE IF v = "not_relevant" THEN c.score \div 2 ELSE c.score
           l == IF v = "confirmed" /\ c.level = "L3" THEN "L2" ELSE c.level
<1>1. /\ c.doc \in Docs /\ c.level \in {"L1", "L2", "L3", "ONLINE"} /\ c.score \in Nat
      /\ c.verdict \in Outcomes /\ c.blocked \in BOOLEAN
      /\ DOMAIN c = {"doc", "level", "score", "verdict", "blocked"}
  BY DEF CaseOf
<1>2. c.doc.sha \in Shas
  BY <1>1 DEF Docs
<1>3. v \in Outcomes /\ (v = "confirmed" => cache[Url(c)] = "fetched" /\ reading[c.doc.sha] = "confirmed")
  BY <1>2 DEF Verdict, Outcomes, Tidings
<1>4. s \in Nat /\ (v # "confirmed" => s <= c.score) /\ (v = "confirmed" => s = Cap(c.score + gain))
  BY <1>1, SearchAssumption DEF Cap
<1>5. j = [c EXCEPT !.verdict = v, !.score = s, !.level = l]
  BY DEF Judged
<1> HIDE DEF v, s
<1>6. /\ j.doc = c.doc /\ j.level = l /\ j.score = s /\ j.verdict = v /\ j.blocked = c.blocked
      /\ DOMAIN j = DOMAIN c
  BY <1>1, <1>5
<1>7. j = [doc |-> c.doc, level |-> l, score |-> s, verdict |-> v, blocked |-> c.blocked]
  BY <1>1, <1>5
<1>8. j \in CaseOf
  BY <1>1, <1>3, <1>4, <1>7 DEF CaseOf
<1> QED
  BY <1>1, <1>3, <1>4, <1>6, <1>8 DEF Tells

AllJudged(S, cache, reading, gain) == {Judged(c, cache, reading, gain) : c \in S}
Surviving(S) == {c \in S : Survives(c)}

LEMMA JudgedSet ==
    ASSUME NEW S, S \subseteq CaseOf, IsFiniteSet(S), NEW cache,
           NEW reading, reading \in [Shas -> Tidings], NEW gain \in Nat,
           NEW J, J = AllJudged(S, cache, reading, gain)
    PROVE  /\ J \subseteq CaseOf /\ IsFiniteSet(J)
           /\ \A j \in J : \E c \in S : /\ j = Judged(c, cache, reading, gain)
                                     /\ Tells(j, c, cache, reading, gain)
<1> DEFINE g == [c \in S |-> Judged(c, cache, reading, gain)]
<1>1. J = Range(g)
  BY DEF Range, AllJudged
<1>2. IsFiniteSet(J)
  BY <1>1, RangeIsFinite
<1> HIDE DEF g
<1> QED
  BY <1>2, JudgedTells DEF AllJudged

\* Evidence is only added, and so are readings.
LEMMA FetchedGrows ==
    ASSUME evidence \in [Urls -> {"absent", "fetched", "failed"}], NEW failing, NEW targets
    PROVE  /\ FetchedAs(failing, targets) \in [Urls -> {"absent", "fetched", "failed"}]
           /\ \A u \in Urls : evidence[u] = "fetched" => FetchedAs(failing, targets)[u] = "fetched"
BY DEF FetchedAs

LEMMA ReadingGrows ==
    ASSUME NEW q, truth[q] \in [Shas -> Tidings], NEW targets, NEW cache,
           NEW reading, reading \in Readings(q, targets, cache)
    PROVE  /\ reading \in [Shas -> Tidings]
           /\ \A s \in Shas : truth[q][s] = "confirmed" => reading[s] = "confirmed"
<1> DEFINE new == {s \in {c.doc.sha : c \in {c \in targets : cache[Url(c)] = "fetched"}} :
                     truth[q][s] = "unread"}
<1>1. PICK f \in [new -> Verdicts] : reading = [s \in Shas |-> IF s \in new THEN f[s] ELSE truth[q][s]]
  BY DEF Readings
<1>2. \A s \in new : truth[q][s] = "unread"
  OBVIOUS
<1> HIDE DEF new
<1> QED
  BY <1>1, <1>2 DEF Tidings

LEMMA CardTyped ==
    ASSUME NEW d \in Docs, NEW level \in {"L1", "L2", "L3", "ONLINE"}, NEW score \in Nat
    PROVE  Card(d, level, score) \in CaseOf
BY DEF Card, CaseOf, Outcomes

LEMMA ScoredHolds ==
    ASSUME NEW R, R \subseteq Docs, IsFiniteSet(R), NEW level \in {"L1", "L3"},
           NEW S, S \in Scored(R, level)
    PROVE  /\ S \subseteq CaseOf /\ IsFiniteSet(S)
           /\ \A c \in S : c.level = level /\ c.verdict = ""
<1>1. PICK f \in [R -> Scores] : S = {Card(d, level, f[d]) : d \in R}
  BY DEF Scored
<1> DEFINE g == [d \in R |-> Card(d, level, f[d])]
<1>2. S = Range(g)
  BY <1>1 DEF Range
<1>3. IsFiniteSet(S)
  BY <1>2, RangeIsFinite
<1>4. \A d \in R : Card(d, level, f[d]) \in CaseOf
  BY SearchAssumption, CardTyped
<1>5. \A d \in R : Card(d, level, f[d]).level = level /\ Card(d, level, f[d]).verdict = ""
  BY DEF Card
<1> QED
  BY <1>1, <1>3, <1>4, <1>5

OnlineCard(d, blocked) ==
  [Card(d, "ONLINE", Baseline) EXCEPT !.verdict = "unverified", !.blocked = blocked]

LEMMA OnlineCardHolds ==
    ASSUME NEW d, d \in Docs, NEW blocked, blocked \in BOOLEAN,
           NEW c, c = OnlineCard(d, blocked)
    PROVE  /\ c \in CaseOf /\ c.doc = d /\ c.level = "ONLINE" /\ c.score = Baseline
           /\ c.verdict = "unverified" /\ c.blocked = blocked
<1>1. /\ c.doc = d /\ c.level = "ONLINE" /\ c.score = Baseline /\ c.verdict = "unverified"
      /\ c.blocked = blocked
      /\ DOMAIN c = {"doc", "level", "score", "verdict", "blocked"}
  BY DEF Card, OnlineCard
<1>2. c = [x \in DOMAIN c |-> c[x]]
  BY DEF OnlineCard
<1>3. Baseline \in Nat /\ "unverified" \in Outcomes
  BY SearchAssumption DEF Outcomes
<1>4. c \in CaseOf
  BY <1>1, <1>2, <1>3 DEF CaseOf
<1> QED
  BY <1>1, <1>4

LEMMA OnlineHolds ==
    ASSUME NEW blocked, blocked \in BOOLEAN, NEW F, F \in OnlineSets(blocked)
    PROVE  /\ F \subseteq CaseOf /\ IsFiniteSet(F)
           /\ \A c \in F : /\ c.level = "ONLINE" /\ c.score = Baseline
                           /\ c.verdict = "unverified" /\ c.blocked = blocked
           /\ \A c, e \in F : c.doc.sha = e.doc.sha => c = e
<1> DEFINE DocOf(d) == [sha |-> d.sha, title |-> d.title, copy |-> -1]
           New(d) == OnlineCard(DocOf(d), blocked)
<1>1. PICK D \in SUBSET Online : F = {New(d) : d \in D}
  BY DEF OnlineSets, OnlineCard
<1> DEFINE g == [d \in D |-> New(d)]
<1>2. F = Range(g)
  BY <1>1 DEF Range
<1>3. IsFiniteSet(F)
  <2>1. IsFiniteSet(D)
    BY SearchAssumption, FS_Subset
  <2> QED
    BY <1>2, <2>1, RangeIsFinite
<1>4. \A d \in D : DocOf(d) \in Docs
  <2> SUFFICES ASSUME NEW d \in D PROVE DocOf(d) \in Docs
    OBVIOUS
  <2>1. d \in Urls /\ d = [sha |-> d.sha, title |-> d.title]
    BY SearchAssumption DEF Urls
  <2>2. d.sha \in Shas /\ d.title \in {u.title : u \in Urls}
    BY <2>1 DEF Shas, Urls
  <2> QED
    BY <2>1, <2>2 DEF Docs
<1>5. \A d, e \in D : DocOf(d).sha = DocOf(e).sha => d = e
  BY SearchAssumption
<1>6. \A d \in D : /\ New(d) \in CaseOf /\ New(d).doc = DocOf(d) /\ New(d).level = "ONLINE"
                   /\ New(d).score = Baseline /\ New(d).verdict = "unverified"
                   /\ New(d).blocked = blocked
  <2> SUFFICES ASSUME NEW d \in D
               PROVE  /\ New(d) \in CaseOf /\ New(d).doc = DocOf(d) /\ New(d).level = "ONLINE"
                      /\ New(d).score = Baseline /\ New(d).verdict = "unverified"
                      /\ New(d).blocked = blocked
    OBVIOUS
  <2>1. DocOf(d) \in Docs
    BY <1>4
  <2> HIDE DEF DocOf
  <2> QED
    BY <2>1, OnlineCardHolds
<1> HIDE DEF New, DocOf
<1> QED
  BY <1>1, <1>3, <1>5, <1>6

LEMMA WithLevelHolds ==
    ASSUME NEW S, S \subseteq CaseOf, IsFiniteSet(S), NEW level \in {"L1", "L2", "L3", "ONLINE"}
    PROVE  /\ WithLevel(S, level) \subseteq CaseOf /\ IsFiniteSet(WithLevel(S, level))
           /\ \A x \in WithLevel(S, level) :
                x.level = level /\ \E c \in S : x.score = c.score /\ x.verdict = c.verdict
<1> DEFINE g == [c \in S |-> [c EXCEPT !.level = level]]
<1>1. WithLevel(S, level) = Range(g)
  BY DEF WithLevel, Range
<1>2. IsFiniteSet(WithLevel(S, level))
  BY <1>1, RangeIsFinite
<1>3. ASSUME NEW c \in S
      PROVE  LET x == [c EXCEPT !.level = level]
             IN  x \in CaseOf /\ x.level = level /\ x.score = c.score /\ x.verdict = c.verdict
  BY DEF CaseOf
<1> QED
  BY <1>2, <1>3 DEF WithLevel

-----------------------------------------------------------------------------
\* A query relies on nothing that another query takes away.
Apart(q) ==
  /\ \A p \in Queries \ {q} :
       /\ stage'[p] = stage[p] /\ mode'[p] = mode[p] /\ truth'[p] = truth[p]
       /\ cards'[p] = cards[p] /\ hits'[p] = hits[p] /\ found'[p] = found[p]
       /\ todo'[p] = todo[p]
  /\ \A u \in Urls : evidence[u] = "fetched" => evidence'[u] = "fetched"

LEMMA OthersStand ==
    ASSUME SearchInv, NEW q \in Queries, Apart(q), NEW p \in Queries \ {q}
    PROVE  QueryInv(p)'
<1>1. /\ stage'[p] = stage[p] /\ mode'[p] = mode[p] /\ truth'[p] = truth[p]
      /\ cards'[p] = cards[p] /\ hits'[p] = hits[p] /\ found'[p] = found[p]
      /\ todo'[p] = todo[p]
  BY DEF Apart
<1>2. Unjudged(p) => Unjudged(p)'
  BY <1>1 DEF Unjudged
<1>3. Settled(p) => Settled(p)'
  BY <1>1 DEF Settled
<1>4. \A c \in CaseOf : Url(c) \in Urls
  BY DEF CaseOf, Docs, Url
<1>5. cards[p] \subseteq CaseOf /\ todo[p] \in Seq(CaseOf)
  BY DEF SearchInv, SearchTypes
<1>6. Backed(p) => Backed(p)'
  BY <1>1, <1>4, <1>5 DEF Backed, Apart
<1>7. Pending(p) => Pending(p)'
  <2>1. \A i \in DOMAIN todo[p] : Url(todo[p][i]) \in Urls
    BY <1>4, <1>5
  <2> QED
    BY <1>1, <2>1 DEF Pending, Apart
<1>8. QueryInv(p)
  BY DEF SearchInv
<1> QED
  BY <1>1, <1>2, <1>3, <1>6, <1>7, <1>8 DEF QueryInv

LEMMA OneMoves ==
    ASSUME SearchInv, NEW q \in Queries, SearchTypes', QueryInv(q)', Apart(q)
    PROVE  SearchInv'
BY OthersStand DEF SearchInv

\* A step that gives a query its cards.
LEMMA HoldTypes ==
    ASSUME SearchTypes, NEW q \in Queries, NEW S, S \subseteq CaseOf, IsFiniteSet(S),
           Hold(q, S), NEW s \in Stages, Goto(q, s), UNCHANGED <<base, mode, todo>>,
           evidence' \in [Urls -> {"absent", "fetched", "failed"}],
           truth' \in [Queries -> [Shas -> Tidings]], DOMAIN hits' = Queries,
           found' \in [Queries -> {"nothing", "report", "extra"}]
    PROVE  /\ SearchTypes'
           /\ stage'[q] = s /\ cards'[q] = S
           /\ mode'[q] = mode[q] /\ todo'[q] = todo[q]
           /\ \A p \in Queries \ {q} : stage'[p] = stage[p] /\ cards'[p] = cards[p]
BY DEF SearchTypes, Hold, Goto

LEMMA AskKeeps ==
    ASSUME SearchInv, NEW q \in Queries, Ask(q)
    PROVE  SearchInv'
<1> USE DEF SearchInv, SearchTypes
<1>1. PICK m \in [scoring : Modes, verify : Verifying] : mode' = [mode EXCEPT ![q] = m]
  BY DEF Ask
<1>2. PICK s \in {"first", "upstream"} : stage' = [stage EXCEPT ![q] = s]
  BY DEF Ask, Goto
<1>3. stage[q] = "idle" /\ UNCHANGED <<base, evidence, truth, cards, hits, found, todo>>
  BY DEF Ask
<1>4. m \in [scoring : {"keyword", "llm", "hybrid"}, verify : BOOLEAN]
  BY SearchAssumption
<1>5. SearchTypes'
  BY <1>1, <1>2, <1>3, <1>4 DEF Stages
<1>6. cards'[q] = {} /\ todo'[q] = <<>> /\ found'[q] = "nothing" /\ stage'[q] = s
  BY <1>2, <1>3 DEF QueryInv
<1>7. QueryInv(q)'
  BY <1>6 DEF QueryInv
<1>8. Apart(q)
  BY <1>1, <1>2, <1>3 DEF Apart
<1> QED
  BY <1>5, <1>7, <1>8, OneMoves

LEMMA FirstLevelKeeps ==
    ASSUME SearchInv, NEW q \in Queries, FirstLevel(q)
    PROVE  SearchInv'
<1>1. PICK R \in Recalled : \E S \in Scored(R, "L1") :
        LET over == {c \in S : c.score > L1Score} IN
        \/ /\ over # {}
           /\ Hold(q, over) /\ Goto(q, "select")
        \/ /\ over = {}
           /\ \E T \in ConfirmSets(q, S) :
                IF T # {} THEN Hold(q, WithLevel(T, "L2")) /\ Goto(q, "select")
                          ELSE Hold(q, S) /\ Goto(q, "wider")
  BY DEF FirstLevel
<1>2. PICK S \in Scored(R, "L1") :
        LET over == {c \in S : c.score > L1Score} IN
        \/ /\ over # {}
           /\ Hold(q, over) /\ Goto(q, "select")
        \/ /\ over = {}
           /\ \E T \in ConfirmSets(q, S) :
                IF T # {} THEN Hold(q, WithLevel(T, "L2")) /\ Goto(q, "select")
                          ELSE Hold(q, S) /\ Goto(q, "wider")
  BY <1>1
<1>3. /\ stage[q] = "first" /\ UNCHANGED <<base, evidence, mode, truth, hits, found, todo>>
      /\ SearchTypes /\ todo[q] = <<>> /\ found[q] = "nothing"
  BY DEF FirstLevel, SearchInv, QueryInv
<1>4. R \subseteq Docs /\ IsFiniteSet(R)
  BY <1>3, FS_Subset DEF Recalled, SearchTypes
<1>5. S \subseteq CaseOf /\ IsFiniteSet(S) /\ \A c \in S : c.level = "L1" /\ c.verdict = ""
  BY <1>4, ScoredHolds
<1> DEFINE Next2(H, s) == Hold(q, H) /\ Goto(q, s)
<1>6. ASSUME NEW H, NEW s \in {"select", "wider"}, Next2(H, s), H \subseteq CaseOf, IsFiniteSet(H),
             Raw(H), \A c \in H : c.level \in {"L1", "L2"},
             s = "wider" /\ mode[q].scoring = "llm" => \A c \in H : c.score < L2Score
      PROVE  SearchInv'
  <2>1. /\ SearchTypes' /\ stage'[q] = s /\ cards'[q] = H /\ mode'[q] = mode[q]
        /\ todo'[q] = todo[q]
        /\ \A p \in Queries \ {q} : stage'[p] = stage[p] /\ cards'[p] = cards[p]
    <3>1. /\ evidence' \in [Urls -> {"absent", "fetched", "failed"}]
          /\ truth' \in [Queries -> [Shas -> Tidings]] /\ DOMAIN hits' = Queries
          /\ found' \in [Queries -> {"nothing", "report", "extra"}]
          /\ UNCHANGED <<base, mode, todo>> /\ s \in Stages
      BY <1>3 DEF SearchTypes, Stages
    <3> QED
      BY <1>3, <1>6, <3>1, HoldTypes
  <2>2. Unjudged(q)'
    BY <1>3, <1>6, <2>1 DEF Unjudged, Raw, NoneOnline, WeakIsLow
  <2>3. QueryInv(q)'
    BY <2>1, <2>2 DEF QueryInv
  <2>4. Apart(q)
    BY <1>3, <2>1 DEF Apart
  <2> QED
    BY <2>1, <2>3, <2>4, OneMoves
<1>7. "" \notin Verdicts
  BY DEF Verdicts
<1>8. CASE \E H : H = {c \in S : c.score > L1Score} /\ Next2(H, "select")
  <2>1. PICK H : H = {c \in S : c.score > L1Score} /\ Next2(H, "select")
    BY <1>8
  <2>2. H \subseteq CaseOf /\ IsFiniteSet(H) /\ Raw(H) /\ \A c \in H : c.level \in {"L1", "L2"}
    BY <1>5, <1>7, <2>1, FS_Subset DEF Raw
  <2> QED
    BY <1>6, <2>1, <2>2
<1>9. ASSUME NEW T \in ConfirmSets(q, S),
             IF T # {} THEN Next2(WithLevel(T, "L2"), "select") ELSE Next2(S, "wider")
      PROVE  SearchInv'
  <2>1. /\ T \subseteq S /\ \A c \in S \ T : ~MustConfirm(q, c)
        /\ T \subseteq CaseOf /\ IsFiniteSet(T)
    BY <1>5, FS_Subset DEF ConfirmSets
  <2>2. CASE T # {}
    <3>1. PICK H : H = WithLevel(T, "L2")
      OBVIOUS
    <3>2. /\ H \subseteq CaseOf /\ IsFiniteSet(H) /\ \A c \in H : c.level \in {"L1", "L2"}
          /\ \A c \in H : c.verdict = ""
      <4>1. /\ H \subseteq CaseOf /\ IsFiniteSet(H)
            /\ \A x \in H : x.level = "L2" /\ \E c \in T : x.score = c.score /\ x.verdict = c.verdict
        BY <2>1, <3>1, WithLevelHolds
      <4> QED
        BY <1>5, <2>1, <4>1
    <3> QED
      BY <1>6, <1>7, <1>9, <2>2, <3>1, <3>2 DEF Raw
  <2>3. CASE T = {}
    <3>1. mode[q].scoring = "llm" => \A c \in S : c.score < L2Score
      <4>1. \A c \in S : c.score \in Nat
        BY <1>5 DEF CaseOf
      <4> QED
        BY <2>1, <2>3, <4>1, SearchAssumption DEF MustConfirm
    <3> QED
      BY <1>5, <1>6, <1>7, <1>9, <2>3, <3>1 DEF Raw
  <2> QED
    BY <2>2, <2>3
<1> QED
  BY <1>2, <1>8, <1>9

LEMMA WiderKeeps ==
    ASSUME SearchInv, NEW q \in Queries, Wider(q)
    PROVE  SearchInv'
<1>1. PICK R \in Recalled :
        LET reused == {c \in cards[q] : c.doc \in R}
            fresh  == R \ {c.doc : c \in cards[q]}
        IN  \E S \in Scored(fresh, "L3") : \E T \in ConfirmSets(q, S) :
              Hold(q, WithLevel(reused, "L3") \cup (S \ T) \cup WithLevel(T, "L2"))
  BY DEF Wider
<1> DEFINE reused == {c \in cards[q] : c.doc \in R}
           fresh  == R \ {c.doc : c \in cards[q]}
<1>2. PICK S \in Scored(fresh, "L3") : \E T \in ConfirmSets(q, S) :
        Hold(q, WithLevel(reused, "L3") \cup (S \ T) \cup WithLevel(T, "L2"))
  BY <1>1
<1>3. PICK T \in ConfirmSets(q, S) :
        Hold(q, WithLevel(reused, "L3") \cup (S \ T) \cup WithLevel(T, "L2"))
  BY <1>2
<1>4. PICK weak : weak = WithLevel(reused, "L3")
  OBVIOUS
<1>5. PICK strong : strong = WithLevel(T, "L2")
  OBVIOUS
<1>6. PICK H : H = weak \cup (S \ T) \cup strong
  OBVIOUS
<1>7. /\ stage[q] = "wider" /\ UNCHANGED <<base, evidence, mode, truth, hits, found, todo>>
      /\ SearchTypes /\ Unjudged(q)
  BY DEF Wider, SearchInv, QueryInv
<1>8. cards[q] \subseteq CaseOf /\ IsFiniteSet(cards[q])
  BY <1>7 DEF SearchTypes
<1>9. /\ weak \subseteq CaseOf /\ IsFiniteSet(weak)
      /\ \A x \in weak : x.level = "L3" /\ \E c \in cards[q] : x.score = c.score /\ x.verdict = c.verdict
  <2>1. reused \subseteq CaseOf /\ IsFiniteSet(reused)
    BY <1>8, FS_Subset
  <2> HIDE DEF reused
  <2>2. /\ weak \subseteq CaseOf /\ IsFiniteSet(weak)
        /\ \A x \in weak : x.level = "L3" /\ \E c \in reused : x.score = c.score /\ x.verdict = c.verdict
    BY <1>4, <2>1, WithLevelHolds
  <2> QED
    BY <2>2 DEF reused
<1>10. S \subseteq CaseOf /\ IsFiniteSet(S) /\ \A c \in S : c.level = "L3" /\ c.verdict = ""
  <2>1. fresh \subseteq Docs /\ IsFiniteSet(fresh)
    <3>1. R \subseteq Docs /\ IsFiniteSet(R)
      BY <1>7, FS_Subset DEF Recalled, SearchTypes
    <3> QED
      BY <3>1, FS_Subset
  <2> HIDE DEF fresh
  <2> QED
    BY <2>1, ScoredHolds
<1>11. /\ T \subseteq S /\ \A c \in S \ T : ~MustConfirm(q, c)
       /\ T \subseteq CaseOf /\ IsFiniteSet(T) /\ IsFiniteSet(S \ T)
  BY <1>10, FS_Subset DEF ConfirmSets
<1>12. /\ strong \subseteq CaseOf /\ IsFiniteSet(strong)
       /\ \A x \in strong : x.level = "L2" /\ \E c \in T : x.score = c.score /\ x.verdict = c.verdict
  BY <1>5, <1>11, WithLevelHolds
<1>13. H \subseteq CaseOf /\ IsFiniteSet(H)
  <2>1. IsFiniteSet(weak \cup (S \ T))
    BY <1>9, <1>11, FS_Union
  <2> QED
    BY <1>6, <1>9, <1>10, <1>12, <2>1, FS_Union
<1>14. \A c \in H : c.verdict \notin Verdicts /\ c.level # "ONLINE"
  BY <1>6, <1>7, <1>9, <1>10, <1>11, <1>12 DEF Unjudged, Raw, Verdicts
<1>15. mode[q].scoring = "llm" => \A c \in H : c.level = "L3" => c.score < L2Score
  <2>1. mode[q].scoring = "llm" => \A c \in S \ T : c.score < L2Score
    <3>1. \A c \in S : c.score \in Nat
      BY <1>10 DEF CaseOf
    <3> QED
      BY <1>11, <3>1, SearchAssumption DEF MustConfirm
  <2>2. mode[q].scoring = "llm" => \A x \in weak : x.score < L2Score
    BY <1>7, <1>9 DEF Unjudged
  <2> QED
    BY <1>6, <1>12, <2>1, <2>2
<1>16. /\ SearchTypes' /\ stage'[q] = "select" /\ cards'[q] = H /\ mode'[q] = mode[q]
       /\ todo'[q] = todo[q]
       /\ \A p \in Queries \ {q} : stage'[p] = stage[p] /\ cards'[p] = cards[p]
  <2>1. Hold(q, H) /\ Goto(q, "select")
    BY <1>3, <1>4, <1>5, <1>6 DEF Wider
  <2>2. /\ evidence' \in [Urls -> {"absent", "fetched", "failed"}]
        /\ truth' \in [Queries -> [Shas -> Tidings]] /\ DOMAIN hits' = Queries
        /\ found' \in [Queries -> {"nothing", "report", "extra"}]
        /\ UNCHANGED <<base, mode, todo>> /\ "select" \in Stages
    BY <1>7 DEF SearchTypes, Stages
  <2> QED
    BY <1>7, <1>13, <2>1, <2>2, HoldTypes
<1>17. QueryInv(q)'
  <2>1. Unjudged(q)'
    BY <1>7, <1>14, <1>15, <1>16 DEF Unjudged, Raw, NoneOnline, WeakIsLow
  <2> QED
    BY <1>16, <2>1 DEF QueryInv
<1>18. Apart(q)
  BY <1>7, <1>16 DEF Apart
<1> QED
  BY <1>16, <1>17, <1>18, OneMoves

LEMMA SelectKeeps ==
    ASSUME SearchInv, NEW q \in Queries, Select(q)
    PROVE  SearchInv'
<1>1. /\ stage[q] = "select" /\ UNCHANGED <<base, evidence, mode, truth, found, todo>>
      /\ SearchTypes /\ Unjudged(q) /\ hits' = [hits EXCEPT ![q] = cards[q] # {}]
  BY DEF Select, SearchInv, QueryInv
<1>2. PICK s \in {"rescore", "verify"} :
        Goto(q, s) /\ (s = "rescore" <=> mode[q].scoring = "hybrid")
  BY DEF Select, AfterSelect
<1>3. cards[q] \subseteq CaseOf /\ IsFiniteSet(cards[q])
  BY <1>1 DEF SearchTypes
<1>4. hits'[q] <=> cards[q] # {}
  BY <1>1 DEF SearchTypes
<1>5. ASSUME NEW H, Hold(q, H), H \subseteq CaseOf, IsFiniteSet(H), Raw(H),
             mode[q].scoring = "llm" => WeakIsLow(H),
             \A c \in H : c.level = "ONLINE" => ~hits'[q],
             Cardinality(H) <= TopK \/ \A c \in H : c.score = Baseline
      PROVE  SearchInv'
  <2>1. /\ SearchTypes' /\ stage'[q] = s /\ cards'[q] = H /\ mode'[q] = mode[q]
        /\ todo'[q] = todo[q]
        /\ \A p \in Queries \ {q} : stage'[p] = stage[p] /\ cards'[p] = cards[p]
    <3>1. /\ evidence' \in [Urls -> {"absent", "fetched", "failed"}]
          /\ truth' \in [Queries -> [Shas -> Tidings]] /\ DOMAIN hits' = Queries
          /\ found' \in [Queries -> {"nothing", "report", "extra"}]
          /\ UNCHANGED <<base, mode, todo>> /\ s \in Stages
      BY <1>1 DEF SearchTypes, Stages
    <3>2. SearchTypes /\ H \subseteq CaseOf /\ IsFiniteSet(H) /\ Hold(q, H) /\ Goto(q, s)
      BY <1>1, <1>2, <1>5
    <3> QED
      BY <3>1, <3>2, HoldTypes
  <2>2. mode[q].scoring \in {"keyword", "llm", "hybrid"}
    BY <1>1 DEF SearchTypes
  <2>3. Unjudged(q)'
    BY <1>1, <1>2, <1>5, <2>1, <2>2 DEF Unjudged, Raw, WeakIsLow
  <2>4. QueryInv(q)'
    BY <2>1, <2>3 DEF QueryInv
  <2>5. Apart(q)
    BY <1>1, <2>1 DEF Apart, SearchTypes
  <2> QED
    BY <2>1, <2>4, <2>5, OneMoves
<1>6. ASSUME NEW H \in Cuts(cards[q]), Hold(q, H) PROVE SearchInv'
  <2>1. H \subseteq cards[q] /\ IsFiniteSet(H) /\ Cardinality(H) <= TopK
    BY <1>3, CutKeeps
  <2>2. Raw(H) /\ (mode[q].scoring = "llm" => WeakIsLow(H)) /\ \A c \in H : c.level # "ONLINE"
    BY <1>1, <2>1 DEF Unjudged, Raw, WeakIsLow, NoneOnline
  <2> QED
    BY <1>3, <1>5, <1>6, <2>1, <2>2
<1>7. ASSUME NEW H \in OnlineSets(FALSE), Hold(q, H), cards[q] = {} PROVE SearchInv'
  <2>1. /\ H \subseteq CaseOf /\ IsFiniteSet(H)
        /\ \A c \in H : c.level = "ONLINE" /\ c.score = Baseline /\ c.verdict = "unverified"
    BY OnlineHolds
  <2>2. Raw(H) /\ WeakIsLow(H)
    BY <2>1 DEF Raw, WeakIsLow, Verdicts
  <2> QED
    BY <1>4, <1>5, <1>7, <2>1, <2>2
<1> QED
  BY <1>6, <1>7 DEF Select

LEMMA RescoreKeeps ==
    ASSUME SearchInv, NEW q \in Queries, Rescore(q)
    PROVE  SearchInv'
<1>1. /\ stage[q] = "rescore" /\ UNCHANGED <<base, evidence, mode, truth, hits, found, todo>>
      /\ SearchTypes /\ Unjudged(q) /\ Goto(q, "verify")
  BY DEF Rescore, SearchInv, QueryInv
<1>2. PICK f \in [cards[q] -> Scores] :
        Hold(q, {[c EXCEPT !.score = f[c],
                           !.level = IF @ = "L3" /\ f[c] >= L2Score
                                     THEN "L2" ELSE @] : c \in cards[q]})
  BY DEF Rescore
<1> DEFINE g == [c \in cards[q] |-> [c EXCEPT !.score = f[c],
                           !.level = IF @ = "L3" /\ f[c] >= L2Score
                                     THEN "L2" ELSE @]]
<1>3. PICK H : H = Range(g)
  OBVIOUS
<1>4. Hold(q, H)
  BY <1>2, <1>3 DEF Range
<1>5. cards[q] \subseteq CaseOf /\ IsFiniteSet(cards[q])
  BY <1>1 DEF SearchTypes
<1>6. IsFiniteSet(H)
  BY <1>3, <1>5, RangeIsFinite
<1>7. ASSUME NEW c \in cards[q]
      PROVE  /\ g[c] \in CaseOf /\ g[c].verdict = c.verdict
             /\ g[c].level = "ONLINE" => c.level = "ONLINE"
             /\ g[c].level = "L3" => g[c].score < L2Score
  <2>1. c \in CaseOf /\ f[c] \in Nat /\ L2Score \in Nat
    BY <1>5, SearchAssumption
  <2>2. PICK l : l = IF c.level = "L3" /\ f[c] >= L2Score THEN "L2" ELSE c.level
    OBVIOUS
  <2>3. g[c] = [c EXCEPT !.score = f[c], !.level = l]
    BY <2>2
  <2> HIDE DEF g
  <2>4. /\ g[c].level = l /\ g[c].score = f[c] /\ g[c].verdict = c.verdict
        /\ g[c].doc = c.doc /\ g[c].blocked = c.blocked /\ DOMAIN g[c] = DOMAIN c
    BY <2>1, <2>3 DEF CaseOf
  <2>5. l \in {"L1", "L2", "L3", "ONLINE"}
    BY <2>1, <2>2 DEF CaseOf
  <2>6. g[c] = [x \in DOMAIN g[c] |-> g[c][x]]
    BY <2>3
  <2>7. g[c] \in CaseOf
    BY <2>1, <2>4, <2>5, <2>6 DEF CaseOf
  <2> QED
    BY <2>1, <2>2, <2>4, <2>7
<1>8. /\ H \subseteq CaseOf /\ WeakIsLow(H) /\ Raw(H)
      /\ \A x \in H : x.level = "ONLINE" => \E c \in cards[q] : c.level = "ONLINE"
  <2>1. \A x \in H : \E c \in cards[q] : x = g[c]
    BY <1>3 DEF Range
  <2> HIDE DEF g
  <2> QED
    BY <1>1, <1>7, <2>1 DEF WeakIsLow, Raw, Unjudged
<1>9. /\ SearchTypes' /\ stage'[q] = "verify" /\ cards'[q] = H /\ mode'[q] = mode[q]
      /\ todo'[q] = todo[q]
      /\ \A p \in Queries \ {q} : stage'[p] = stage[p] /\ cards'[p] = cards[p]
  <2>1. /\ evidence' \in [Urls -> {"absent", "fetched", "failed"}]
        /\ truth' \in [Queries -> [Shas -> Tidings]] /\ DOMAIN hits' = Queries
        /\ found' \in [Queries -> {"nothing", "report", "extra"}]
        /\ UNCHANGED <<base, mode, todo>> /\ "verify" \in Stages
    BY <1>1 DEF SearchTypes, Stages
  <2> QED
    BY <1>1, <1>4, <1>6, <1>8, <2>1, HoldTypes
<1>10. QueryInv(q)'
  <2>1. Unjudged(q)'
    BY <1>1, <1>8, <1>9 DEF Unjudged, Raw, WeakIsLow
  <2> QED
    BY <1>9, <2>1 DEF QueryInv
<1>11. Apart(q)
  BY <1>1, <1>9 DEF Apart
<1> QED
  BY <1>9, <1>10, <1>11, OneMoves

\* The cut that follows the verification of some cards.
LEMMA VerifiedCards ==
    ASSUME SearchInv, NEW q \in Queries, stage[q] = "verify",
           NEW targets, targets \subseteq cards[q], NEW cache,
           NEW reading, reading \in [Shas -> Tidings],
           NEW judged, judged = AllJudged(targets, cache, reading, 1),
           NEW all, all = judged \cup (cards[q] \ targets),
           NEW T, T \in Cuts(Surviving(all))
    PROVE  /\ T \subseteq CaseOf /\ IsFiniteSet(T)
           /\ \A c \in T : c.level = "ONLINE" => c.verdict \in Positive
           /\ \A c \in T : c.level = "L3" => c.verdict # "confirmed"
           /\ mode[q].scoring # "keyword" => WeakIsLow(T)
           /\ mode[q].scoring # "hybrid" /\ Confirmed(judged) => Confirmed(T)
           /\ \A c \in T : c.verdict = "confirmed" =>
                cache[Url(c)] = "fetched" /\ reading[c.doc.sha] = "confirmed"
           /\ \A c \in T : c.level = "ONLINE" => ~hits[q]
<1> DEFINE kept == Surviving(all)
           rest == cards[q] \ targets
<1>1. Unjudged(q) /\ cards[q] \subseteq CaseOf /\ IsFiniteSet(cards[q])
  BY DEF SearchInv, SearchTypes, QueryInv
<1>2. targets \subseteq CaseOf /\ IsFiniteSet(targets) /\ rest \subseteq CaseOf
  BY <1>1, FS_Subset
<1>3. /\ judged \subseteq CaseOf /\ IsFiniteSet(judged)
      /\ \A j \in judged : \E c \in targets : Tells(j, c, cache, reading, 1)
  <2>1. 1 \in Nat
    OBVIOUS
  <2> QED
    BY <1>2, <2>1, JudgedSet
<1>4. IsFiniteSet(all) /\ all \subseteq CaseOf /\ Cardinality(all) <= Cardinality(cards[q])
      /\ Cardinality(all) \in Nat
  <2> DEFINE g == [c \in cards[q] |-> IF c \in targets THEN Judged(c, cache, reading, 1) ELSE c]
  <2>1. all = Range(g)
    BY DEF Range, AllJudged
  <2>2. IsFiniteSet(Range(g)) /\ Cardinality(Range(g)) <= Cardinality(cards[q])
        /\ Cardinality(Range(g)) \in Nat
    BY <1>1, RangeIsFinite
  <2> HIDE DEF g
  <2> QED
    BY <1>2, <1>3, <2>1, <2>2
<1>5. IsFiniteSet(kept) /\ kept \subseteq all /\ Cardinality(kept) <= Cardinality(all)
      /\ Cardinality(kept) \in Nat
  BY <1>4, FS_Subset, FS_CardinalityType DEF Surviving
<1>6. /\ T \subseteq kept /\ IsFiniteSet(T)
      /\ Cardinality(kept) <= TopK => T = kept
      /\ kept # {} => T # {}
      /\ \A c \in T, d \in kept \ T : c.score >= d.score
  BY <1>5, CutKeeps
<1>7. \A c \in rest : c.verdict # "confirmed"
  BY <1>1 DEF Unjudged, Raw, Verdicts
<1>8. \A c \in T : c.level = "ONLINE" => c.verdict \in Positive
  BY <1>6 DEF Survives, Surviving
<1>9. ASSUME NEW c \in T
      PROVE  c \in rest \/ \E d \in targets : c \in judged /\ Tells(c, d, cache, reading, 1)
  <2>1. c \in all
    BY <1>6 DEF Surviving
  <2> QED
    BY <1>3, <2>1
<1>10. ASSUME NEW c \in T, c.level = "L3" PROVE c.verdict # "confirmed"
  BY <1>7, <1>9, <1>10 DEF Tells
<1>11. ASSUME NEW c \in T, mode[q].scoring # "keyword", c.level = "L3" PROVE c.score < L2Score
  <2>1. \A d \in cards[q] : d.level = "L3" => d.score < L2Score
    BY <1>1, <1>11 DEF Unjudged, WeakIsLow
  <2>2. c.score \in Nat /\ L2Score \in Nat /\ \A d \in cards[q] : d.score \in Nat
    BY <1>1, <1>4, <1>6, SearchAssumption DEF CaseOf, Surviving
  <2>3. CASE c \in rest
    BY <1>11, <2>1, <2>3
  <2>4. CASE \E d \in targets : Tells(c, d, cache, reading, 1)
    <3>1. PICK d \in targets : Tells(c, d, cache, reading, 1)
      BY <2>4
    <3>2. d.level = "L3" /\ c.score <= d.score
      BY <1>11, <3>1 DEF Tells
    <3> QED
      BY <2>1, <2>2, <3>2
  <2> QED
    BY <1>9, <2>3, <2>4
<1>12. ASSUME mode[q].scoring # "hybrid", NEW j \in judged, j.verdict = "confirmed"
       PROVE  Confirmed(T)
  <2>1. j \in kept
    BY <1>12 DEF Survives, Surviving, Positive
  <2>2. CASE Cardinality(cards[q]) <= TopK
    <3>1. Cardinality(kept) <= TopK
      BY <1>1, <1>4, <1>5, <2>2, FS_CardinalityType, SearchAssumption
    <3> QED
      BY <1>6, <1>12, <2>1, <3>1 DEF Confirmed
  <2>3. CASE \A c \in cards[q] : c.score = Baseline
    <3>1. PICK t \in T : TRUE
      BY <1>6, <2>1
    <3>2. CASE j \in T
      BY <1>12, <3>2 DEF Confirmed
    <3>3. CASE j \notin T
      <4>1. t.score >= j.score
        BY <1>6, <2>1, <3>3
      <4>2. j.score = Baseline + 1
        <5>1. PICK c \in targets : Tells(j, c, cache, reading, 1)
          BY <1>3
        <5>2. j.score = Cap(Baseline + 1)
          BY <1>12, <2>3, <5>1 DEF Tells
        <5> QED
          BY <5>2, SearchAssumption DEF Cap
      <4>3. t.score > Baseline
        <5>1. t.score \in Nat /\ Baseline \in Nat
          BY <1>4, <1>6, SearchAssumption DEF CaseOf, Surviving
        <5> QED
          BY <4>1, <4>2, <5>1
      <4>4. t.verdict = "confirmed"
        <5> SUFFICES ASSUME t.verdict # "confirmed" PROVE FALSE
          OBVIOUS
        <5>1. CASE t \in rest
          BY <2>3, <4>3, <5>1, SearchAssumption
        <5>2. CASE \E d \in targets : Tells(t, d, cache, reading, 1)
          <6>1. PICK d \in targets : Tells(t, d, cache, reading, 1)
            BY <5>2
          <6>2. t.score <= Baseline /\ t.score \in Nat
            BY <1>4, <1>6, <2>3, <6>1 DEF Tells, CaseOf, Surviving
          <6> QED
            BY <4>3, <6>2, SearchAssumption
        <5> QED
          BY <1>9, <5>1, <5>2
      <4> QED
        BY <4>4 DEF Confirmed
    <3> QED
      BY <3>2, <3>3
  <2> QED
    BY <1>1, <1>12, <2>2, <2>3 DEF Unjudged
<1>13. ASSUME NEW c \in T, c.verdict = "confirmed"
       PROVE  cache[Url(c)] = "fetched" /\ reading[c.doc.sha] = "confirmed"
  <2>1. PICK d \in targets : Tells(c, d, cache, reading, 1)
    BY <1>7, <1>9, <1>13
  <2> QED
    BY <1>13, <2>1 DEF Tells, Url
<1>14. ASSUME NEW c \in T, c.level = "ONLINE" PROVE ~hits[q]
  BY <1>1, <1>9, <1>14 DEF Tells, Unjudged
<1> QED
  BY <1>4, <1>5, <1>6, <1>8, <1>10, <1>11, <1>12, <1>13, <1>14 DEF Confirmed, WeakIsLow

LEMMA VerifyKeeps ==
    ASSUME SearchInv, NEW q \in Queries, Verify(q)
    PROVE  SearchInv'
<1>1. /\ stage[q] = "verify" /\ UNCHANGED <<base, mode, hits, todo>>
      /\ SearchTypes /\ Unjudged(q) /\ Goto(q, "extra")
  BY DEF Verify, SearchInv, QueryInv
<1>2. ASSUME NEW targets \in SUBSET cards[q], NEW failing,
             NEW reading \in Readings(q, targets, FetchedAs(failing, targets)),
             NEW judged, judged = AllJudged(targets, FetchedAs(failing, targets), reading, 1),
             NEW T \in Cuts(Surviving(judged \cup (cards[q] \ targets))),
             evidence' = FetchedAs(failing, targets),
             truth' = [truth EXCEPT ![q] = reading],
             found' = [found EXCEPT ![q] =
                IF \E c \in judged : c.verdict = "confirmed" THEN "report" ELSE @],
             Hold(q, T)
      PROVE  SearchInv'
  <2>1. reading \in [Shas -> Tidings]
    BY <1>1, ReadingGrows DEF SearchTypes
  <2>2. /\ evidence' \in [Urls -> {"absent", "fetched", "failed"}]
        /\ \A u \in Urls : evidence[u] = "fetched" => evidence'[u] = "fetched"
    BY <1>1, <1>2, FetchedGrows DEF SearchTypes
  <2>3. /\ T \subseteq CaseOf /\ IsFiniteSet(T)
        /\ \A c \in T : c.level = "ONLINE" => c.verdict \in Positive
        /\ \A c \in T : c.level = "L3" => c.verdict # "confirmed"
        /\ mode[q].scoring # "keyword" => WeakIsLow(T)
        /\ mode[q].scoring # "hybrid" /\ Confirmed(judged) => Confirmed(T)
        /\ \A c \in T : c.verdict = "confirmed" =>
             evidence'[Url(c)] = "fetched" /\ reading[c.doc.sha] = "confirmed"
        /\ \A c \in T : c.level = "ONLINE" => ~hits[q]
    <3>1. PICK all : all = judged \cup (cards[q] \ targets)
      OBVIOUS
    <3>2. PICK cache : cache = FetchedAs(failing, targets)
      OBVIOUS
    <3>3. T \in Cuts(Surviving(all))
      BY <1>2, <3>1
    <3>4. evidence' = cache /\ judged = AllJudged(targets, cache, reading, 1)
      BY <1>2, <3>2
    <3> QED
      BY <1>1, <2>1, <3>1, <3>3, <3>4, VerifiedCards
  <2>4. /\ truth' \in [Queries -> [Shas -> Tidings]] /\ truth'[q] = reading
        /\ found' \in [Queries -> {"nothing", "report", "extra"}]
        /\ found'[q] = "report" => Confirmed(judged)
        /\ \A p \in Queries \ {q} : truth'[p] = truth[p] /\ found'[p] = found[p]
    BY <1>1, <1>2, <2>1 DEF SearchTypes, Unjudged, Confirmed
  <2>5. /\ SearchTypes' /\ stage'[q] = "extra" /\ cards'[q] = T /\ mode'[q] = mode[q]
        /\ todo'[q] = todo[q]
        /\ \A p \in Queries \ {q} : stage'[p] = stage[p] /\ cards'[p] = cards[p]
    <3>1. DOMAIN hits' = Queries /\ "extra" \in Stages /\ UNCHANGED <<base, mode, todo>>
      BY <1>1 DEF SearchTypes, Stages
    <3> QED
      BY <1>1, <1>2, <2>2, <2>3, <2>4, <3>1, HoldTypes
  <2>6. Settled(q)'
    BY <2>3, <2>4, <2>5 DEF Settled
  <2>7. Backed(q)'
    BY <1>1, <2>3, <2>4, <2>5 DEF Backed, Unjudged
  <2>8. QueryInv(q)'
    BY <2>5, <2>6, <2>7 DEF QueryInv
  <2>9. Apart(q)
    BY <1>1, <2>2, <2>4, <2>5 DEF Apart
  <2> QED
    BY <2>5, <2>8, <2>9, OneMoves
<1>3. ASSUME ~mode[q].verify \/ cards[q] = {}, UNCHANGED <<evidence, truth, found, cards>>
      PROVE  SearchInv'
  <2>1. SearchTypes' /\ stage'[q] = "extra"
    BY <1>1, <1>3 DEF SearchTypes, Goto, Stages
  <2>2. Settled(q)'
    BY <1>1, <1>3 DEF Unjudged, Settled, Raw, WeakIsLow, Verdicts
  <2>3. Backed(q)'
    BY <1>1, <1>3 DEF Unjudged, Backed, Raw, Verdicts
  <2>4. QueryInv(q)'
    BY <2>1, <2>2, <2>3 DEF QueryInv
  <2>5. Apart(q)
    BY <1>1, <1>3 DEF Apart, Goto, SearchTypes
  <2> QED
    BY <2>1, <2>4, <2>5, OneMoves
<1> QED
  BY <1>2, <1>3 DEF Verify, AllJudged, Surviving

\* What the verification of cards that were just found online tells.
LEMMA FoundOnline ==
    ASSUME NEW F, F \subseteq CaseOf, IsFiniteSet(F), \A c \in F : c.level = "ONLINE",
           \A c, e \in F : c.doc.sha = e.doc.sha => c = e,
           NEW cache, NEW reading, reading \in [Shas -> Tidings],
           NEW judged, judged = AllJudged(F, cache, reading, 2)
    PROVE  /\ judged \subseteq CaseOf /\ IsFiniteSet(judged)
           /\ \A j \in judged : j.level = "ONLINE" /\ \E c \in F : j.blocked <=> c.blocked
           /\ \A j \in judged : j.verdict = "confirmed" =>
                cache[Url(j)] = "fetched" /\ reading[j.doc.sha] = "confirmed"
           /\ \A j, k \in judged : j.doc.sha = k.doc.sha => j = k
<1>1. /\ judged \subseteq CaseOf /\ IsFiniteSet(judged)
      /\ \A j \in judged : \E c \in F : /\ j = Judged(c, cache, reading, 2)
                                        /\ Tells(j, c, cache, reading, 2)
  <2>1. 2 \in Nat
    OBVIOUS
  <2> QED
    BY <2>1, JudgedSet
<1>2. ASSUME NEW j \in judged
      PROVE  /\ j.level = "ONLINE" /\ \E c \in F : j.blocked <=> c.blocked
             /\ j.verdict = "confirmed" =>
                  cache[Url(j)] = "fetched" /\ reading[j.doc.sha] = "confirmed"
  <2>1. PICK c \in F : Tells(j, c, cache, reading, 2)
    BY <1>1
  <2> QED
    BY <2>1 DEF Tells, Url
<1>3. ASSUME NEW j \in judged, NEW k \in judged, j.doc.sha = k.doc.sha PROVE j = k
  <2>1. PICK c \in F : j = Judged(c, cache, reading, 2) /\ Tells(j, c, cache, reading, 2)
    BY <1>1
  <2>2. PICK d \in F : k = Judged(d, cache, reading, 2) /\ Tells(k, d, cache, reading, 2)
    BY <1>1
  <2>3. c.doc.sha = d.doc.sha
    BY <1>3, <2>1, <2>2 DEF Tells
  <2> QED
    BY <2>1, <2>2, <2>3
<1> QED
  BY <1>1, <1>2, <1>3

LEMMA ExtraKeeps ==
    ASSUME SearchInv, NEW q \in Queries, Extra(q)
    PROVE  SearchInv'
<1>1. /\ stage[q] = "extra" /\ UNCHANGED <<base, mode, hits, todo>>
      /\ SearchTypes /\ Settled(q) /\ Backed(q) /\ Goto(q, "collapse")
  BY DEF Extra, SearchInv, QueryInv
<1>2. cards[q] \subseteq CaseOf /\ IsFiniteSet(cards[q])
  BY <1>1 DEF SearchTypes
<1>3. ASSUME \A c \in cards[q] : c.verdict \notin Positive,
             NEW F \in OnlineSets(TRUE), NEW failing,
             NEW reading \in Readings(q, F, FetchedAs(failing, F)),
             NEW judged, judged = AllJudged(F, FetchedAs(failing, F), reading, 2),
             NEW kept, kept = {c \in judged : c.verdict \in Positive},
             evidence' = FetchedAs(failing, F),
             truth' = [truth EXCEPT ![q] = reading],
             found' = [found EXCEPT ![q] =
                IF \E c \in kept : c.verdict = "confirmed" THEN "extra" ELSE @],
             NEW T, T = cards[q] \/ T \in Cuts({c \in cards[q] : c.verdict # "not_relevant"} \cup kept),
             Hold(q, T)
      PROVE  SearchInv'
  <2>1. reading \in [Shas -> Tidings]
    BY <1>1, ReadingGrows DEF SearchTypes
  <2>2. /\ evidence' \in [Urls -> {"absent", "fetched", "failed"}]
        /\ \A u \in Urls : evidence[u] = "fetched" => evidence'[u] = "fetched"
    BY <1>1, <1>3, FetchedGrows DEF SearchTypes
  <2>3. /\ kept \subseteq CaseOf /\ IsFiniteSet(kept)
        /\ \A j \in kept : /\ j.level = "ONLINE" /\ j.blocked /\ j.verdict \in Positive
                           /\ j.verdict = "confirmed" =>
                                evidence'[Url(j)] = "fetched" /\ reading[j.doc.sha] = "confirmed"
    <3>1. PICK cache : cache = FetchedAs(failing, F)
      OBVIOUS
    <3>2. /\ judged \subseteq CaseOf /\ IsFiniteSet(judged)
          /\ \A j \in judged : j.level = "ONLINE" /\ j.blocked
          /\ \A j \in judged : j.verdict = "confirmed" =>
               cache[Url(j)] = "fetched" /\ reading[j.doc.sha] = "confirmed"
      <4>1. judged = AllJudged(F, cache, reading, 2)
        BY <1>3, <3>1
      <4>2. /\ F \subseteq CaseOf /\ IsFiniteSet(F) /\ \A c \in F : c.level = "ONLINE"
            /\ \A c, e \in F : c.doc.sha = e.doc.sha => c = e
            /\ \A c \in F : c.blocked
        BY OnlineHolds
      <4> QED
        BY <2>1, <4>1, <4>2, FoundOnline
    <3> QED
      BY <1>3, <3>1, <3>2, FS_Subset
  <2>4. T \subseteq cards[q] \cup kept /\ T \subseteq CaseOf /\ IsFiniteSet(T)
    <3>1. CASE T = cards[q]
      BY <1>2, <3>1
    <3>2. CASE T \in Cuts({c \in cards[q] : c.verdict # "not_relevant"} \cup kept)
      <4>1. PICK some : some = {c \in cards[q] : c.verdict # "not_relevant"}
        OBVIOUS
      <4>2. some \subseteq cards[q] /\ IsFiniteSet(some)
        BY <1>2, <4>1, FS_Subset
      <4>3. IsFiniteSet(some \cup kept)
        BY <2>3, <4>2, FS_Union
      <4>4. T \in Cuts(some \cup kept)
        BY <3>2, <4>1
      <4>5. T \subseteq some \cup kept /\ IsFiniteSet(T)
        BY <4>3, <4>4, CutKeeps
      <4> QED
        BY <1>2, <2>3, <4>2, <4>5
    <3> QED
      BY <1>3, <3>1, <3>2
  <2>5. /\ truth' \in [Queries -> [Shas -> Tidings]] /\ truth'[q] = reading
        /\ found' \in [Queries -> {"nothing", "report", "extra"}]
        /\ found'[q] \in {found[q], "extra"}
        /\ \A p \in Queries \ {q} : truth'[p] = truth[p] /\ found'[p] = found[p]
    BY <1>1, <1>3, <2>1 DEF SearchTypes
  <2>6. /\ SearchTypes' /\ stage'[q] = "collapse" /\ cards'[q] = T /\ mode'[q] = mode[q]
        /\ todo'[q] = todo[q]
        /\ \A p \in Queries \ {q} : stage'[p] = stage[p] /\ cards'[p] = cards[p]
    <3>1. DOMAIN hits' = Queries /\ "collapse" \in Stages /\ UNCHANGED <<base, mode, todo>>
      BY <1>1 DEF SearchTypes, Stages
    <3> QED
      BY <1>1, <1>3, <2>2, <2>4, <2>5, <3>1, HoldTypes
  <2>7. Settled(q)'
    <3>1. found'[q] = "report" /\ mode[q].scoring # "hybrid" => FALSE
      BY <1>1, <1>3, <2>5 DEF Settled, Confirmed, Positive
    <3>2. \A c \in T : c \in cards[q] \/ (c.level = "ONLINE" /\ c.verdict \in Positive)
      BY <2>3, <2>4
    <3> QED
      BY <1>1, <2>6, <3>1, <3>2 DEF Settled, WeakIsLow
  <2>8. Backed(q)'
    <3>1. \A c \in cards[q] : c.verdict # "confirmed"
      BY <1>3 DEF Positive
    <3> QED
      BY <1>1, <2>3, <2>4, <2>5, <2>6, <3>1 DEF Backed
  <2>9. QueryInv(q)'
    BY <2>6, <2>7, <2>8 DEF QueryInv
  <2>10. Apart(q)
    BY <1>1, <2>2, <2>5, <2>6 DEF Apart
  <2> QED
    BY <2>6, <2>9, <2>10, OneMoves
<1>4. ASSUME UNCHANGED <<evidence, truth, found, cards>>
      PROVE  SearchInv'
  <2>1. SearchTypes' /\ stage'[q] = "collapse"
    BY <1>1, <1>4 DEF SearchTypes, Goto, Stages
  <2>2. Settled(q)' /\ Backed(q)'
    BY <1>1, <1>4 DEF Settled, Backed
  <2>3. QueryInv(q)'
    BY <2>1, <2>2 DEF QueryInv
  <2>4. Apart(q)
    BY <1>1, <1>4 DEF Apart, Goto, SearchTypes
  <2> QED
    BY <2>1, <2>3, <2>4, OneMoves
<1>5. cards' = cards => Hold(q, cards[q])
  BY <1>1 DEF Hold, SearchTypes
<1>6. ASSUME \A c \in cards[q] : c.verdict \notin Positive,
             NEW F \in OnlineSets(TRUE), NEW failing,
             NEW reading \in Readings(q, F, FetchedAs(failing, F)),
             NEW kept, kept = {c \in AllJudged(F, FetchedAs(failing, F), reading, 2) : c.verdict \in Positive},
             evidence' = FetchedAs(failing, F),
             truth' = [truth EXCEPT ![q] = reading],
             found' = [found EXCEPT ![q] =
                IF \E c \in kept : c.verdict = "confirmed" THEN "extra" ELSE @],
             IF kept = {} THEN UNCHANGED cards
             ELSE \E T \in Cuts({c \in cards[q] : c.verdict # "not_relevant"} \cup kept) : Hold(q, T)
      PROVE  SearchInv'
  <2>1. PICK T : /\ T = cards[q] \/ T \in Cuts({c \in cards[q] : c.verdict # "not_relevant"} \cup kept)
                 /\ Hold(q, T)
    BY <1>5, <1>6
  <2> QED
    BY <1>3, <1>6, <2>1
<1> QED
  BY <1>4, <1>6 DEF Extra, AllJudged

LEMMA UpstreamKeeps ==
    ASSUME SearchInv, NEW q \in Queries, Upstream(q)
    PROVE  SearchInv'
<1>1. /\ stage[q] = "upstream" /\ UNCHANGED <<base, mode, hits, found, todo>>
      /\ SearchTypes /\ Goto(q, "persist")
      /\ cards[q] = {} /\ todo[q] = <<>> /\ found[q] = "nothing"
  BY DEF Upstream, SearchInv, QueryInv
<1>2. ASSUME NEW F \in OnlineSets(FALSE), NEW failing,
             NEW reading \in Readings(q, F, FetchedAs(failing, F)),
             NEW H, H = {c \in AllJudged(F, FetchedAs(failing, F), reading, 2) : c.verdict \in Positive},
             evidence' = FetchedAs(failing, F),
             truth' = [truth EXCEPT ![q] = reading],
             Hold(q, H)
      PROVE  SearchInv'
  <2>1. reading \in [Shas -> Tidings]
    BY <1>1, ReadingGrows DEF SearchTypes
  <2>2. /\ evidence' \in [Urls -> {"absent", "fetched", "failed"}]
        /\ \A u \in Urls : evidence[u] = "fetched" => evidence'[u] = "fetched"
    BY <1>1, <1>2, FetchedGrows DEF SearchTypes
  <2>3. /\ H \subseteq CaseOf /\ IsFiniteSet(H)
        /\ \A j \in H : j.level = "ONLINE" /\ j.verdict \in Positive
        /\ \A j, k \in H : j.doc.sha = k.doc.sha => j = k
    <3>1. PICK cache : cache = FetchedAs(failing, F)
      OBVIOUS
    <3>2. PICK judged : judged = AllJudged(F, cache, reading, 2)
      OBVIOUS
    <3>3. /\ judged \subseteq CaseOf /\ IsFiniteSet(judged)
          /\ \A j \in judged : j.level = "ONLINE"
          /\ \A j, k \in judged : j.doc.sha = k.doc.sha => j = k
      <4>1. /\ F \subseteq CaseOf /\ IsFiniteSet(F) /\ \A c \in F : c.level = "ONLINE"
            /\ \A c, e \in F : c.doc.sha = e.doc.sha => c = e
        BY OnlineHolds
      <4> QED
        BY <2>1, <3>2, <4>1, FoundOnline
    <3> QED
      BY <1>2, <3>1, <3>2, <3>3, FS_Subset
  <2>4. /\ truth' \in [Queries -> [Shas -> Tidings]]
        /\ \A p \in Queries \ {q} : truth'[p] = truth[p]
    BY <1>1, <1>2, <2>1 DEF SearchTypes
  <2>5. /\ SearchTypes' /\ stage'[q] = "persist" /\ cards'[q] = H /\ mode'[q] = mode[q]
        /\ todo'[q] = todo[q]
        /\ \A p \in Queries \ {q} : stage'[p] = stage[p] /\ cards'[p] = cards[p]
    <3>1. /\ DOMAIN hits' = Queries /\ "persist" \in Stages /\ UNCHANGED <<base, mode, todo>>
          /\ found' \in [Queries -> {"nothing", "report", "extra"}]
      BY <1>1 DEF SearchTypes, Stages
    <3> QED
      BY <1>1, <1>2, <2>2, <2>3, <2>4, <3>1, HoldTypes
  <2>6. Settled(q)' /\ Pending(q)'
    BY <1>1, <2>3, <2>5 DEF Settled, WeakIsLow, Pending
  <2>7. QueryInv(q)'
    BY <2>5, <2>6 DEF QueryInv
  <2>8. Apart(q)
    BY <1>1, <2>2, <2>4, <2>5 DEF Apart
  <2> QED
    BY <2>5, <2>7, <2>8, OneMoves
<1>3. ASSUME UNCHANGED <<evidence, truth, cards>>
      PROVE  SearchInv'
  <2>1. SearchTypes' /\ stage'[q] = "persist"
    BY <1>1, <1>3 DEF SearchTypes, Goto, Stages
  <2>2. Settled(q)' /\ Pending(q)'
    BY <1>1, <1>3 DEF Settled, Pending, WeakIsLow
  <2>3. QueryInv(q)'
    BY <2>1, <2>2 DEF QueryInv
  <2>4. Apart(q)
    BY <1>1, <1>3 DEF Apart, Goto, SearchTypes
  <2> QED
    BY <2>1, <2>3, <2>4, OneMoves
<1> QED
  BY <1>2, <1>3 DEF Upstream, AllJudged

-----------------------------------------------------------------------------
(* One card per patch: the groups of a ranked list.                         *)

Group == [shas : SUBSET Shas, title : {u.title : u \in Urls}, members : SUBSET CaseOf]
Groups == Seq(Group)

\* No two groups share a sha, a group knows the shas of its members, and
\* every card given so far has a group.
Parted(g, X) ==
  /\ \A i \in DOMAIN g : \A c \in g[i].members : c.doc.sha \in g[i].shas
  /\ \A i, j \in DOMAIN g : i # j => g[i].shas \cap g[j].shas = {}
  /\ \A c \in X : \E i \in DOMAIN g : c \in g[i].members

LEMMA JoinsOne ==
    ASSUME NEW g \in Groups, NEW c \in CaseOf, NEW k, k = Joins(g, c)
    PROVE  /\ k = 0 \/ k \in DOMAIN g
           /\ k = 0 \/ c.doc.sha \notin g[k].shas => \A i \in DOMAIN g : c.doc.sha \notin g[i].shas
<1> DEFINE bySha   == {i \in DOMAIN g : c.doc.sha \in g[i].shas}
           byTitle == {i \in DOMAIN g : c.doc.title = g[i].title}
           first(S) == CHOOSE i \in S : \A j \in S : i <= j
<1>1. DOMAIN g \subseteq Nat /\ 0 \notin DOMAIN g
  BY DEF Groups
<1>2. ASSUME NEW S, S \subseteq DOMAIN g, S # {} PROVE first(S) \in S
  <2>1. S \in SUBSET Nat
    BY <1>1, <1>2
  <2>2. \E i \in S : \A j \in S : i <= j
    BY <1>2, <2>1, LeastOf
  <2> QED
    BY <2>2
<1>3. k = IF bySha # {} THEN first(bySha) ELSE IF byTitle # {} THEN first(byTitle) ELSE 0
  BY DEF Joins
<1>4. bySha # {} => first(bySha) \in bySha
  <2> HIDE DEF first
  <2> QED
    BY <1>2
<1>5. byTitle # {} => first(byTitle) \in byTitle
  <2> HIDE DEF first
  <2> QED
    BY <1>2
<1>6. k \in bySha \/ (bySha = {} /\ (k \in byTitle \/ k = 0))
  <2> HIDE DEF first, bySha, byTitle
  <2> QED
    BY <1>3, <1>4, <1>5
<1> QED
  BY <1>1, <1>6

\* h is g with the card c in the group k, a new one at the end if k is 0.
Grown(h, g, c, k) ==
  /\ k = 0 => /\ DOMAIN h = DOMAIN g \cup {Len(g) + 1} /\ Len(g) + 1 \notin DOMAIN g
              /\ \A i \in DOMAIN g : h[i] = g[i]
              /\ h[Len(g) + 1].shas = {c.doc.sha} /\ h[Len(g) + 1].members = {c}
  /\ k # 0 => /\ DOMAIN h = DOMAIN g /\ k \in DOMAIN g
              /\ \A i \in DOMAIN g \ {k} : h[i] = g[i]
              /\ h[k].shas = g[k].shas \cup {c.doc.sha}
              /\ h[k].members = g[k].members \cup {c}

LEMMA AddCardTyped ==
    ASSUME NEW g, g \in Groups, NEW c, c \in CaseOf, NEW h, h = AddCard(g, c)
    PROVE  h \in Groups /\ Grown(h, g, c, Joins(g, c))
<1>0. PICK k : k = Joins(g, c)
  OBVIOUS
<1>1. c.doc.sha \in Shas /\ c.doc.title \in {u.title : u \in Urls}
  BY DEF CaseOf, Docs
<1>2. CASE k = 0
  <2>1. PICK new : new = [shas |-> {c.doc.sha}, title |-> c.doc.title, members |-> {c}]
    OBVIOUS
  <2>2. h = Append(g, new)
    BY <1>0, <1>2, <2>1 DEF AddCard
  <2>3. new \in Group
    BY <1>1, <2>1 DEF Group
  <2>4. new.shas = {c.doc.sha} /\ new.members = {c}
    BY <2>1
  <2> QED
    BY <1>0, <1>2, <2>2, <2>3, <2>4 DEF Groups, Grown
<1>3. CASE k # 0
  <2>1. k \in DOMAIN g
    BY <1>0, <1>3, JoinsOne
  <2>2. PICK new : new = [g[k] EXCEPT !.shas = @ \cup {c.doc.sha}, !.members = @ \cup {c}]
    OBVIOUS
  <2>3. h = [g EXCEPT ![k] = new]
    BY <1>0, <1>3, <2>1, <2>2 DEF AddCard
  <2>4. g[k] \in Group
    BY <2>1 DEF Groups
  <2>5. /\ new \in Group
        /\ new.shas = g[k].shas \cup {c.doc.sha} /\ new.members = g[k].members \cup {c}
    BY <1>1, <2>2, <2>4 DEF Group
  <2> QED
    BY <1>0, <1>3, <2>1, <2>3, <2>5 DEF Groups, Grown
<1> QED
  BY <1>2, <1>3

LEMMA AddCardParts ==
    ASSUME NEW g \in Groups, NEW c \in CaseOf, NEW X, Parted(g, X), NEW h, h = AddCard(g, c)
    PROVE  Parted(h, X \cup {c})
<1>1. PICK k : k = Joins(g, c)
  OBVIOUS
<1>g. Grown(h, g, c, k)
  BY <1>1, AddCardTyped
<1>2. k = 0 \/ c.doc.sha \notin g[k].shas => \A i \in DOMAIN g : c.doc.sha \notin g[i].shas
  BY <1>1, JoinsOne
<1>3. CASE k = 0
  <2>1. /\ DOMAIN h = DOMAIN g \cup {Len(g) + 1} /\ Len(g) + 1 \notin DOMAIN g
        /\ \A i \in DOMAIN g : h[i] = g[i]
        /\ h[Len(g) + 1].shas = {c.doc.sha} /\ h[Len(g) + 1].members = {c}
    BY <1>3, <1>g DEF Grown
  <2> QED
    BY <1>2, <1>3, <2>1 DEF Parted
<1>4. CASE k # 0
  <2>1. /\ DOMAIN h = DOMAIN g /\ k \in DOMAIN g
        /\ \A i \in DOMAIN g \ {k} : h[i] = g[i]
        /\ h[k].shas = g[k].shas \cup {c.doc.sha}
        /\ h[k].members = g[k].members \cup {c}
    BY <1>4, <1>g DEF Grown
  <2>2. \A i \in DOMAIN g \ {k} : c.doc.sha \notin g[i].shas
    BY <1>2, <1>4, <2>1 DEF Parted
  <2>3. \A i \in DOMAIN h : \A d \in h[i].members : d.doc.sha \in h[i].shas
    BY <2>1 DEF Parted
  <2>4. \A i, j \in DOMAIN h : i # j => h[i].shas \cap h[j].shas = {}
    BY <2>1, <2>2 DEF Parted
  <2>5. \A d \in X \cup {c} : \E i \in DOMAIN h : d \in h[i].members
    BY <2>1 DEF Parted
  <2> QED
    BY <2>3, <2>4, <2>5 DEF Parted
<1> QED
  BY <1>3, <1>4

LEMMA GroupedHolds ==
    ASSUME NEW l \in Seq(CaseOf)
    PROVE  Grouped(l) \in Groups /\ Parted(Grouped(l), Range(l))
<1> DEFINE N == Len(l)
           Fcn(f) == [n \in 0 .. N |-> IF n = 0 THEN <<>> ELSE AddCard(f[n - 1], l[n])]
           of == CHOOSE f : f = Fcn(f)
           step == [p \in (1 .. N) \X Groups |-> AddCard(p[2], l[p[1]])]
           Some(n) == {l[i] : i \in 1 .. n}
           Holds == {n \in 0 .. N : of[n] \in Groups /\ Parted(of[n], Some(n))}
<1>0. N \in Nat /\ <<>> \in Groups /\ Parted(<<>>, {})
  BY DEF Groups, Parted
<1>1. \A i \in 1 .. N : l[i] \in CaseOf
  OBVIOUS
<1>2. step \in [(1 .. N) \X Groups -> Groups]
  BY <1>1, AddCardTyped
<1>3. PICK g : Walks(g, Groups, <<>>, N, step)
  <2> HIDE DEF step, N
  <2> QED
    BY <1>0, <1>2, Recursion
<1>4. g = Fcn(g)
  <2>1. \A i \in 1 .. N : g[i] = AddCard(g[i - 1], l[i])
    <3>1. \A i \in 1 .. N, x \in Groups : step[<<i, x>>] = AddCard(x, l[i])
      OBVIOUS
    <3> HIDE DEF step, N
    <3>2. ASSUME NEW i \in 1 .. N PROVE i - 1 \in 0 .. N /\ g[i - 1] \in Groups
      BY <1>0, <1>3 DEF Walks
    <3> QED
      BY <1>3, <3>1, <3>2 DEF Walks
  <2>2. DOMAIN g = 0 .. N /\ g = [i \in 0 .. N |-> g[i]] /\ g[0] = <<>>
    BY <1>3 DEF Walks
  <2> QED
    BY <1>0, <2>1, <2>2
<1>5. of = Fcn(of)
  <2> HIDE DEF Fcn
  <2> QED
    BY <1>4
<1>6. of[0] = <<>> /\ \A i \in 1 .. N : of[i] = AddCard(of[i - 1], l[i])
  <2> HIDE DEF of
  <2> QED
    BY <1>0, <1>5
<1> HIDE DEF of
<1>7. 0 \in Holds
  <2>1. Some(0) = {}
    OBVIOUS
  <2> HIDE DEF Some
  <2>2. of[0] \in Groups /\ Parted(of[0], Some(0))
    BY <1>0, <1>6, <2>1
  <2> QED
    BY <1>0, <2>2
<1>8. ASSUME NEW n \in 1 .. N, n - 1 \in Holds PROVE n \in Holds
  <2>1. /\ n \in 0 .. N /\ of[n] = AddCard(of[n - 1], l[n]) /\ of[n - 1] \in Groups
        /\ Parted(of[n - 1], Some(n - 1)) /\ l[n] \in CaseOf
    BY <1>0, <1>1, <1>6, <1>8
  <2>2. Some(n) = Some(n - 1) \cup {l[n]}
    <3>1. 1 .. n = 1 .. (n - 1) \cup {n}
      BY <1>0
    <3> QED
      BY <3>1
  <2> HIDE DEF Some
  <2>3. of[n] \in Groups
    BY <2>1, AddCardTyped
  <2>4. Parted(of[n], Some(n - 1) \cup {l[n]})
    BY <2>1, AddCardParts
  <2> QED
    BY <2>1, <2>2, <2>3, <2>4
<1>9. N \in Holds
  <2> HIDE DEF Holds
  <2>1. \A n \in 1 .. N : n - 1 \in Holds => n \in Holds
    BY <1>8
  <2> QED
    BY <1>0, <1>7, <2>1, InductionUpTo
<1>10. Some(N) = Range(l)
  BY <1>0 DEF Range
<1>11. Grouped(l) = of[N]
  BY DEF Grouped, of
<1> QED
  BY <1>9, <1>10, <1>11

LEMMA CollapsedHolds ==
    ASSUME NEW S, S \subseteq CaseOf, IsFiniteSet(S), NEW T, T \in Collapsed(S)
    PROVE  /\ T \subseteq S
           /\ \A c, d \in T : c.doc.sha = d.doc.sha => c = d
           /\ Confirmed(S) => Confirmed(T)
<1>1. PICK l \in Listings(S) :
        \E p \in [DOMAIN Grouped(l) -> S] :
          /\ T = {p[i] : i \in DOMAIN Grouped(l)}
          /\ \A i \in DOMAIN Grouped(l) :
               /\ p[i] \in Grouped(l)[i].members
               /\ \A d \in Grouped(l)[i].members : Better(p[i], d)
  BY DEF Collapsed
<1>2. PICK g : g = Grouped(l)
  OBVIOUS
<1>3. PICK p \in [DOMAIN g -> S] :
        /\ T = {p[i] : i \in DOMAIN g}
        /\ \A i \in DOMAIN g :
             /\ p[i] \in g[i].members
             /\ \A d \in g[i].members : Better(p[i], d)
  BY <1>1, <1>2
<1>4. l \in Seq(CaseOf) /\ Range(l) = S
  <2>1. Cardinality(S) \in Nat
    BY FS_CardinalityType
  <2>2. l \in [1 .. Cardinality(S) -> CaseOf] /\ Range(l) = S
    BY DEF Listings
  <2> QED
    BY <2>1, <2>2
<1>5. Parted(g, S)
  BY <1>2, <1>4, GroupedHolds
<1>6. ASSUME NEW c \in T, NEW d \in T, c.doc.sha = d.doc.sha PROVE c = d
  <2>1. PICK i \in DOMAIN g : c = p[i]
    BY <1>3
  <2>2. PICK j \in DOMAIN g : d = p[j]
    BY <1>3
  <2>3. c.doc.sha \in g[i].shas /\ c.doc.sha \in g[j].shas
    BY <1>3, <1>5, <1>6, <2>1, <2>2 DEF Parted
  <2>4. i = j
    BY <1>5, <2>3 DEF Parted
  <2> QED
    BY <2>1, <2>2, <2>4
<1>7. ASSUME NEW c \in S, c.verdict = "confirmed" PROVE Confirmed(T)
  <2>1. PICK i \in DOMAIN g : c \in g[i].members
    BY <1>5 DEF Parted
  <2>2. Better(p[i], c) /\ p[i] \in T
    BY <1>3, <2>1
  <2>3. p[i].verdict = "confirmed"
    BY <1>7, <2>2 DEF Better
  <2> QED
    BY <2>2, <2>3 DEF Confirmed
<1> QED
  BY <1>3, <1>6, <1>7 DEF Confirmed

LEMMA CollapseKeeps ==
    ASSUME SearchInv, NEW q \in Queries, Collapse(q)
    PROVE  SearchInv'
<1>1. /\ stage[q] = "collapse" /\ UNCHANGED <<base, evidence, mode, truth, hits, found>>
      /\ SearchTypes /\ Settled(q) /\ Backed(q) /\ Goto(q, "persist")
  BY DEF Collapse, SearchInv, QueryInv
<1>2. PICK S \in Collapsed(cards[q]) :
        Hold(q, S) /\ \E l \in Listings(ToPersist(S)) : todo' = [todo EXCEPT ![q] = l]
  BY DEF Collapse
<1>3. PICK l \in Listings(ToPersist(S)) : todo' = [todo EXCEPT ![q] = l]
  BY <1>2
<1>4. cards[q] \subseteq CaseOf /\ IsFiniteSet(cards[q])
  BY <1>1 DEF SearchTypes
<1>5. /\ S \subseteq cards[q] /\ \A c, d \in S : c.doc.sha = d.doc.sha => c = d
      /\ Confirmed(cards[q]) => Confirmed(S)
  BY <1>4, CollapsedHolds
<1>6. S \subseteq CaseOf /\ IsFiniteSet(S)
  BY <1>4, <1>5, FS_Subset
<1>7. l \in Seq(CaseOf) /\ \A i \in DOMAIN l : l[i] \in ToPersist(S)
  <2>1. PICK P : P = ToPersist(S)
    OBVIOUS
  <2>2. P \subseteq CaseOf /\ IsFiniteSet(P)
    BY <1>6, <2>1, FS_Subset DEF ToPersist
  <2>3. Cardinality(P) \in Nat
    BY <2>2, FS_CardinalityType
  <2>4. l \in [1 .. Cardinality(P) -> P]
    BY <2>1 DEF Listings
  <2> QED
    BY <2>1, <2>2, <2>3, <2>4
<1>8. SearchTypes' /\ stage'[q] = "persist" /\ cards'[q] = S /\ todo'[q] = l
  BY <1>1, <1>2, <1>3, <1>6, <1>7 DEF SearchTypes, Hold, Goto, Stages
<1>9. Settled(q)'
  BY <1>1, <1>5, <1>8 DEF Settled, WeakIsLow
<1>10. Pending(q)'
  <2>1. ASSUME NEW i \in DOMAIN l
        PROVE  /\ ~hits[q] /\ evidence[Url(l[i])] = "fetched"
               /\ truth[q][l[i].doc.sha] = "confirmed"
    BY <1>1, <1>5, <1>7 DEF ToPersist, Backed
  <2> QED
    BY <1>1, <1>5, <1>8, <2>1 DEF Pending
<1>11. QueryInv(q)'
  BY <1>8, <1>9, <1>10 DEF QueryInv
<1>12. Apart(q)
  BY <1>1, <1>2, <1>3 DEF Apart, Hold, Goto, SearchTypes
<1> QED
  BY <1>8, <1>11, <1>12, OneMoves

LEMMA TailHolds ==
    ASSUME NEW l \in Seq(CaseOf), l # <<>>
    PROVE  /\ Head(l) \in CaseOf /\ Tail(l) \in Seq(CaseOf)
           /\ \A i \in DOMAIN Tail(l) : i + 1 \in DOMAIN l /\ Tail(l)[i] = l[i + 1]
OBVIOUS

\* A query goes on with the rest of what it has to write.
LEMMA PendingRest ==
    ASSUME SearchInv, NEW q \in Queries, stage[q] \in {"persist", "create"}, todo[q] # <<>>,
           UNCHANGED <<evidence, mode, truth, cards, hits, found>>,
           todo' = [todo EXCEPT ![q] = Tail(@)], stage'[q] = "persist",
           stage' \in [Queries -> Stages],
           \A p \in Queries \ {q} : stage'[p] = stage[p],
           base' \subseteq Docs, IsFiniteSet(base')
    PROVE  SearchInv'
<1>1. SearchTypes /\ Settled(q) /\ Pending(q) /\ todo[q] \in Seq(CaseOf)
  BY DEF SearchInv, SearchTypes, QueryInv
<1>2. /\ Tail(todo[q]) \in Seq(CaseOf)
      /\ \A i \in DOMAIN Tail(todo[q]) : i + 1 \in DOMAIN todo[q] /\ Tail(todo[q])[i] = todo[q][i + 1]
  BY <1>1, TailHolds
<1>3. SearchTypes' /\ todo'[q] = Tail(todo[q])
  BY <1>1, <1>2 DEF SearchTypes
<1>4. Settled(q)'
  BY <1>1 DEF Settled
<1>5. Pending(q)'
  <2>1. PICK l : l = Tail(todo[q])
    OBVIOUS
  <2>2. \A i \in DOMAIN l : \E j \in DOMAIN todo[q] : l[i] = todo[q][j]
    BY <1>2, <2>1
  <2>3. todo'[q] = l
    BY <1>3, <2>1
  <2> QED
    BY <1>1, <2>2, <2>3 DEF Pending
<1>6. QueryInv(q)'
  BY <1>4, <1>5 DEF QueryInv
<1>7. Apart(q)
  BY <1>1 DEF Apart, SearchTypes
<1> QED
  BY <1>3, <1>6, <1>7, OneMoves

LEMMA CheckStoredKeeps ==
    ASSUME SearchInv, NEW q \in Queries, CheckStored(q)
    PROVE  SearchInv'
<1>1. /\ stage[q] = "persist" /\ todo[q] # <<>> /\ SearchTypes
      /\ UNCHANGED <<base, evidence, mode, truth, cards, hits, found>>
  BY DEF CheckStored, SearchInv
<1>2. CASE todo' = [todo EXCEPT ![q] = Tail(@)] /\ UNCHANGED stage
  <2>1. /\ base' \subseteq Docs /\ IsFiniteSet(base') /\ stage' \in [Queries -> Stages]
        /\ stage'[q] = "persist"
    BY <1>1, <1>2 DEF SearchTypes
  <2> QED
    BY <1>1, <1>2, <2>1, PendingRest
<1>3. CASE Goto(q, "create") /\ UNCHANGED todo
  <2>1. SearchTypes' /\ stage'[q] = "create"
    BY <1>1, <1>3 DEF SearchTypes, Goto, Stages
  <2>2. Settled(q)' /\ Pending(q)'
    BY <1>1, <1>3 DEF Settled, Pending, SearchInv, QueryInv
  <2>3. QueryInv(q)'
    BY <1>1, <1>3, <2>1, <2>2 DEF QueryInv
  <2>4. Apart(q)
    BY <1>1, <1>3 DEF Apart, Goto, SearchTypes
  <2> QED
    BY <2>1, <2>3, <2>4, OneMoves
<1> QED
  BY <1>2, <1>3 DEF CheckStored

LEMMA CreateKeeps ==
    ASSUME SearchInv, NEW q \in Queries, Create(q)
    PROVE  SearchInv'
<1>1. /\ stage[q] = "create" /\ todo[q] # <<>> /\ SearchTypes
      /\ UNCHANGED <<evidence, mode, truth, cards, hits, found>>
      /\ todo' = [todo EXCEPT ![q] = Tail(@)] /\ Goto(q, "persist")
  BY DEF Create, SearchInv, QueryInv
<1>2. PICK d : d = Head(todo[q]).doc
  OBVIOUS
<1>3. d \in Docs
  <2>1. Head(todo[q]) \in CaseOf
    BY <1>1, TailHolds DEF SearchTypes
  <2> QED
    BY <1>2, <2>1 DEF CaseOf
<1>4. base' \subseteq Docs /\ IsFiniteSet(base')
  <2>1. base \subseteq Docs /\ IsFiniteSet(base)
    BY <1>1 DEF SearchTypes
  <2>2. CASE UNCHANGED base
    BY <2>1, <2>2
  <2>3. CASE base' = base \cup {[sha |-> d.sha, title |-> d.title,
                                 copy |-> Cardinality(Stored(d.sha)) + 1]}
    <3>1. IsFiniteSet(Stored(d.sha)) /\ Cardinality(Stored(d.sha)) \in Nat
      BY <2>1, FS_Subset, FS_CardinalityType DEF Stored
    <3>2. PICK new : new = [sha |-> d.sha, title |-> d.title,
                            copy |-> Cardinality(Stored(d.sha)) + 1]
      OBVIOUS
    <3>3. new \in Docs
      BY <1>3, <3>1, <3>2 DEF Docs
    <3>4. IsFiniteSet(base \cup {new})
      BY <2>1, FS_AddElement
    <3> QED
      BY <2>1, <2>3, <3>2, <3>3, <3>4
  <2> QED
    BY <1>2, <2>2, <2>3 DEF Create
<1>5. /\ stage' \in [Queries -> Stages] /\ stage'[q] = "persist"
      /\ \A p \in Queries \ {q} : stage'[p] = stage[p]
  BY <1>1 DEF SearchTypes, Goto, Stages
<1> QED
  BY <1>1, <1>4, <1>5, PendingRest

LEMMA ReplyKeeps ==
    ASSUME SearchInv, NEW q \in Queries, Reply(q)
    PROVE  SearchInv'
<1>1. SearchTypes
  BY DEF SearchInv
<1>2. [s \in Shas |-> "unread"] \in [Shas -> Tidings]
  BY DEF Tidings
<1>3. NoMode \in [scoring : {"keyword", "llm", "hybrid"}, verify : BOOLEAN]
  BY DEF NoMode
<1>4. {} \in SUBSET CaseOf /\ IsFiniteSet({})
  BY FS_EmptySet
<1>5. SearchTypes'
  BY <1>1, <1>2, <1>3, <1>4 DEF SearchTypes, Reply, Hold, Goto, Stages
<1>6. stage'[q] = "done" /\ todo'[q] = <<>>
  BY <1>1 DEF Reply, Goto, SearchTypes
<1>7. QueryInv(q)'
  BY <1>6 DEF QueryInv
<1>8. Apart(q)
  BY <1>1 DEF Apart, Reply, Hold, Goto, SearchTypes
<1> QED
  BY <1>5, <1>7, <1>8, OneMoves

LEMMA SearchInvStep == SearchInv /\ [SearchNext]_searchVars => SearchInv'
<1>1. ASSUME SearchInv, NEW q \in Queries,
             \/ Ask(q) \/ FirstLevel(q) \/ Wider(q) \/ Select(q) \/ Rescore(q)
             \/ Verify(q) \/ Extra(q) \/ Collapse(q) \/ Upstream(q)
             \/ CheckStored(q) \/ Create(q) \/ Reply(q)
      PROVE  SearchInv'
  BY <1>1, AskKeeps, FirstLevelKeeps, WiderKeeps, SelectKeeps, RescoreKeeps, VerifyKeeps,
     ExtraKeeps, CollapseKeeps, UpstreamKeeps, CheckStoredKeeps, CreateKeeps, ReplyKeeps
<1>2. ASSUME SearchInv, UNCHANGED searchVars PROVE SearchInv'
  BY <1>2 DEF searchVars, SearchInv, SearchTypes, QueryInv, Unjudged, Settled, Backed, Pending
<1> QED
  BY <1>1, <1>2 DEF SearchNext

LEMMA SearchInvInit == SearchInit => SearchInv
<1> SUFFICES ASSUME SearchInit PROVE SearchInv
  OBVIOUS
<1>1. base \subseteq Docs /\ IsFiniteSet(base)
  <2> DEFINE New(d) == [sha |-> d.sha, title |-> d.title, copy |-> 0]
             g == [d \in Seeds |-> New(d)]
  <2>1. base = Range(g)
    BY DEF SearchInit, Range
  <2>2. IsFiniteSet(Range(g))
    BY SearchAssumption, RangeIsFinite
  <2>3. ASSUME NEW d \in Seeds PROVE New(d) \in Docs
    <3>1. d \in Urls /\ d = [sha |-> d.sha, title |-> d.title]
      BY SearchAssumption DEF Urls
    <3>2. d.sha \in Shas /\ d.title \in {u.title : u \in Urls}
      BY <3>1 DEF Shas, Urls
    <3> QED
      BY <3>1, <3>2 DEF Docs
  <2> QED
    BY <2>1, <2>2, <2>3 DEF SearchInit
<1>2. /\ [s \in Shas |-> "unread"] \in [Shas -> Tidings]
      /\ {} \in SUBSET CaseOf /\ IsFiniteSet({}) /\ <<>> \in Seq(CaseOf)
      /\ NoMode \in [scoring : {"keyword", "llm", "hybrid"}, verify : BOOLEAN]
  BY FS_EmptySet DEF Tidings, NoMode
<1>3. SearchTypes
  BY <1>1, <1>2 DEF SearchInit, SearchTypes, Stages
<1> QED
  BY <1>3 DEF SearchInit, SearchInv, QueryInv

\* Whatever a search recalls and scores, however its queries interleave and
\* whatever fails to be fetched or written: the cards of a report, and those
\* written back to the knowledge base, are what the evidence supports.
THEOREM CardsStaySound == Spec => []CardsAreSound
<1>1. Init => SearchInv
  BY SearchInvInit DEF Init
<1>2. SearchInv /\ [Next]_vars => SearchInv'
  <2>1. [Next]_vars => [SearchNext]_searchVars
    BY DEF Next, OfCommunity, OfIssues, OfFeatures, OfReport, OfBlock, vars, searchVars
  <2> QED
    BY <2>1, SearchInvStep
<1>3. SearchInv => CardsAreSound
  <2> SUFFICES ASSUME SearchInv PROVE CardsAreSound
    OBVIOUS
  <2>1. \A q \in Queries : QueryInv(q) /\ (Reported(q) => Settled(q) /\ Pending(q))
    BY DEF SearchInv, QueryInv, Reported
  <2>2. OnlyVerifiedOnline /\ WeakNeverStrong /\ OneCardPerCommit
    BY <2>1 DEF OnlyVerifiedOnline, WeakNeverStrong, OneCardPerCommit, Settled, Pending, WeakIsLow
  <2>3. ConfirmedReachesReport
    BY <2>1 DEF ConfirmedReachesReport, Settled, Confirmed, TopVerdict
  <2>4. NoSelfReinforcement
    <3> SUFFICES ASSUME NEW q \in Queries, NEW i \in DOMAIN todo[q]
                 PROVE  /\ ~hits[q] /\ evidence[Url(todo[q][i])] = "fetched"
                        /\ truth[q][todo[q][i].doc.sha] = "confirmed"
      BY DEF NoSelfReinforcement
    <3>1. todo[q] # <<>>
      OBVIOUS
    <3>2. stage[q] \in {"persist", "create"}
      BY <3>1 DEF SearchInv, SearchTypes, QueryInv, Unjudged, Backed, Stages
    <3> QED
      BY <3>2 DEF SearchInv, QueryInv, Pending
  <2> QED
    BY <2>2, <2>3, <2>4 DEF CardsAreSound
<1> QED
  BY <1>1, <1>2, <1>3, PTL DEF Spec

-----------------------------------------------------------------------------
(* The features of a kernel log.                                            *)

ReportLine == [kind : Kinds, report : Nat]
Bug(s, i) == s[i].kind = "bug"

\* Reports follow one another, each from its bug line on.
InReports(s) ==
    /\ \A i, j \in DOMAIN s : i <= j => s[i].report <= s[j].report
    /\ \A i, j \in DOMAIN s : i < j /\ Bug(s, j) => s[i].report < s[j].report
    /\ \A i, j \in DOMAIN s : i < j /\ s[i].report < s[j].report =>
         \E k \in DOMAIN s : i < k /\ k <= j /\ Bug(s, k)

\* The next line belongs to the report that is open or opens one.
LogIsOpen ==
    /\ \A i \in DOMAIN lines : lines[i].report <= Reports
    /\ \A i \in DOMAIN lines : lines[i].report < Reports => \E k \in DOMAIN lines : i < k /\ Bug(lines, k)

LogInv ==
    /\ lines \in Seq(ReportLine) /\ InReports(lines)
    /\ cfAt = "start" => lines = <<>>
    /\ cfAt \in {"start", "log"} => LogIsOpen
    /\ FeaturesOfOneReport

LEMMA ReadLineKeeps == LogInv /\ ReadLine => LogInv'
<1> SUFFICES ASSUME LogInv, ReadLine PROVE LogInv'
  OBVIOUS
<1>1. /\ cfAt = "log" /\ cfAt' = "log" /\ lines \in Seq(ReportLine) /\ InReports(lines) /\ LogIsOpen
  BY DEF LogInv, ReadLine
<1> DEFINE B == {i \in DOMAIN lines : lines[i].kind = "bug"}
           n == Len(lines) + 1
<1>2. PICK kind \in Kinds : lines' = Append(lines, [kind |-> kind, report |-> Reports + IF kind = "bug" THEN 1 ELSE 0])
  BY DEF ReadLine
<1>3. IsFiniteSet(B) /\ Reports \in Nat /\ Reports = Cardinality(B)
  <2>1. IsFiniteSet(1 .. Len(lines)) /\ B \subseteq 1 .. Len(lines)
    BY <1>1, FS_Interval
  <2>2. IsFiniteSet(B)
    BY <2>1, FS_Subset
  <2> QED
    BY <2>2, FS_CardinalityType DEF Reports
<1>r. PICK r : r = Reports + IF kind = "bug" THEN 1 ELSE 0
  OBVIOUS
<1>s. r \in Nat
  BY <1>3, <1>r
<1>4. /\ lines' \in Seq(ReportLine) /\ DOMAIN lines' = DOMAIN lines \cup {n} /\ DOMAIN lines = 1 .. Len(lines)
      /\ \A i \in DOMAIN lines : lines'[i] = lines[i] /\ i < n /\ lines[i].report \in Nat
      /\ lines'[n] = [kind |-> kind, report |-> r] /\ n \in Nat /\ n \notin DOMAIN lines /\ r \in Nat
  <2>1. PICK new : new = [kind |-> kind, report |-> r]
    OBVIOUS
  <2>2. lines' = Append(lines, new)
    BY <1>2, <1>r, <2>1
  <2>3. new \in ReportLine
    BY <1>s, <2>1 DEF ReportLine
  <2>4. /\ lines' \in Seq(ReportLine) /\ DOMAIN lines' = DOMAIN lines \cup {n} /\ DOMAIN lines = 1 .. Len(lines)
        /\ \A i \in DOMAIN lines : lines'[i] = lines[i] /\ i < n /\ lines[i] \in ReportLine
        /\ lines'[n] = new /\ n \in Nat /\ n \notin DOMAIN lines
    BY <1>1, <2>2, <2>3
  <2>5. \A l \in ReportLine : l.report \in Nat
    BY DEF ReportLine
  <2> QED
    BY <1>s, <2>1, <2>4, <2>5
<1>5. Reports' = r
  <2>1. Reports' = Cardinality({i \in DOMAIN lines' : lines'[i].kind = "bug"})
    BY DEF Reports
  <2>2. CASE kind = "bug"
    <3>1. {i \in DOMAIN lines' : lines'[i].kind = "bug"} = B \cup {n} /\ n \notin B
      BY <1>4, <2>2
    <3> HIDE DEF B
    <3>2. Cardinality(B \cup {n}) = Cardinality(B) + 1
      BY <1>3, <3>1, FS_AddElement
    <3> QED
      BY <1>3, <1>r, <1>s, <2>1, <2>2, <3>1, <3>2
  <2>3. CASE kind # "bug"
    <3>1. {i \in DOMAIN lines' : lines'[i].kind = "bug"} = B
      BY <1>4, <2>3
    <3>2. Reports' = Cardinality(B)
      BY <2>1, <3>1
    <3> QED
      BY <1>3, <1>r, <2>3, <3>2
  <2> QED
    BY <2>2, <2>3
<1> HIDE DEF n, B
<1>6. \A i \in DOMAIN lines : lines[i].report <= r /\ (Bug(lines, i) <=> Bug(lines', i))
  BY <1>1, <1>3, <1>4, <1>r, <1>s DEF LogIsOpen, Bug
<1>b. \A i \in DOMAIN lines : lines[i].report < r => \E k \in DOMAIN lines' : i < k /\ Bug(lines', k)
  <2> SUFFICES ASSUME NEW i \in DOMAIN lines, lines[i].report < r
               PROVE  \E k \in DOMAIN lines' : i < k /\ Bug(lines', k)
    OBVIOUS
  <2>1. CASE kind = "bug"
    BY <1>4, <2>1 DEF Bug
  <2>2. CASE kind # "bug"
    <3>1. r = Reports
      BY <1>3, <1>r, <1>s, <2>2
    <3> QED
      BY <1>1, <1>4, <1>6, <3>1 DEF LogIsOpen
  <2> QED
    BY <2>1, <2>2
<1>7. InReports(lines')
  <2>1. ASSUME NEW i \in DOMAIN lines', NEW j \in DOMAIN lines', i <= j PROVE lines'[i].report <= lines'[j].report
    BY <1>1, <1>4, <1>6, <2>1 DEF InReports
  <2>2. ASSUME NEW i \in DOMAIN lines', NEW j \in DOMAIN lines', i < j, Bug(lines', j)
        PROVE  lines'[i].report < lines'[j].report
    <3>1. CASE j \in DOMAIN lines
      <4>1. i \in DOMAIN lines
        BY <1>4, <2>2, <3>1
      <4> QED
        BY <1>1, <1>4, <1>6, <2>2, <3>1, <4>1 DEF InReports
    <3>2. CASE j = n
      <4>1. i \in DOMAIN lines /\ kind = "bug"
        BY <1>4, <2>2, <3>2 DEF Bug
      <4> QED
        BY <1>1, <1>3, <1>4, <1>r, <1>s, <3>2, <4>1 DEF LogIsOpen
    <3> QED
      BY <1>4, <3>1, <3>2
  <2>3. ASSUME NEW i \in DOMAIN lines', NEW j \in DOMAIN lines', i < j, lines'[i].report < lines'[j].report
        PROVE  \E k \in DOMAIN lines' : i < k /\ k <= j /\ Bug(lines', k)
    <3>1. CASE j \in DOMAIN lines
      <4>1. i \in DOMAIN lines
        BY <1>4, <2>3, <3>1
      <4>2. PICK k \in DOMAIN lines : i < k /\ k <= j /\ Bug(lines, k)
        BY <1>1, <1>4, <2>3, <3>1, <4>1 DEF InReports
      <4> QED
        BY <1>4, <1>6, <4>2
    <3>2. CASE j = n
      <4>1. i \in DOMAIN lines /\ lines[i].report < r
        BY <1>4, <2>3, <3>2
      <4>2. PICK k \in DOMAIN lines' : i < k /\ Bug(lines', k)
        BY <1>b, <4>1
      <4>3. k <= j
        BY <1>4, <3>2, <4>2
      <4> QED
        BY <4>2, <4>3
    <3> QED
      BY <1>4, <3>1, <3>2
  <2> QED
    BY <2>1, <2>2, <2>3 DEF InReports
<1>8. LogIsOpen'
  <2>1. \A i \in DOMAIN lines' : lines'[i].report <= r
    BY <1>4, <1>6
  <2>2. \A i \in DOMAIN lines' : lines'[i].report < r => \E k \in DOMAIN lines' : i < k /\ Bug(lines', k)
    BY <1>4, <1>b
  <2> QED
    BY <1>5, <2>1, <2>2 DEF LogIsOpen, Bug
<1> QED
  BY <1>1, <1>4, <1>7, <1>8 DEF LogInv, FeaturesOfOneReport

\* A window of time keeps lines in their order, from some line on all that open a report.
KeptOf(s, in, n) ==
    /\ s \in Seq(ReportLine)
    /\ \E f \in [1 .. Len(s) -> in \cap 1 .. n] :
         /\ \A i \in 1 .. Len(s) : s[i] = lines[f[i]]
         /\ \A i, j \in 1 .. Len(s) : i < j => f[i] < f[j]
         /\ \A k \in in \cap 1 .. n : \E i \in 1 .. Len(s) : f[i] = k

LEMMA WithLineTyped ==
    ASSUME NEW s \in Seq(ReportLine), lines \in Seq(ReportLine), NEW in, NEW n \in 1 .. Len(lines)
    PROVE  WithLine(s, in, n) \in Seq(ReportLine)
BY DEF WithLine

LEMMA WithLineKeeps ==
    ASSUME lines \in Seq(ReportLine), NEW in, NEW n \in 1 .. Len(lines), NEW s, KeptOf(s, in, n - 1)
    PROVE  KeptOf(WithLine(s, in, n), in, n)
<1>1. s \in Seq(ReportLine) /\ Len(s) \in Nat /\ n \in Nat
  BY DEF KeptOf
<1>2. PICK f \in [1 .. Len(s) -> in \cap 1 .. n - 1] :
         /\ \A i \in 1 .. Len(s) : s[i] = lines[f[i]]
         /\ \A i, j \in 1 .. Len(s) : i < j => f[i] < f[j]
         /\ \A k \in in \cap 1 .. n - 1 : \E i \in 1 .. Len(s) : f[i] = k
  BY DEF KeptOf
<1>3. CASE n \notin in
  <2>1. WithLine(s, in, n) = s /\ in \cap 1 .. n = in \cap 1 .. n - 1
    BY <1>1, <1>3 DEF WithLine
  <2>2. f \in [1 .. Len(s) -> in \cap 1 .. n]
    BY <1>2, <2>1
  <2>3. \A k \in in \cap 1 .. n : \E i \in 1 .. Len(s) : f[i] = k
    BY <1>2, <2>1
  <2>4. KeptOf(s, in, n)
    BY <1>1, <1>2, <2>2, <2>3 DEF KeptOf
  <2> QED
    BY <2>1, <2>4
<1>4. CASE n \in in
  <2> DEFINE L == Len(s) + 1
             t == Append(s, lines[n])
             g == [i \in 1 .. L |-> IF i = L THEN n ELSE f[i]]
  <2>1. WithLine(s, in, n) = t
    BY <1>4 DEF WithLine
  <2>2. /\ t \in Seq(ReportLine) /\ Len(t) = L /\ t[L] = lines[n] /\ L \in Nat
        /\ \A i \in 1 .. Len(s) : t[i] = s[i]
        /\ \A i \in 1 .. L : i = L \/ i \in 1 .. Len(s)
    BY <1>1
  <2>3. g[L] = n /\ (\A i \in 1 .. Len(s) : g[i] = f[i] /\ f[i] \in in /\ f[i] \in 1 .. n - 1) /\ L \in 1 .. L
    BY <1>1, <1>2
  <2>4. g \in [1 .. L -> in \cap 1 .. n]
    <3>1. \A i \in 1 .. Len(s) : f[i] \in in \cap 1 .. n
      BY <1>1, <2>3
    <3> QED
      BY <1>1, <1>4, <2>2, <3>1
  <2> HIDE DEF g, L, t
  <2>5. \A i \in 1 .. L : t[i] = lines[g[i]]
    BY <1>2, <2>2, <2>3
  <2>6. ASSUME NEW i \in 1 .. L, NEW j \in 1 .. L, i < j PROVE g[i] < g[j]
    <3>1. i \in 1 .. Len(s)
      BY <1>1, <2>6 DEF L
    <3>2. CASE j = L
      BY <1>1, <2>3, <3>1, <3>2
    <3>3. CASE j # L
      BY <1>2, <2>2, <2>3, <2>6, <3>1, <3>3
    <3> QED
      BY <3>2, <3>3
  <2>7. ASSUME NEW k \in in \cap 1 .. n PROVE \E i \in 1 .. L : g[i] = k
    <3>1. CASE k = n
      BY <2>3, <3>1
    <3>2. CASE k # n
      <4>1. k \in in \cap 1 .. n - 1
        BY <1>1, <3>2
      <4>2. PICK i \in 1 .. Len(s) : f[i] = k
        BY <1>2, <4>1
      <4>3. i \in 1 .. L
        BY <1>1 DEF L
      <4>4. g[i] = k
        BY <2>3, <4>2
      <4> QED
        BY <4>3, <4>4
    <3> QED
      BY <3>1, <3>2
  <2>l. Len(t) = L
    BY <2>2
  <2>8. /\ g \in [1 .. Len(t) -> in \cap 1 .. n]
        /\ \A i \in 1 .. Len(t) : t[i] = lines[g[i]]
        /\ \A i, j \in 1 .. Len(t) : i < j => g[i] < g[j]
        /\ \A k \in in \cap 1 .. n : \E i \in 1 .. Len(t) : g[i] = k
    BY <2>l, <2>4, <2>5, <2>6, <2>7
  <2>9. KeptOf(t, in, n)
    BY <2>2, <2>8 DEF KeptOf
  <2> QED
    BY <2>1, <2>9
<1> QED
  BY <1>3, <1>4

LEMMA LinesInIs ==
    ASSUME lines \in Seq(ReportLine), NEW in
    PROVE  KeptOf(LinesIn(in), in, Len(lines))
<1> DEFINE N == Len(lines)
           V == Seq(ReportLine)
           Fcn(f) == [i \in 0 .. N |-> IF i = 0 THEN <<>> ELSE WithLine(f[i - 1], in, i)]
           of == CHOOSE f : f = Fcn(f)
           step == [p \in (1 .. N) \X V |-> WithLine(p[2], in, p[1])]
           Holds == {n \in 0 .. N : KeptOf(of[n], in, n)}
<1>0. N \in Nat /\ <<>> \in V
  OBVIOUS
<1>1. step \in [(1 .. N) \X V -> V]
  BY WithLineTyped
<1>2. PICK g : Walks(g, V, <<>>, N, step)
  <2> HIDE DEF step, N, V
  <2> QED
    BY <1>0, <1>1, Recursion
<1>3. g = Fcn(g)
  <2>1. \A i \in 1 .. N : g[i] = WithLine(g[i - 1], in, i)
    <3>1. \A i \in 1 .. N, x \in V : step[<<i, x>>] = WithLine(x, in, i)
      OBVIOUS
    <3> HIDE DEF step, N, V
    <3>2. ASSUME NEW i \in 1 .. N PROVE i - 1 \in 0 .. N /\ g[i - 1] \in V
      BY <1>0, <1>2 DEF Walks
    <3> QED
      BY <1>2, <3>1, <3>2 DEF Walks
  <2>2. DOMAIN g = 0 .. N /\ g = [i \in 0 .. N |-> g[i]] /\ g[0] = <<>>
    BY <1>2 DEF Walks
  <2> QED
    BY <1>0, <2>1, <2>2
<1>4. of = Fcn(of)
  <2> HIDE DEF Fcn
  <2> QED
    BY <1>3
<1>5. of[0] = <<>> /\ \A i \in 1 .. N : of[i] = WithLine(of[i - 1], in, i)
  <2> HIDE DEF of
  <2> QED
    BY <1>0, <1>4
<1> HIDE DEF of
<1>6. 0 \in Holds
  <2>1. KeptOf(<<>>, in, 0)
    <3>1. in \cap 1 .. 0 = {} /\ 1 .. Len(<<>>) = {}
      OBVIOUS
    <3>2. PICK f : f \in [1 .. Len(<<>>) -> in \cap 1 .. 0]
      <4>1. [i \in 1 .. Len(<<>>) |-> i] \in [1 .. Len(<<>>) -> in \cap 1 .. 0]
        BY <3>1
      <4> QED
        BY <4>1
    <3>3. PICK none : none = <<>> /\ none \in Seq(ReportLine)
      BY <1>0
    <3>4. KeptOf(none, in, 0)
      BY <3>1, <3>2, <3>3 DEF KeptOf
    <3> QED
      BY <3>3, <3>4
  <2> QED
    BY <1>0, <1>5, <2>1
<1>7. \A n \in 1 .. N : n - 1 \in Holds => n \in Holds
  <2> SUFFICES ASSUME NEW n \in 1 .. N, n - 1 \in Holds PROVE n \in Holds
    OBVIOUS
  <2>1. KeptOf(of[n - 1], in, n - 1) /\ of[n] = WithLine(of[n - 1], in, n) /\ n \in 0 .. N
    BY <1>0, <1>5
  <2>2. KeptOf(of[n], in, n)
    BY <2>1, WithLineKeeps
  <2> QED
    BY <2>1, <2>2
<1>8. N \in Holds
  <2> HIDE DEF Holds, N
  <2> QED
    BY <1>0, <1>6, <1>7, InductionUpTo
<1>9. LinesIn(in) = of[N]
  BY DEF LinesIn, of
<1> QED
  BY <1>8, <1>9

LEMMA CropKeeps == LogInv /\ Crop => LogInv'
<1> SUFFICES ASSUME LogInv, Crop PROVE LogInv'
  OBVIOUS
<1>1. cfAt = "log" /\ cfAt' = "cropped" /\ lines \in Seq(ReportLine) /\ InReports(lines)
  BY DEF LogInv, Crop
<1>c. PICK cut \in DOMAIN lines : \E bare \in {{}} \cup {{i} : i \in {i \in DOMAIN lines : lines[i].kind # "bug"}} :
         lines' = Cropped(cut, bare)
  BY DEF Crop
<1>b. PICK bare \in {{}} \cup {{i} : i \in {i \in DOMAIN lines : lines[i].kind # "bug"}} : lines' = Cropped(cut, bare)
  BY <1>c
<1> DEFINE in == {i \in DOMAIN lines : i >= cut /\ i \notin bare}
<1>2. \A i \in DOMAIN lines : i >= cut /\ Bug(lines, i) => i \in in
  BY <1>b DEF Bug
<1>3. CASE lines' = lines
  BY <1>1, <1>3 DEF LogInv, FeaturesOfOneReport
<1>4. CASE lines' # lines
  <2>0. PICK s : s = LinesIn(in)
    OBVIOUS
  <2>1. lines' = s /\ KeptOf(s, in, Len(lines))
    BY <1>1, <1>b, <1>4, <2>0, LinesInIs DEF Cropped
  <2>2. PICK f \in [1 .. Len(s) -> in \cap 1 .. Len(lines)] :
         /\ \A i \in 1 .. Len(s) : s[i] = lines[f[i]]
         /\ \A i, j \in 1 .. Len(s) : i < j => f[i] < f[j]
         /\ \A k \in in \cap 1 .. Len(lines) : \E i \in 1 .. Len(s) : f[i] = k
    BY <2>1 DEF KeptOf
  <2>3. s \in Seq(ReportLine) /\ DOMAIN s = 1 .. Len(s) /\ Len(s) \in Nat /\ DOMAIN lines = 1 .. Len(lines) /\ Len(lines) \in Nat
    BY <1>1, <2>1 DEF KeptOf
  <2>4. \A i \in DOMAIN s : f[i] \in DOMAIN lines /\ f[i] >= cut /\ (Bug(s, i) <=> Bug(lines, f[i])) /\ f[i] \in Int
    BY <2>2, <2>3 DEF Bug
  <2> HIDE DEF in
  <2>5. \A i, j \in DOMAIN s : (i < j => f[i] < f[j]) /\ (f[i] < f[j] => i < j) /\ (f[i] <= f[j] <=> i <= j)
    <3> SUFFICES ASSUME NEW i \in DOMAIN s, NEW j \in DOMAIN s
                 PROVE  (i < j => f[i] < f[j]) /\ (f[i] < f[j] => i < j) /\ (f[i] <= f[j] <=> i <= j)
      OBVIOUS
    <3>1. (i < j => f[i] < f[j]) /\ (j < i => f[j] < f[i]) /\ i \in Int /\ j \in Int /\ f[i] \in Int /\ f[j] \in Int
      BY <2>2, <2>3, <2>4
    <3>2. i < j \/ j < i \/ i = j
      BY <3>1
    <3> QED
      BY <3>1, <3>2
  <2>6. InReports(s)
    <3>1. ASSUME NEW i \in DOMAIN s, NEW j \in DOMAIN s, i <= j PROVE s[i].report <= s[j].report
      <4>1. f[i] \in DOMAIN lines /\ f[j] \in DOMAIN lines /\ f[i] <= f[j] /\ s[i] = lines[f[i]] /\ s[j] = lines[f[j]]
        BY <2>2, <2>3, <2>4, <2>5, <3>1
      <4> QED
        BY <1>1, <4>1 DEF InReports
    <3>2. ASSUME NEW i \in DOMAIN s, NEW j \in DOMAIN s, i < j, Bug(s, j) PROVE s[i].report < s[j].report
      <4>1. f[i] \in DOMAIN lines /\ f[j] \in DOMAIN lines /\ f[i] < f[j] /\ s[i] = lines[f[i]] /\ s[j] = lines[f[j]] /\ Bug(lines, f[j])
        BY <2>2, <2>3, <2>4, <2>5, <3>2
      <4> QED
        BY <1>1, <4>1 DEF InReports
    <3>3. ASSUME NEW i \in DOMAIN s, NEW j \in DOMAIN s, i < j, s[i].report < s[j].report
          PROVE  \E k \in DOMAIN s : i < k /\ k <= j /\ Bug(s, k)
      <4>1. f[i] \in DOMAIN lines /\ f[j] \in DOMAIN lines /\ f[i] < f[j] /\ s[i] = lines[f[i]] /\ s[j] = lines[f[j]] /\ f[i] >= cut
        BY <2>2, <2>3, <2>4, <2>5, <3>3
      <4>2. lines[f[i]].report < lines[f[j]].report
        BY <3>3, <4>1
      <4>3. PICK k \in DOMAIN lines : f[i] < k /\ k <= f[j] /\ Bug(lines, k)
        BY <1>1, <4>1, <4>2 DEF InReports
      <4>4. k >= cut
        BY <1>c, <2>3, <2>4, <4>1, <4>3
      <4>5. k \in in \cap 1 .. Len(lines)
        BY <1>2, <2>3, <4>3, <4>4
      <4>6. PICK m \in DOMAIN s : f[m] = k
        BY <2>2, <2>3, <4>5
      <4>7. i < m /\ m <= j /\ Bug(s, m)
        BY <2>4, <2>5, <4>3, <4>6
      <4> QED
        BY <4>7
    <3> QED
      BY <3>1, <3>2, <3>3 DEF InReports
  <2> QED
    BY <1>1, <2>1, <2>3, <2>6 DEF LogInv, FeaturesOfOneReport
<1> QED
  BY <1>3, <1>4

LEMMA LineTyped ==
    ASSUME lines \in Seq(ReportLine), NEW j \in DOMAIN lines
    PROVE  j \in Nat /\ lines[j].report \in Nat
<1>1. lines[j] \in ReportLine /\ j \in Nat
  OBVIOUS
<1> QED
  BY <1>1 DEF ReportLine

LEMMA FirstInIs ==
    ASSUME lines \in Seq(ReportLine), NEW from, NEW to, NEW kinds,
           NEW i \in DOMAIN lines, i >= from, i <= to, Of(i, kinds)
    PROVE  /\ FirstIn(from, to, kinds) \in DOMAIN lines /\ FirstIn(from, to, kinds) # 0
           /\ FirstIn(from, to, kinds) >= from /\ FirstIn(from, to, kinds) <= i
           /\ Of(FirstIn(from, to, kinds), kinds)
<1> DEFINE S == {j \in DOMAIN lines : j >= from /\ j <= to /\ Of(j, kinds)}
<1>1. S \in SUBSET Nat /\ S # {} /\ i \in S /\ 0 \notin S
  OBVIOUS
<1>2. \E m \in S : \A j \in S : m <= j
  BY <1>1, LeastOf
<1>3. FirstIn(from, to, kinds) = CHOOSE m \in S : \A j \in S : m <= j
  BY <1>1 DEF FirstIn
<1>4. FirstIn(from, to, kinds) \in S /\ \A j \in S : FirstIn(from, to, kinds) <= j
  <2> HIDE DEF S
  <2> QED
    BY <1>2, <1>3
<1> QED
  BY <1>1, <1>4

LEMMA BugIndexIs ==
    ASSUME lines \in Seq(ReportLine), BugIndex # 0
    PROVE  BugIndex \in DOMAIN lines /\ Bug(lines, BugIndex)
<1> DEFINE S == {i \in DOMAIN lines : Of(i, {"bug"}) /\ ~OomContext(i)}
<1>1. S \in SUBSET Nat /\ S # {} /\ BugIndex = CHOOSE i \in S : \A j \in S : i <= j
  BY DEF BugIndex
<1>2. \E m \in S : \A j \in S : m <= j
  BY <1>1, LeastOf
<1>3. BugIndex \in S
  <2> HIDE DEF S
  <2> QED
    BY <1>1, <1>2
<1> QED
  BY <1>3 DEF Of, Bug

\* A line of the report whose bug line was found, in a window behind that line: the first
\* line of these kinds in the window is of this report.
LEMMA FirstOfReport ==
    ASSUME lines \in Seq(ReportLine), InReports(lines), BugIndex # 0, NEW window \in Nat, NEW kinds, NEW some,
           some \subseteq kinds, OwnIn(lines[BugIndex].report, window, some)
    PROVE  LET f == FirstIn(Start, Start + window - 1, kinds)
           IN  /\ f \in DOMAIN lines /\ f # 0 /\ Of(f, kinds) /\ f >= BugIndex /\ f < BugIndex + window
               /\ lines[f].report = lines[BugIndex].report
               /\ lines[BugIndex] = [kind |-> "bug", report |-> lines[BugIndex].report]
<1>1. BugIndex \in DOMAIN lines /\ Bug(lines, BugIndex) /\ Start = BugIndex
  BY BugIndexIs DEF Start
<1> DEFINE r == lines[BugIndex].report
           f == FirstIn(Start, Start + window - 1, kinds)
<1>b. PICK b \in DOMAIN lines : \E i \in DOMAIN lines :
        /\ lines[b] = [kind |-> "bug", report |-> r]
        /\ i >= b /\ i < b + window /\ lines[i].report = r /\ Of(i, some)
  BY DEF OwnIn
<1>i. PICK i \in DOMAIN lines :
        /\ lines[b] = [kind |-> "bug", report |-> r]
        /\ i >= b /\ i < b + window /\ lines[i].report = r /\ Of(i, some)
  BY <1>b
<1>2. \A j \in DOMAIN lines : j \in Nat /\ lines[j].report \in Nat
  BY LineTyped
<1> HIDE DEF r
<1>3. b = BugIndex
  <2>1. Bug(lines, b) /\ lines[b].report = r /\ lines[BugIndex].report = r
    BY <1>i DEF Bug, r
  <2>2. ~(b < BugIndex) /\ ~(BugIndex < b)
    BY <1>1, <1>2, <2>1 DEF InReports
  <2> QED
    BY <1>1, <1>2, <2>2
<1>4. i >= Start /\ i <= Start + window - 1 /\ Of(i, kinds)
  BY <1>1, <1>2, <1>3, <1>i DEF Of
<1>5. f \in DOMAIN lines /\ f # 0 /\ f >= Start /\ f <= i /\ Of(f, kinds)
  BY <1>4, FirstInIs
<1> HIDE DEF f
<1>6. lines[f].report = r
  <2>1. r <= lines[f].report /\ lines[f].report <= r
    BY <1>1, <1>2, <1>5, <1>i DEF InReports, r
  <2> QED
    BY <1>2, <1>5, <2>1, <1>1 DEF r
<1>7. f < BugIndex + window
  BY <1>1, <1>2, <1>3, <1>5, <1>i
<1> QED
  BY <1>1, <1>3, <1>5, <1>6, <1>7, <1>i DEF r, f

LEMMA DmesgKeeps == LogInv /\ Dmesg => LogInv'
<1> SUFFICES ASSUME LogInv, Dmesg PROVE LogInv'
  OBVIOUS
<1>1. cfAt = "cropped" /\ cfAt' = "dmesg" /\ lines' = lines /\ lines \in Seq(ReportLine) /\ InReports(lines)
  BY DEF LogInv, Dmesg
<1>2. PICK frames : frames = {lines[j].report : j \in {j \in TraceLines : HasOffset(j)}}
  OBVIOUS
<1>3. /\ feature'.bug = (IF BugIndex = 0 THEN 0 ELSE lines[BugIndex].report)
      /\ feature'.rip = (IF RipIndex = 0 THEN 0 ELSE lines[RipIndex].report)
      /\ feature'.frames = frames
  BY <1>2 DEF Dmesg
<1>4. \A r, window, kinds : OwnIn(r, window, kinds)' <=> OwnIn(r, window, kinds)
  BY <1>1 DEF OwnIn, Of
<1>w. RipWindow \in Nat /\ TraceWindow \in Nat
  BY FeaturesAssumption
<1>5. ASSUME NEW r, r = lines[BugIndex].report, BugIndex # 0, OwnIn(r, RipWindow, {"rip"}), ~OwnIn(r, RipWindow, {"user"})
      PROVE  RipIndex # 0 /\ lines[RipIndex].report = r
  <2>1. PICK f : f = FirstIn(Start, Start + RipWindow - 1, {"rip", "user"})
    OBVIOUS
  <2>2. /\ f \in DOMAIN lines /\ f # 0 /\ Of(f, {"rip", "user"}) /\ f >= BugIndex /\ f < BugIndex + RipWindow
        /\ lines[f].report = r /\ lines[BugIndex] = [kind |-> "bug", report |-> r]
    <3>1. {"rip"} \subseteq {"rip", "user"}
      OBVIOUS
    <3> QED
      BY <1>1, <1>5, <1>w, <2>1, <3>1, FirstOfReport
  <2>3. BugIndex \in DOMAIN lines
    BY <1>1, <1>5, BugIndexIs
  <2>4. ~Of(f, {"user"})
    BY <1>5, <2>2, <2>3 DEF OwnIn
  <2>5. Of(f, {"rip"})
    BY <2>2, <2>4 DEF Of
  <2> QED
    BY <2>1, <2>2, <2>5 DEF RipIndex
<1>6. ASSUME NEW r, r = lines[BugIndex].report, BugIndex # 0, OwnIn(r, TraceWindow, {"call"})
      PROVE  frames \subseteq {r}
  <2>1. PICK f : f = FirstIn(Start, Start + TraceWindow - 1, {"call"})
    OBVIOUS
  <2>2. f \in DOMAIN lines /\ f # 0 /\ lines[f].report = r
    BY <1>1, <1>6, <1>w, <2>1, FirstOfReport
  <2>3. TraceLines = Block(f)
    BY <2>1, <2>2 DEF TraceLines
  <2>4. ASSUME NEW j \in Block(f) PROVE lines[j].report = r
    <3>1. j \in DOMAIN lines /\ f < j /\ (\A k \in (f + 1) .. j : HasOffset(k) \/ Of(k, {"call"})) /\ DOMAIN lines \subseteq Nat
      BY <1>1 DEF Block
    <3>2. \A k \in DOMAIN lines : f < k /\ k <= j => ~Bug(lines, k)
      <4> SUFFICES ASSUME NEW k \in DOMAIN lines, f < k, k <= j PROVE ~Bug(lines, k)
        OBVIOUS
      <4>1. k \in (f + 1) .. j
        BY <2>2, <3>1
      <4> QED
        BY <3>1, <4>1 DEF HasOffset, Of, Bug
    <3>3. ~(lines[f].report < lines[j].report) /\ lines[f].report <= lines[j].report
      BY <1>1, <2>2, <3>1, <3>2 DEF InReports
    <3>4. lines[f].report \in Nat /\ lines[j].report \in Nat
      BY <1>1, <2>2, <3>1, LineTyped
    <3> QED
      BY <2>2, <3>3, <3>4
  <2> QED
    BY <1>2, <2>3, <2>4
<1>7. FeaturesOfOneReport'
  BY <1>1, <1>3, <1>4, <1>5, <1>6 DEF FeaturesOfOneReport
<1> QED
  BY <1>1, <1>7 DEF LogInv

LEMMA LogInvInit == CfInit => LogInv
BY DEF CfInit, LogInv, InReports, LogIsOpen, FeaturesOfOneReport

LEMMA LogInvStep == LogInv /\ [CfNext]_cfVars => LogInv'
<1> SUFFICES ASSUME LogInv, [CfNext]_cfVars PROVE LogInv'
  OBVIOUS
<1>1. CASE Given
  BY <1>1 DEF Given, LogInv, LogIsOpen, Reports, Bug, FeaturesOfOneReport
<1>2. CASE Hardware
  <2>1. lines' = <<>> /\ cfAt' = "hardware" /\ DOMAIN lines' = {}
    BY <1>2 DEF Hardware
  <2> QED
    BY <2>1 DEF LogInv, InReports, FeaturesOfOneReport
<1>3. CASE Stacks
  BY <1>3 DEF Stacks, LogInv, FeaturesOfOneReport
<1>4. CASE BuildChain
  BY <1>4 DEF BuildChain, LogInv, FeaturesOfOneReport
<1>5. CASE UNCHANGED cfVars
  BY <1>5 DEF cfVars, LogInv, LogIsOpen, Reports, Bug, FeaturesOfOneReport, OwnIn, Of
<1> QED
  BY <1>1, <1>2, <1>3, <1>4, <1>5, ReadLineKeeps, CropKeeps, DmesgKeeps DEF CfNext
-----------------------------------------------------------------------------
(* The timeline of a crash.                                                 *)

\* Event a stands before event b: by time, then as they were found.
EventBefore(e, a, b) ==
    \/ e[a] # NoTime /\ (e[b] = NoTime \/ e[a] < e[b])
    \/ e[a] = e[b] /\ a < b

\* A list of the first n events in this order.
Placed(e, s, n) ==
    /\ s \in [1 .. n -> 1 .. n]
    /\ \A k \in 1 .. n : \E i \in 1 .. n : s[i] = k
    /\ \A i, j \in 1 .. n : i < j => EventBefore(e, s[i], s[j])

\* A set of positions that holds what precedes them is the first so many.
LEMMA FirstPositions ==
    ASSUME NEW m \in Nat, NEW T \in SUBSET (1 .. m), \A j \in T, i \in 1 .. m : i < j => i \in T
    PROVE  Cardinality(T) \in 0 .. m /\ T = 1 .. Cardinality(T)
<1> DEFINE Out == {i \in 1 .. m + 1 : i \notin T}
<1>1. Out \in SUBSET Nat /\ m + 1 \in Out
  OBVIOUS
<1>2. PICK first \in Out : \A k \in Out : first <= k
  BY <1>1, LeastOf
<1>3. first - 1 \in 0 .. m /\ T = 1 .. first - 1
  <2>1. \A i \in 1 .. first - 1 : i \in T
    BY <1>2
  <2>2. ASSUME NEW i \in T PROVE i \in 1 .. first - 1
    <3>1. CASE first \in 1 .. m
      <4>1. ~(first < i) /\ i # first
        BY <1>2, <3>1
      <4> QED
        BY <3>1, <4>1
    <3>2. CASE first = m + 1
      BY <3>2
    <3> QED
      BY <1>2, <3>1, <3>2
  <2>3. first - 1 \in 0 .. m
    BY <1>2
  <2> QED
    BY <2>1, <2>2, <2>3
<1>4. Cardinality(1 .. first - 1) = first - 1
  <2>1. 1 \in Int /\ first - 1 \in Int
    BY <1>3
  <2>2. Cardinality(1 .. first - 1) = IF 1 > first - 1 THEN 0 ELSE (first - 1) - 1 + 1
    BY <2>1, FS_Interval
  <2> QED
    BY <1>3, <2>2
<1> QED
  BY <1>3, <1>4

LEMMA ConcatIs ==
    ASSUME NEW T, NEW a \in Seq(T), NEW z \in Seq(T)
    PROVE  /\ a \o z \in Seq(T) /\ Len(a \o z) = Len(a) + Len(z)
           /\ \A i \in 1 .. Len(a) : (a \o z)[i] = a[i]
           /\ \A i \in 1 .. Len(z) : (a \o z)[Len(a) + i] = z[i]
OBVIOUS

\* t is s with x put behind its first c elements.
Inserted(T, s, c, x, t) ==
    /\ t \in Seq(T) /\ Len(t) = Len(s) + 1 /\ t[c + 1] = x
    /\ \A i \in 1 .. c : t[i] = s[i]
    /\ \A i \in (c + 1) .. Len(s) : t[i + 1] = s[i]

LEMMA InsertIs ==
    ASSUME NEW T, NEW s \in Seq(T), NEW c \in 0 .. Len(s), NEW x \in T
    PROVE  Inserted(T, s, c, x, InsertAt(s, c + 1, x))
<1>t. PICK t : t = InsertAt(s, c + 1, x)
  OBVIOUS
<1>a. PICK a : a = SubSeq(s, 1, c)
  OBVIOUS
<1>z. PICK z : z = SubSeq(s, c + 1, Len(s))
  OBVIOUS
<1>y. PICK y : y = <<x>>
  OBVIOUS
<1>x. PICK ax : ax = a \o y
  OBVIOUS
<1>0. c \in Nat /\ Len(s) \in Nat /\ c <= Len(s)
  OBVIOUS
<1>1. a \in Seq(T) /\ Len(a) = c /\ \A i \in 1 .. c : a[i] = s[i]
  BY <1>0, <1>a
<1>2. z \in Seq(T) /\ Len(z) = Len(s) - c /\ \A i \in 1 .. Len(s) - c : z[i] = s[c + i]
  BY <1>0, <1>z
<1>3. ax \in Seq(T) /\ Len(ax) = c + 1 /\ (\A i \in 1 .. c : ax[i] = a[i]) /\ ax[c + 1] = x
  <2>1. y \in Seq(T) /\ Len(y) = 1 /\ y[1] = x
    BY <1>y
  <2>2. a \in Seq(T)
    BY <1>1
  <2>3. /\ ax \in Seq(T) /\ Len(ax) = Len(a) + Len(y)
        /\ \A i \in 1 .. Len(a) : ax[i] = a[i]
        /\ \A i \in 1 .. Len(y) : ax[Len(a) + i] = y[i]
    <3>1. y \in Seq(T)
      BY <2>1
    <3> QED
      BY <1>x, <2>2, <3>1, ConcatIs
  <2> QED
    BY <1>0, <1>1, <2>1, <2>3
<1>4. t = ax \o z
  <2>1. (c + 1) - 1 = c
    BY <1>0
  <2>2. t = SubSeq(s, 1, (c + 1) - 1) \o <<x>> \o SubSeq(s, c + 1, Len(s))
    BY <1>t DEF InsertAt
  <2> QED
    BY <1>a, <1>x, <1>y, <1>z, <2>1, <2>2
<1>5. /\ t \in Seq(T) /\ Len(t) = Len(ax) + Len(z)
      /\ \A i \in 1 .. Len(ax) : t[i] = ax[i]
      /\ \A i \in 1 .. Len(z) : t[Len(ax) + i] = z[i]
  <2>1. ax \in Seq(T)
    BY <1>3
  <2>2. z \in Seq(T)
    BY <1>2
  <2> QED
    BY <1>4, <2>1, <2>2, ConcatIs
<1>6. Len(t) = Len(s) + 1 /\ t[c + 1] = x /\ \A i \in 1 .. c : t[i] = s[i]
  BY <1>0, <1>1, <1>2, <1>3, <1>5
<1>7. ASSUME NEW i \in (c + 1) .. Len(s) PROVE t[i + 1] = s[i]
  <2>1. i - c \in 1 .. Len(z) /\ Len(ax) + (i - c) = i + 1 /\ c + (i - c) = i
    BY <1>0, <1>2, <1>3
  <2>2. t[Len(ax) + (i - c)] = z[i - c] /\ z[i - c] = s[c + (i - c)]
    BY <1>2, <1>5, <2>1
  <2> QED
    BY <2>1, <2>2
<1> QED
  BY <1>t, <1>5, <1>6, <1>7 DEF Inserted

LEMMA PlaceKeeps ==
    ASSUME NEW e \in Seq(Times \cup {NoTime}), NEW n \in 1 .. Len(e), NEW s, Placed(e, s, n - 1)
    PROVE  Placed(e, Place(e, s, n), n)
<1> DEFINE earlier == {j \in DOMAIN s : e[n] = NoTime \/ (e[s[j]] # NoTime /\ e[s[j]] <= e[n])}
           c == Cardinality(earlier)
           t == InsertAt(s, c + 1, n)
<1>0. n \in Nat /\ n > 0 /\ s \in [1 .. n - 1 -> 1 .. n - 1] /\ n - 1 \in Nat
  <2>1. n \in Nat /\ n > 0 /\ n - 1 \in Nat
    OBVIOUS
  <2> QED
    BY <2>1 DEF Placed
<1>1. \A i \in 1 .. Len(e) : e[i] \in Int
  <2>1. Times \cup {NoTime} \subseteq Int
    BY FeaturesAssumption DEF NoTime
  <2> QED
    BY <2>1
<1>2. \A j \in 1 .. n - 1 : s[j] \in 1 .. n - 1 /\ e[s[j]] \in Int /\ s[j] < n
  BY <1>0, <1>1
<1>3. \A j \in earlier, i \in 1 .. n - 1 : i < j => i \in earlier
  <2> SUFFICES ASSUME NEW j \in earlier, NEW i \in 1 .. n - 1, i < j PROVE i \in earlier
    OBVIOUS
  <2>1. EventBefore(e, s[i], s[j]) /\ i \in DOMAIN s /\ j \in 1 .. n - 1
    BY <1>0 DEF Placed
  <2> QED
    BY <1>1, <1>2, <2>1 DEF EventBefore
<1>4. earlier \in SUBSET (1 .. n - 1)
  BY <1>0
<1>5. c \in 0 .. n - 1 /\ earlier = 1 .. c
  <2> HIDE DEF earlier
  <2>1. n - 1 \in Nat
    BY <1>0
  <2>2. Cardinality(earlier) \in 0 .. n - 1 /\ earlier = 1 .. Cardinality(earlier)
    BY <1>3, <1>4, <2>1, FirstPositions
  <2> QED
    BY <2>2
<1>6. /\ t \in Seq(1 .. n) /\ Len(t) = n /\ t[c + 1] = n
      /\ \A i \in 1 .. c : t[i] = s[i]
      /\ \A i \in (c + 1) .. n - 1 : t[i + 1] = s[i]
  <2>1. s \in Seq(1 .. n) /\ Len(s) = n - 1
    <3>1. PICK m \in Nat : m = n - 1
      BY <1>0
    <3>2. \A k \in 1 .. m : k \in 1 .. n
      BY <1>0, <3>1
    <3>3. s \in [1 .. m -> 1 .. n]
      BY <1>0, <3>1, <3>2
    <3>4. s \in Seq(1 .. n) /\ Len(s) = m
      BY <3>3
    <3> QED
      BY <3>1, <3>4
  <2>2. n \in 1 .. n
    BY <1>0
  <2> HIDE DEF c
  <2>3. c \in 0 .. Len(s)
    BY <1>5, <2>1
  <2>4. Inserted(1 .. n, s, c, n, t)
    BY <2>1, <2>2, <2>3, InsertIs
  <2> HIDE DEF t
  <2> QED
    BY <1>0, <2>1, <2>4 DEF Inserted
<1>7. \A i \in 1 .. n - 1 : IF i <= c THEN e[n] = NoTime \/ (e[s[i]] # NoTime /\ e[s[i]] <= e[n])
                                      ELSE e[n] # NoTime /\ (e[s[i]] = NoTime \/ e[s[i]] > e[n])
  <2> SUFFICES ASSUME NEW i \in 1 .. n - 1
               PROVE  IF i <= c THEN e[n] = NoTime \/ (e[s[i]] # NoTime /\ e[s[i]] <= e[n])
                                ELSE e[n] # NoTime /\ (e[s[i]] = NoTime \/ e[s[i]] > e[n])
    OBVIOUS
  <2>1. i \in earlier <=> i <= c
    <3> HIDE DEF c, earlier
    <3> QED
      BY <1>5
  <2>2. i \in DOMAIN s /\ e[n] \in Int /\ e[s[i]] \in Int
    BY <1>0, <1>1, <1>2
  <2> HIDE DEF c
  <2> QED
    BY <2>1, <2>2
<1>8. Place(e, s, n) = t
  BY DEF Place
<1> HIDE DEF earlier, c, t
<1>9. \A i \in 1 .. n : \/ i \in 1 .. c /\ t[i] = s[i]
                        \/ i = c + 1 /\ t[i] = n
                        \/ i > c + 1 /\ i - 1 \in 1 .. n - 1 /\ t[i] = s[i - 1]
  <2> SUFFICES ASSUME NEW i \in 1 .. n, i \notin 1 .. c, i # c + 1
               PROVE  i > c + 1 /\ i - 1 \in 1 .. n - 1 /\ t[i] = s[i - 1]
    BY <1>6
  <2>1. i > c + 1 /\ i - 1 \in 1 .. n - 1 /\ i - 1 \in (c + 1) .. n - 1 /\ i - 1 + 1 = i
    BY <1>0, <1>5
  <2> QED
    BY <1>6, <2>1
<1>10. t \in [1 .. n -> 1 .. n]
  <2>1. t \in Seq(1 .. n) /\ Len(t) = n
    BY <1>6
  <2> QED
    BY <2>1
<1>11. ASSUME NEW k \in 1 .. n PROVE \E i \in 1 .. n : t[i] = k
  <2>1. CASE k = n
    BY <1>5, <1>6, <2>1
  <2>2. CASE k # n
    <3>1. PICK i \in 1 .. n - 1 : s[i] = k
      BY <1>0, <2>2 DEF Placed
    <3>2. CASE i <= c
      BY <1>5, <1>6, <3>1, <3>2
    <3>3. CASE ~(i <= c)
      <4>1. i \in (c + 1) .. n - 1 /\ i + 1 \in 1 .. n
        BY <1>0, <1>5, <3>3
      <4> QED
        BY <1>6, <3>1, <4>1
    <3> QED
      BY <3>2, <3>3
  <2> QED
    BY <2>1, <2>2
<1>12. ASSUME NEW i \in 1 .. n, NEW j \in 1 .. n, i < j PROVE EventBefore(e, t[i], t[j])
  <2>1. CASE i = c + 1
    <3>1. t[i] = n /\ t[j] = s[j - 1] /\ j - 1 \in 1 .. n - 1 /\ ~(j - 1 <= c)
      BY <1>5, <1>9, <1>12, <2>1
    <3>2. e[n] # NoTime /\ (e[s[j - 1]] = NoTime \/ e[s[j - 1]] > e[n]) /\ e[n] \in Int
      BY <1>1, <1>7, <3>1
    <3> QED
      BY <1>2, <3>1, <3>2 DEF EventBefore
  <2>2. CASE j = c + 1
    <3>1. t[j] = n /\ t[i] = s[i] /\ i \in 1 .. n - 1 /\ i <= c
      BY <1>5, <1>9, <1>12, <2>2
    <3>2. (e[n] = NoTime \/ (e[s[i]] # NoTime /\ e[s[i]] <= e[n])) /\ e[n] \in Int
      BY <1>1, <1>7, <3>1
    <3> QED
      BY <1>2, <3>1, <3>2 DEF EventBefore
  <2>3. CASE i # c + 1 /\ j # c + 1
    <3>0. \A l \in 1 .. n : l # c + 1 =>
            \E p \in 1 .. n - 1 : t[l] = s[p] /\ ((l <= c /\ p = l) \/ (l > c + 1 /\ p = l - 1))
      <4> SUFFICES ASSUME NEW l \in 1 .. n, l # c + 1
                   PROVE  \E p \in 1 .. n - 1 : t[l] = s[p] /\ ((l <= c /\ p = l) \/ (l > c + 1 /\ p = l - 1))
        OBVIOUS
      <4>1. CASE l \in 1 .. c
        <5>1. l \in 1 .. n - 1 /\ l <= c /\ t[l] = s[l]
          BY <1>0, <1>5, <1>6, <4>1
        <5> QED
          BY <5>1
      <4>2. CASE l \notin 1 .. c
        <5>1. l > c + 1 /\ l - 1 \in 1 .. n - 1 /\ t[l] = s[l - 1]
          BY <1>9, <4>2
        <5> QED
          BY <5>1
      <4> QED
        BY <4>1, <4>2
    <3>1. PICK p \in 1 .. n - 1 : t[i] = s[p] /\ ((i <= c /\ p = i) \/ (i > c + 1 /\ p = i - 1))
      BY <2>3, <3>0
    <3>2. PICK q \in 1 .. n - 1 : t[j] = s[q] /\ ((j <= c /\ q = j) \/ (j > c + 1 /\ q = j - 1))
      BY <2>3, <3>0
    <3>3. p < q
      BY <1>5, <1>12, <3>1, <3>2
    <3> QED
      BY <3>1, <3>2, <3>3 DEF Placed
  <2> QED
    BY <2>1, <2>2, <2>3
<1> QED
  BY <1>8, <1>10, <1>11, <1>12 DEF Placed

LEMMA SortedIs ==
    ASSUME NEW e \in Seq(Times \cup {NoTime})
    PROVE  Placed(e, Sorted(e), Len(e))
<1> DEFINE N == Len(e)
           V == UNION {[1 .. n -> 1 .. n] : n \in 0 .. N}
           Fcn(f) == [n \in 0 .. N |-> IF n = 0 THEN <<>> ELSE Place(e, f[n - 1], n)]
           of == CHOOSE f : f = Fcn(f)
           Good(n, s) == Placed(e, s, n)
           step == [p \in (1 .. N) \X V |-> IF Good(p[1] - 1, p[2]) THEN Place(e, p[2], p[1]) ELSE <<>>]
<1>0. N \in Nat /\ <<>> \in V /\ Good(0, <<>>)
  <2>1. N \in Nat
    OBVIOUS
  <2>2. PICK s : s = <<>>
    OBVIOUS
  <2>3. s \in [1 .. 0 -> 1 .. 0] /\ 1 .. 0 = {}
    BY <2>2
  <2>4. Good(0, s)
    BY <2>3 DEF Placed
  <2>5. s \in V
    BY <2>1, <2>3
  <2> QED
    BY <2>1, <2>2, <2>4, <2>5
<1>p. \A s : \A n \in 1 .. N : Good(n - 1, s) => Good(n, Place(e, s, n))
  BY PlaceKeeps
<1>v. \A s : \A n \in 0 .. N : Good(n, s) => s \in V
  BY DEF Placed
<1> HIDE DEF Good, V, N
<1>1. step \in [(1 .. N) \X V -> V]
  <2>1. ASSUME NEW n \in 1 .. N, NEW s \in V, Good(n - 1, s) PROVE Place(e, s, n) \in V
    <3>1. Good(n, Place(e, s, n)) /\ n \in 0 .. N
      BY <1>0, <1>p, <2>1
    <3> QED
      BY <1>v, <3>1
  <2> QED
    BY <1>0, <2>1
<1>2. PICK g : Walks(g, V, <<>>, N, step)
  <2> HIDE DEF step
  <2> QED
    BY <1>0, <1>1, Recursion
<1>3. \A i \in 1 .. N : i - 1 \in 0 .. N /\ i \in 0 .. N /\ g[i - 1] \in V
  BY <1>0, <1>2 DEF Walks
<1>4. \A i \in 1 .. N : Good(i - 1, g[i - 1]) => g[i] = Place(e, g[i - 1], i)
  <2>1. \A i \in 1 .. N, s \in V : Good(i - 1, s) => step[<<i, s>>] = Place(e, s, i)
    OBVIOUS
  <2> HIDE DEF step
  <2> QED
    BY <1>2, <1>3, <2>1 DEF Walks
<1> HIDE DEF step
<1> DEFINE Holds == {n \in 0 .. N : Good(n, g[n])}
<1>5. 0 .. N \subseteq Holds
  <2>1. 0 \in Holds
    BY <1>0, <1>2 DEF Walks
  <2>2. \A n \in 1 .. N : n - 1 \in Holds => n \in Holds
    BY <1>3, <1>4, <1>p
  <2> HIDE DEF Holds
  <2> QED
    BY <1>0, <2>1, <2>2, InductionUpTo
<1>6. g = Fcn(g)
  <2>1. \A i \in 1 .. N : g[i] = Place(e, g[i - 1], i)
    BY <1>3, <1>4, <1>5
  <2>2. DOMAIN g = 0 .. N /\ g = [i \in 0 .. N |-> g[i]] /\ g[0] = <<>>
    BY <1>2 DEF Walks
  <2>3. N \in Nat
    BY <1>0
  <2>4. \A n \in 0 .. N : g[n] = IF n = 0 THEN <<>> ELSE Place(e, g[n - 1], n)
    BY <2>1, <2>2, <2>3
  <2> QED
    BY <2>2, <2>4
<1>7. of = Fcn(of)
  <2> HIDE DEF Fcn
  <2> QED
    BY <1>6
<1>8. of[0] = <<>> /\ \A i \in 1 .. N : of[i] = Place(e, of[i - 1], i)
  <2> HIDE DEF of
  <2> QED
    BY <1>0, <1>7
<1> HIDE DEF of
<1> DEFINE Reached == {n \in 0 .. N : Good(n, of[n])}
<1>9. N \in Reached
  <2>1. 0 \in Reached
    BY <1>0, <1>8
  <2>2. \A n \in 1 .. N : n - 1 \in Reached => n \in Reached
    BY <1>3, <1>8, <1>p
  <2> HIDE DEF Reached
  <2> QED
    BY <1>0, <2>1, <2>2, InductionUpTo
<1>10. Sorted(e) = of[N]
  BY DEF Sorted, of, N
<1> QED
  BY <1>9, <1>10 DEF Good, N

\* A list of the events in this order with the crash, event 0, behind them.
TimelineFits(e, t) ==
    /\ Len(t) = Len(e) + 1 /\ t[Len(t)] = 0
    /\ {t[i] : i \in 1 .. Len(e)} = DOMAIN e
    /\ \A i, j \in 1 .. Len(e) : i < j => EventBefore(e, t[i], t[j])

LEMMA TimelineIs ==
    ASSUME NEW e \in Seq(Times \cup {NoTime})
    PROVE  TimelineFits(e, Timeline(e))
<1>t. PICK t : t = Timeline(e)
  OBVIOUS
<1>s. PICK s : s = Sorted(e)
  OBVIOUS
<1>n. PICK n \in Nat : n = Len(e) /\ DOMAIN e = 1 .. n
  OBVIOUS
<1>1. Placed(e, s, n)
  BY <1>s, <1>n, SortedIs
<1>2. s \in Seq(Nat) /\ Len(s) = n
  <2>1. s \in [1 .. n -> 1 .. n]
    BY <1>1 DEF Placed
  <2>2. s \in [1 .. n -> Nat]
    BY <2>1
  <2> QED
    BY <2>2
<1>3. t = Append(s, 0)
  BY <1>s, <1>t DEF Timeline
<1>4. Len(t) = n + 1 /\ t[n + 1] = 0 /\ \A i \in 1 .. n : t[i] = s[i]
  <2>1. s \in Seq(Nat)
    BY <1>2
  <2>2. Len(t) = Len(s) + 1 /\ t[Len(s) + 1] = 0 /\ \A i \in 1 .. Len(s) : t[i] = s[i]
    BY <1>3, <2>1
  <2> QED
    BY <1>2, <2>2
<1>5. {t[i] : i \in 1 .. n} = 1 .. n
  <2>1. \A i \in 1 .. n : t[i] \in 1 .. n
    BY <1>1, <1>4 DEF Placed
  <2>2. \A k \in 1 .. n : \E i \in 1 .. n : t[i] = k
    BY <1>1, <1>4 DEF Placed
  <2> QED
    BY <2>1, <2>2
<1>6. \A i, j \in 1 .. n : i < j => EventBefore(e, t[i], t[j])
  BY <1>1, <1>4 DEF Placed
<1> QED
  BY <1>t, <1>n, <1>4, <1>5, <1>6 DEF TimelineFits
-----------------------------------------------------------------------------
(* The clues to the source.                                                 *)

ClueOf == [function : Functions \cup {NoFunction}, reason : {"crash_point", "call_trace"}]

\* Every function among the first n of the stack has one clue.
CluesOf(c, stack, rip, n) ==
    /\ c \in Seq(ClueOf)
    /\ \A i \in DOMAIN c : c[i] = Clue(c[i].function, rip)
    /\ \A i, j \in DOMAIN c : c[i].function = c[j].function => i = j
    /\ \A k \in 1 .. n : \E i \in DOMAIN c : c[i].function = stack[k]
    /\ \A i \in DOMAIN c : \E k \in 1 .. n : c[i].function = stack[k]

LEMMA ClueTyped ==
    ASSUME NEW f \in Functions \cup {NoFunction}, NEW rip
    PROVE  Clue(f, rip) \in ClueOf /\ Clue(f, rip).function = f
                    /\ Clue(f, rip).reason = IF f = rip THEN "crash_point" ELSE "call_trace"
BY DEF Clue, ClueOf

LEMMA WithClueTyped ==
    ASSUME NEW stack \in Seq(Functions), NEW rip, NEW n \in 1 .. Len(stack), NEW c \in Seq(ClueOf)
    PROVE  WithClue(c, stack, rip, n) \in Seq(ClueOf)
<1>1. stack[n] \in Functions \cup {NoFunction}
  OBVIOUS
<1>2. PICK new \in ClueOf : new = Clue(stack[n], rip)
  BY <1>1, ClueTyped
<1> QED
  BY <1>2 DEF WithClue

LEMMA WithClueKeeps ==
    ASSUME NEW stack \in Seq(Functions), NEW rip, NEW n \in 1 .. Len(stack), NEW c, CluesOf(c, stack, rip, n - 1)
    PROVE  CluesOf(WithClue(c, stack, rip, n), stack, rip, n)
<1>1. /\ c \in Seq(ClueOf) /\ DOMAIN c = 1 .. Len(c) /\ Len(c) \in Nat
      /\ \A i \in DOMAIN c : c[i] = Clue(c[i].function, rip)
      /\ \A i, j \in DOMAIN c : c[i].function = c[j].function => i = j
      /\ \A k \in 1 .. n - 1 : \E i \in DOMAIN c : c[i].function = stack[k]
      /\ \A i \in DOMAIN c : \E k \in 1 .. n - 1 : c[i].function = stack[k]
  BY DEF CluesOf
<1>2. /\ n \in Nat /\ DOMAIN stack = 1 .. Len(stack)
      /\ \A k \in 1 .. n : k = n \/ k \in 1 .. n - 1
      /\ \A k \in 1 .. n - 1 : k \in 1 .. n /\ k < n /\ k \in DOMAIN stack
      /\ \A k \in DOMAIN stack : k < n => k \in 1 .. n - 1
      /\ n \in 1 .. n
  OBVIOUS
<1>t. PICK t : t = WithClue(c, stack, rip, n)
  OBVIOUS
<1>3. CASE ~FirstSeen(stack, n)
  <2>1. t = c
    BY <1>t, <1>3 DEF WithClue
  <2>2. PICK k \in 1 .. n - 1 : stack[k] = stack[n]
    BY <1>2, <1>3 DEF FirstSeen
  <2>3. \A l \in 1 .. n : \E i \in DOMAIN c : c[i].function = stack[l]
    BY <1>1, <1>2, <2>2
  <2>4. \A i \in DOMAIN c : \E l \in 1 .. n : c[i].function = stack[l]
    BY <1>1, <1>2
  <2>5. CluesOf(c, stack, rip, n)
    BY <1>1, <2>3, <2>4 DEF CluesOf
  <2> QED
    BY <1>t, <2>1, <2>5
<1>4. CASE FirstSeen(stack, n)
  <2>1. PICK new \in ClueOf : new = Clue(stack[n], rip) /\ new.function = stack[n]
    <3>1. stack[n] \in Functions \cup {NoFunction}
      OBVIOUS
    <3> QED
      BY <3>1, ClueTyped
  <2>2. t = Append(c, new)
    BY <1>t, <1>4, <2>1 DEF WithClue
  <2>m. PICK m \in Nat : m = Len(c) + 1
    BY <1>1
  <2>3. /\ t \in Seq(ClueOf) /\ DOMAIN t = DOMAIN c \cup {m} /\ m \notin DOMAIN c
        /\ t[m] = new /\ \A i \in DOMAIN c : t[i] = c[i]
    BY <1>1, <2>1, <2>2, <2>m
  <2>4. \A i \in DOMAIN c : c[i].function # stack[n]
    <3> SUFFICES ASSUME NEW i \in DOMAIN c PROVE c[i].function # stack[n]
      OBVIOUS
    <3>1. PICK k \in 1 .. n - 1 : c[i].function = stack[k]
      BY <1>1
    <3>2. k \in DOMAIN stack /\ k < n
      BY <1>2, <3>1
    <3> QED
      BY <1>4, <3>1, <3>2 DEF FirstSeen
  <2>5. \A i \in DOMAIN t : t[i] = Clue(t[i].function, rip)
    BY <1>1, <2>1, <2>3
  <2>6. \A i, j \in DOMAIN t : t[i].function = t[j].function => i = j
    BY <1>1, <2>1, <2>3, <2>4
  <2>7. \A l \in 1 .. n : \E i \in DOMAIN t : t[i].function = stack[l]
    <3> SUFFICES ASSUME NEW l \in 1 .. n PROVE \E i \in DOMAIN t : t[i].function = stack[l]
      OBVIOUS
    <3>1. CASE l = n
      BY <2>1, <2>3, <3>1
    <3>2. CASE l # n
      <4>1. l \in 1 .. n - 1
        BY <1>2, <3>2
      <4>2. PICK i \in DOMAIN c : c[i].function = stack[l]
        BY <1>1, <4>1
      <4> QED
        BY <2>3, <4>2
    <3> QED
      BY <3>1, <3>2
  <2>8. \A i \in DOMAIN t : \E l \in 1 .. n : t[i].function = stack[l]
    <3> SUFFICES ASSUME NEW i \in DOMAIN t PROVE \E l \in 1 .. n : t[i].function = stack[l]
      OBVIOUS
    <3>1. CASE i = m
      BY <1>2, <2>1, <2>3, <3>1
    <3>2. CASE i \in DOMAIN c
      <4>1. PICK l \in 1 .. n - 1 : c[i].function = stack[l]
        BY <1>1, <3>2
      <4>2. l \in 1 .. n
        BY <1>2
      <4> QED
        BY <2>3, <3>2, <4>1, <4>2
    <3> QED
      BY <2>3, <3>1, <3>2
  <2>9. CluesOf(t, stack, rip, n)
    BY <2>3, <2>5, <2>6, <2>7, <2>8 DEF CluesOf
  <2> QED
    BY <1>t, <2>9
<1> QED
  BY <1>3, <1>4

LEMMA StackCluesIs ==
    ASSUME NEW stack \in Seq(Functions), NEW rip
    PROVE  CluesOf(StackClues(stack, rip), stack, rip, Len(stack))
<1> DEFINE N == Len(stack)
           V == Seq(ClueOf)
           Fcn(f) == [n \in 0 .. N |-> IF n = 0 THEN <<>> ELSE WithClue(f[n - 1], stack, rip, n)]
           of == CHOOSE f : f = Fcn(f)
           step == [p \in (1 .. N) \X V |-> WithClue(p[2], stack, rip, p[1])]
           Holds == {n \in 0 .. N : CluesOf(of[n], stack, rip, n)}
<1>0. N \in Nat /\ <<>> \in V
  OBVIOUS
<1>1. step \in [(1 .. N) \X V -> V]
  BY WithClueTyped
<1>2. PICK g : Walks(g, V, <<>>, N, step)
  <2> HIDE DEF step, N, V
  <2> QED
    BY <1>0, <1>1, Recursion
<1>3. g = Fcn(g)
  <2>1. \A i \in 1 .. N : g[i] = WithClue(g[i - 1], stack, rip, i)
    <3>1. \A i \in 1 .. N, x \in V : step[<<i, x>>] = WithClue(x, stack, rip, i)
      OBVIOUS
    <3> HIDE DEF step, N, V
    <3>2. ASSUME NEW i \in 1 .. N PROVE i - 1 \in 0 .. N /\ g[i - 1] \in V
      BY <1>0, <1>2 DEF Walks
    <3> QED
      BY <1>2, <3>1, <3>2 DEF Walks
  <2>2. DOMAIN g = 0 .. N /\ g = [i \in 0 .. N |-> g[i]] /\ g[0] = <<>>
    BY <1>2 DEF Walks
  <2> QED
    BY <1>0, <2>1, <2>2
<1>4. of = Fcn(of)
  <2> HIDE DEF Fcn
  <2> QED
    BY <1>3
<1>5. of[0] = <<>> /\ \A i \in 1 .. N : of[i] = WithClue(of[i - 1], stack, rip, i)
  <2> HIDE DEF of
  <2> QED
    BY <1>0, <1>4
<1> HIDE DEF of
<1>6. 0 \in Holds
  <2>1. CluesOf(<<>>, stack, rip, 0)
    BY DEF CluesOf
  <2> QED
    BY <1>0, <1>5, <2>1
<1>7. \A n \in 1 .. N : n - 1 \in Holds => n \in Holds
  <2> SUFFICES ASSUME NEW n \in 1 .. N, n - 1 \in Holds PROVE n \in Holds
    OBVIOUS
  <2>1. CluesOf(of[n - 1], stack, rip, n - 1) /\ of[n] = WithClue(of[n - 1], stack, rip, n) /\ n \in 0 .. N
    BY <1>0, <1>5
  <2>2. CluesOf(of[n], stack, rip, n)
    BY <2>1, WithClueKeeps
  <2> QED
    BY <2>1, <2>2
<1>8. N \in Holds
  <2> HIDE DEF Holds, N
  <2> QED
    BY <1>0, <1>6, <1>7, InductionUpTo
<1>9. StackClues(stack, rip) = of[N]
  BY DEF StackClues, of
<1> QED
  BY <1>8, <1>9

\* Clues that name each function of the stack once, with one crash point.
CluesFit(stack, rip, c) ==
    /\ \A i, j \in DOMAIN c : c[i].function = c[j].function => i = j
    /\ Range(stack) \subseteq {c[i].function : i \in DOMAIN c}
    /\ Cardinality({i \in DOMAIN c : c[i].reason = "crash_point"}) = IF rip = NoFunction THEN 0 ELSE 1

\* The clues of a chain: those of the stack, with the crash point in front if it is not among them.
LEMMA CluesAre ==
    ASSUME NEW stack \in Seq(Functions), NEW rip \in Functions \cup {NoFunction}
    PROVE  CluesFit(stack, rip, Clues(stack, rip))
<1>c. PICK c : c = Clues(stack, rip)
  OBVIOUS
<1>a. PICK all : all = StackClues(stack, rip)
  OBVIOUS
<1>1. /\ all \in Seq(ClueOf) /\ DOMAIN all = 1 .. Len(all) /\ Len(all) \in Nat
      /\ \A i \in DOMAIN all : all[i] = Clue(all[i].function, rip)
      /\ \A i, j \in DOMAIN all : all[i].function = all[j].function => i = j
      /\ \A k \in 1 .. Len(stack) : \E i \in DOMAIN all : all[i].function = stack[k]
      /\ \A i \in DOMAIN all : \E k \in 1 .. Len(stack) : all[i].function = stack[k]
  <2>1. CluesOf(all, stack, rip, Len(stack))
    BY <1>a, StackCluesIs
  <2>2. all \in Seq(ClueOf)
    BY <2>1 DEF CluesOf
  <2>3. DOMAIN all = 1 .. Len(all) /\ Len(all) \in Nat
    BY <2>2
  <2> QED
    BY <2>1, <2>2, <2>3 DEF CluesOf
<1>2. Range(stack) \subseteq {all[i].function : i \in DOMAIN all}
  <2> SUFFICES ASSUME NEW f \in Range(stack) PROVE \E i \in DOMAIN all : all[i].function = f
    OBVIOUS
  <2>1. PICK k \in 1 .. Len(stack) : stack[k] = f
    BY DEF Range
  <2>2. \E i \in DOMAIN all : all[i].function = stack[k]
    BY <1>1
  <2> QED
    BY <2>1, <2>2
<1>3. \A i \in DOMAIN all : all[i].function \in Functions
  BY <1>1
<1> DEFINE Points(s) == {i \in DOMAIN s : s[i].reason = "crash_point"}
<1>4. \A i \in DOMAIN all : all[i].reason = "crash_point" <=> all[i].function = rip
  <2> SUFFICES ASSUME NEW i \in DOMAIN all PROVE all[i].reason = "crash_point" <=> all[i].function = rip
    OBVIOUS
  <2>1. PICK f \in Functions : f = all[i].function /\ all[i] = Clue(f, rip)
    BY <1>1, <1>3
  <2>2. all[i].reason = IF f = rip THEN "crash_point" ELSE "call_trace"
    BY <2>1 DEF Clue
  <2> QED
    BY <2>1, <2>2
<1>5. ASSUME rip = NoFunction PROVE CluesFit(stack, rip, c)
  <2>1. c = all
    BY <1>a, <1>c, <1>5 DEF Clues
  <2>2. Points(c) = {}
    BY <1>3, <1>4, <1>5, <2>1, FeaturesAssumption
  <2>3. Cardinality(Points(c)) = 0
    BY <2>2, FS_EmptySet
  <2>4. \A i, j \in DOMAIN c : c[i].function = c[j].function => i = j
    BY <1>1, <2>1
  <2>5. Range(stack) \subseteq {c[i].function : i \in DOMAIN c}
    BY <1>2, <2>1
  <2> QED
    BY <1>5, <2>3, <2>4, <2>5 DEF CluesFit
<1>6. ASSUME rip # NoFunction, \E i \in DOMAIN all : all[i].function = rip
      PROVE  CluesFit(stack, rip, c)
  <2>1. c = all
    BY <1>a, <1>c, <1>6 DEF Clues
  <2>2. PICK k \in DOMAIN all : all[k].function = rip
    BY <1>6
  <2>3. Points(c) = {k}
    <3>1. k \in DOMAIN c /\ c[k].reason = "crash_point"
      BY <1>4, <2>1, <2>2
    <3>2. \A j \in DOMAIN c : c[j].reason = "crash_point" => c[j].function = c[k].function
      BY <1>4, <2>1, <2>2
    <3>3. \A j \in DOMAIN c : c[j].reason = "crash_point" => j = k
      BY <1>1, <2>1, <3>1, <3>2
    <3> QED
      BY <3>1, <3>3
  <2>4. Cardinality(Points(c)) = 1
    BY <2>3, FS_Singleton
  <2>5. \A i, j \in DOMAIN c : c[i].function = c[j].function => i = j
    BY <1>1, <2>1
  <2>6. Range(stack) \subseteq {c[i].function : i \in DOMAIN c}
    BY <1>2, <2>1
  <2> QED
    BY <1>6, <2>4, <2>5, <2>6 DEF CluesFit
<1>7. ASSUME rip # NoFunction, ~\E i \in DOMAIN all : all[i].function = rip
      PROVE  CluesFit(stack, rip, c)
  <2>1. PICK new \in ClueOf : new = Clue(rip, rip) /\ new.function = rip /\ new.reason = "crash_point"
    <3>1. Clue(rip, rip) \in ClueOf /\ Clue(rip, rip).function = rip
                     /\ Clue(rip, rip).reason = IF rip = rip THEN "crash_point" ELSE "call_trace"
      BY ClueTyped
    <3> QED
      BY <3>1
  <2>2. c = <<new>> \o all
    BY <1>a, <1>c, <1>7, <2>1 DEF Clues
  <2>3. /\ DOMAIN c = 1 .. Len(all) + 1 /\ c[1] = new
        /\ \A i \in 1 .. Len(all) : c[i + 1] = all[i]
    <3>1. PICK one : one = <<new>>
      OBVIOUS
    <3>2. one \in Seq(ClueOf)
      BY <2>1, <3>1
    <3>3. all \in Seq(ClueOf)
      BY <1>1
    <3>4. /\ one \o all \in Seq(ClueOf) /\ Len(one \o all) = Len(one) + Len(all)
          /\ \A i \in 1 .. Len(one) : (one \o all)[i] = one[i]
          /\ \A i \in 1 .. Len(all) : (one \o all)[Len(one) + i] = all[i]
      BY <3>2, <3>3, ConcatIs
    <3>5. Len(one) = 1 /\ one[1] = new
      BY <3>1
    <3>6. PICK d : d = one \o all
      OBVIOUS
    <3>7. /\ d \in Seq(ClueOf) /\ Len(d) = 1 + Len(all) /\ d[1] = new
          /\ \A i \in 1 .. Len(all) : d[1 + i] = all[i]
      BY <3>4, <3>5, <3>6
    <3>8. c = d
      BY <2>2, <3>1, <3>6
    <3> QED
      BY <1>1, <3>7, <3>8
  <2>4. \A i \in DOMAIN c : (i = 1 /\ c[i] = new) \/ (i - 1 \in DOMAIN all /\ c[i] = all[i - 1])
    <3> SUFFICES ASSUME NEW i \in DOMAIN c, i # 1 PROVE i - 1 \in DOMAIN all /\ c[i] = all[i - 1]
      BY <2>3
    <3>1. i - 1 \in 1 .. Len(all) /\ (i - 1) + 1 = i
      BY <1>1, <2>3
    <3> QED
      BY <1>1, <2>3, <3>1
  <2>5. ASSUME NEW i \in DOMAIN c, NEW j \in DOMAIN c, c[i].function = c[j].function PROVE i = j
    <3>1. i \in Int /\ j \in Int
      BY <1>1, <2>3
    <3>2. CASE i = 1 \/ j = 1
      <4>1. c[i].function = rip
        BY <2>1, <2>3, <2>5, <3>2
      <4>2. ASSUME NEW k \in DOMAIN c, c[k].function = rip PROVE k = 1
        BY <1>7, <2>4, <4>2
      <4> QED
        BY <2>5, <4>1, <4>2
    <3>3. CASE i # 1 /\ j # 1
      <4>1. i - 1 = j - 1
        BY <1>1, <2>4, <2>5, <3>3
      <4> QED
        BY <3>1, <4>1
    <3> QED
      BY <3>2, <3>3
  <2>6. Range(stack) \subseteq {c[i].function : i \in DOMAIN c}
    <3> SUFFICES ASSUME NEW f \in Range(stack) PROVE \E i \in DOMAIN c : c[i].function = f
      OBVIOUS
    <3>1. PICK i \in DOMAIN all : all[i].function = f
      BY <1>2
    <3>2. i + 1 \in DOMAIN c /\ c[i + 1] = all[i]
      BY <1>1, <2>3, <3>1
    <3> QED
      BY <3>1, <3>2
  <2>7. Points(c) = {1}
    <3>1. 1 \in DOMAIN c /\ c[1].reason = "crash_point"
      BY <1>1, <2>1, <2>3
    <3>2. \A i \in DOMAIN c : c[i].reason = "crash_point" => i = 1
      BY <1>4, <1>7, <2>4
    <3> QED
      BY <3>1, <3>2
  <2>8. Cardinality(Points(c)) = 1
    BY <2>7, FS_Singleton
  <2> QED
    BY <1>7, <2>5, <2>6, <2>8 DEF CluesFit
<1> QED
  BY <1>c, <1>5, <1>6, <1>7

LEMMA BuildChainKeeps == BuildChain => TimelineInOrder' /\ OneCrashPoint'
<1> SUFFICES ASSUME BuildChain PROVE TimelineInOrder' /\ OneCrashPoint'
  OBVIOUS
<1>1. PICK events \in SeqsUpTo(Times \cup {NoTime}, MaxFrames), given \in SeqsUpTo(Functions, MaxFrames),
           rip \in Functions \cup {NoFunction}, null \in BOOLEAN :
        LET stack == IF given = <<>> /\ rip # NoFunction THEN <<rip>> ELSE given IN
        chain' = [events |-> events, timeline |-> Timeline(events),
                  stack |-> stack, rip |-> rip, null |-> null,
                  edges |-> Edges(stack, rip, null), clues |-> Clues(stack, rip)]
  BY DEF BuildChain
<1>2. PICK stack : stack = IF given = <<>> /\ rip # NoFunction THEN <<rip>> ELSE given
  OBVIOUS
<1>3. /\ chain'.events = events /\ chain'.timeline = Timeline(events) /\ chain'.stack = stack
      /\ chain'.rip = rip /\ chain'.clues = Clues(stack, rip)
  BY <1>1, <1>2
<1>4. \A S, s : s \in SeqsUpTo(S, MaxFrames) => s \in Seq(S)
  <2> SUFFICES ASSUME NEW S, NEW s \in SeqsUpTo(S, MaxFrames) PROVE s \in Seq(S)
    OBVIOUS
  <2>1. PICK m \in 0 .. MaxFrames : s \in [1 .. m -> S]
    BY DEF SeqsUpTo
  <2> QED
    BY <2>1, FeaturesAssumption
<1>5. events \in Seq(Times \cup {NoTime}) /\ given \in Seq(Functions)
  BY <1>4
<1>6. stack \in Seq(Functions)
  BY <1>2, <1>5
<1>7. TimelineInOrder'
  <2>1. events \in Seq(Times \cup {NoTime})
    BY <1>5
  <2>2. TimelineFits(events, Timeline(events))
    BY <2>1, TimelineIs
  <2> QED
    BY <1>3, <2>2 DEF TimelineInOrder, TimelineFits, EventBefore
<1>8. OneCrashPoint'
  <2>1. CluesFit(stack, rip, Clues(stack, rip))
    BY <1>6, CluesAre
  <2> QED
    BY <1>3, <2>1 DEF OneCrashPoint, CluesFit
<1> QED
  BY <1>7, <1>8

\* What is extracted from the material of a crash is of one crash and in order
\* (crash_matcher's parse_dmesg and build_analysis_chain): the signature is that of the
\* report whose bug line was found, the timeline has each event once in the order of time,
\* the clues each function once with one crash point, for a log of any length with any
\* windows, any events and any stack.
THEOREM FeaturesStaySound == Spec => []FeaturesAreSound
<1> DEFINE CfInv == LogInv /\ TimelineInOrder /\ OneCrashPoint
<1>1. Init => CfInv
  BY LogInvInit DEF Init, CfInit, TimelineInOrder, OneCrashPoint
<1>2. CfInv /\ [Next]_vars => CfInv'
  <2> SUFFICES ASSUME CfInv, [CfNext]_cfVars PROVE CfInv'
    BY DEF Next, OfCommunity, OfIssues, OfFeatures, OfReport, OfBlock, vars, cfVars
  <2>0. LogInv /\ TimelineInOrder /\ OneCrashPoint
    OBVIOUS
  <2>1. LogInv'
    BY <2>0, LogInvStep
  <2>2. CASE BuildChain
    BY <2>1, <2>2, BuildChainKeeps
  <2>3. CASE Given \/ ReadLine \/ Crop \/ Dmesg \/ Hardware \/ Stacks
    <3>1. cfAt' # "chain"
      BY <2>3 DEF Given, ReadLine, Crop, Dmesg, Hardware, Stacks
    <3> QED
      BY <2>1, <3>1 DEF TimelineInOrder, OneCrashPoint
  <2>4. CASE UNCHANGED cfVars
    <3>1. cfAt' = cfAt /\ chain' = chain
      BY <2>4 DEF cfVars
    <3>2. TimelineInOrder'
      BY <2>0, <3>1 DEF TimelineInOrder
    <3>3. OneCrashPoint'
      BY <2>0, <3>1 DEF OneCrashPoint
    <3> QED
      BY <2>1, <3>2, <3>3
  <2> QED
    BY <2>2, <2>3, <2>4 DEF CfNext
<1>3. CfInv => FeaturesAreSound
  BY DEF LogInv, FeaturesAreSound
<1> QED
  BY <1>1, <1>2, <1>3, PTL DEF Spec
=============================================================================
