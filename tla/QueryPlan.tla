------------------------------ MODULE QueryPlan ------------------------------
(***************************************************************************)
(* A query plan of the NL2SQL agent: the model's plan is parsed (its split *)
(* alternatives are merged), cleaned against the schema, and executed by   *)
(* single-index calls: one per semi-join, then the main index by chunks of *)
(* keys.                                                                   *)
(*                                                                         *)
(* A plan is a record                                                      *)
(*   select  the projected fields, {} for "*"                              *)
(*   where   the set of conditions on the main index, joined by AND        *)
(*   joins   a sequence of semi-joins [index, lk, fk, where, op, groups]   *)
(*   order   the sequence of order fields                                  *)
(* A condition [field, op, vals] holds of a row whose field has a value in *)
(* vals; "=" has one value.  The order of rows and of the conditions of a  *)
(* list is left out, and a call that is cut keeps any rows: the order it   *)
(* cuts by is the plan's, and no property depends on which rows are kept.  *)
(***************************************************************************)
EXTENDS Naturals, FiniteSets, Sequences, SequencesExt

CONSTANTS Plans,       \* the plans a model may write
          Contents,    \* the contents of the indexes: [main |-> rows, sub |-> rows]
          MainFields, SubFields,
          KeyNames,    \* _JOIN_KEY_CANDIDATES
          DefaultOrder,\* the order fields of an index nothing is known of
          SemiCap,     \* rows of one semi-join call (sj_cap)
          InChunk,     \* keys of one outer call (_IN_CHUNK)
          MaxSize      \* rows of an answer (max_size)

\* A list of conditions: the value of "=" is one.
Conditions(ps) == IsFiniteSet(ps) /\ \A p \in ps : p.op = "=" => \E v \in p.vals : p.vals = {v}

\* What pydantic lets through.
IsJoin(j) == /\ j = [index |-> j.index, lk |-> j.lk, fk |-> j.fk, where |-> j.where, op |-> j.op, groups |-> j.groups]
             /\ Conditions(j.where)
IsPlan(p) == /\ p = [select |-> p.select, where |-> p.where, joins |-> p.joins, order |-> p.order]
             /\ Conditions(p.where)
             /\ p.joins \in Seq(Range(p.joins)) /\ \A j \in Range(p.joins) : IsJoin(j)

ASSUME QueryPlanAssumption ==
  /\ SemiCap \in Nat \ {0} /\ InChunk \in Nat \ {0} /\ MaxSize \in Nat \ {0}
  /\ Len(KeyNames) > 0
  /\ \A p \in Plans : IsPlan(p)
  /\ \A c \in Contents : /\ IsFiniteSet(c.main) /\ \A r \in c.main : DOMAIN r = MainFields
                         /\ IsFiniteSet(c.sub) /\ \A r \in c.sub : DOMAIN r = SubFields

VARIABLES planPc, asked, plan, content, schema, nextJoin, keys, chunk,
          answer, cut, unapplied

planVars == <<planPc, asked, plan, content, schema, nextJoin, keys, chunk,
              answer, cut, unapplied>>

FieldsOf(index) == IF index = "main" THEN MainFields ELSE SubFields
RowsOf(index)   == IF index = "main" THEN content.main ELSE content.sub

-----------------------------------------------------------------------------
(* What a plan says, read by itself. *)

Holds(row, p) == p.field \in DOMAIN row /\ row[p.field] \in p.vals
AllHold(row, ps) == \A p \in ps : Holds(row, p)

\* where_sql and compile_semi_join_sql: an empty list is no condition, and is
\* none of the alternatives.
Alternatives(j) == j.groups \ {{}}
Passes(row, j) ==
  CASE j.groups # {}                   -> Alternatives(j) = {} \/ \E g \in Alternatives(j) : AllHold(row, g)
    [] j.groups = {} /\ j.op = "or"    -> j.where = {} \/ \E p \in j.where : Holds(row, p)
    [] j.groups = {} /\ j.op # "or"    -> AllHold(row, j.where)

KeysOf(j) == {r[j.fk] : r \in {s \in RowsOf(j.index) : j.fk \in DOMAIN s /\ Passes(s, j)}}

Joined(row, j) == j.lk \in DOMAIN row /\ row[j.lk] \in KeysOf(j)

Matching(p) == {r \in content.main : /\ AllHold(r, p.where)
                                     /\ \A i \in DOMAIN p.joins : Joined(r, p.joins[i])}

Columns(p)  == IF p.select = {} THEN MainFields ELSE p.select
Shown(p, r) == [f \in Columns(p) |-> r[f]]

-----------------------------------------------------------------------------
(* parse_ir: consecutive semi-joins on the same keys that only hold like   *)
(* and in conditions are read as alternatives of one semi-join.            *)

SameKeys(a, b) == a.index = b.index /\ a.lk = b.lk /\ a.fk = b.fk

\* The conditions of a semi-join for the test: those of its groups, if any.
JoinPreds(j) == IF j.groups # {} THEN UNION j.groups ELSE j.where

ShouldMerge(run) ==
  /\ Len(run) > 1
  /\ \A i \in DOMAIN run : /\ JoinPreds(run[i]) # {}
                           /\ \A p \in JoinPreds(run[i]) : p.op \in {"like", "in"}

Groups(run) == {run[i].where : i \in DOMAIN run} \ {{}}

MergeRun(run) ==
  IF ShouldMerge(run) /\ Groups(run) # {}
    THEN <<[Head(run) EXCEPT !.where = {}, !.op = "or", !.groups = Groups(run)]>>
    ELSE run

\* The maximal runs of neighbours with the same keys.
AddToRuns(runs, j) ==
  IF runs # <<>> /\ SameKeys(Head(Last(runs)), j)
    THEN Append(Front(runs), Append(Last(runs), j))
    ELSE Append(runs, <<j>>)
Runs(joins) ==
  LET runs[n \in 0 .. Len(joins)] == IF n = 0 THEN <<>> ELSE AddToRuns(runs[n - 1], joins[n])
  IN  runs[Len(joins)]

Merge(p) ==
  LET runs == Runs(p.joins) IN
  IF Len(p.joins) <= 1 THEN p
    ELSE [p EXCEPT !.joins = FlattenSeq([i \in DOMAIN runs |-> MergeRun(runs[i])])]

\* A run that is merged although one of its semi-joins already is a choice
\* of its own: its conditions become one AND list, and its groups are lost.
ChoiceIsMerged(p) ==
  \E run \in Range(Runs(p.joins)) :
     /\ ShouldMerge(run) /\ Groups(run) # {}
     /\ \E k \in DOMAIN run : run[k].op = "or" \/ run[k].groups # {}

-----------------------------------------------------------------------------
(* sanitize_ir *)

EqValues(ps, f) == {p.vals : p \in {q \in ps : q.field = f /\ q.op = "="}}
Contradictory(ps) == {f \in {p.field : p \in ps} : Cardinality(EqValues(ps, f)) > 1}
WithoutEq(ps, f)  == {p \in ps : ~(p.field = f /\ p.op = "=")}
Eq(f, vals) == [field |-> f, op |-> "=", vals |-> vals]

\* A contradictory semi-join becomes one per value; one field at a time.
Split(j) ==
  LET f  == CHOOSE g \in Contradictory(j.where) : TRUE
      vs == SetToSeq(EqValues(j.where, f))
  IN  [i \in DOMAIN vs |-> [j EXCEPT !.where = WithoutEq(j.where, f) \cup {Eq(f, vs[i])}]]

SplitJoin(j) ==
  IF j.op = "or" \/ j.groups # {} \/ Contradictory(j.where) = {} THEN <<j>> ELSE Split(j)

JoinKey(p) == IF p.order # <<>> THEN Head(p.order) ELSE KeyNames[1]

\* Of a contradiction on the main index the first value stays; every other
\* one becomes a semi-join of the main index with itself.
Kept(ps, f) == CHOOSE v \in EqValues(ps, f) : TRUE
SelfJoin(p, f, v) == [index |-> "main", lk |-> JoinKey(p), fk |-> JoinKey(p),
                      where |-> {Eq(f, v)}, op |-> "and", groups |-> {}]
SelfJoins(p) ==
  LET bad == Contradictory(p.where)
  IN  [where |-> {q \in p.where : q.field \in bad /\ q.op = "=" => q.vals = Kept(p.where, q.field)},
       joins |-> SetToSeq(UNION {{SelfJoin(p, f, v) : v \in EqValues(p.where, f) \ {Kept(p.where, f)}} : f \in bad})]

Rewrite(p) ==
  LET self == SelfJoins(p) IN
  [p EXCEPT !.where = self.where,
            !.joins = FlattenSeq([i \in DOMAIN p.joins |-> SplitJoin(p.joins[i])])
                      \o self.joins]

\* A self-join on a key the main index does not have gets one that it has.
KnownKeys(p) == SelectSeq(p.order \o KeyNames, LAMBDA k : k \in MainFields)
Fixed(j, key) ==
  IF j.index = "main" /\ j.lk \notin MainFields THEN [j EXCEPT !.lk = key, !.fk = key] ELSE j
FixKeys(p) ==
  IF KnownKeys(p) = <<>> THEN p
    ELSE [p EXCEPT !.joins = [i \in DOMAIN p.joins |-> Fixed(p.joins[i], Head(KnownKeys(p)))]]

\* Unknown fields are dropped; an unknown key of a semi-join is an error.
Known(ps, fields) == {p \in ps : p.field \in fields}
KnownOrder(p) == SelectSeq(p.order, LAMBDA f : f \in MainFields)
DropIn(j) == [j EXCEPT !.where  = Known(j.where, FieldsOf(j.index)),
                       !.groups = {Known(g, FieldsOf(j.index)) : g \in j.groups} \ {{}}]
Drop(p) == [p EXCEPT !.select = p.select \cap MainFields,
                     !.order  = KnownOrder(p),
                     !.where  = Known(p.where, MainFields),
                     !.joins  = [i \in DOMAIN p.joins |-> DropIn(p.joins[i])]]

KeysKnown(p) == \A i \in DOMAIN p.joins : /\ p.joins[i].lk \in MainFields
                                          /\ p.joins[i].fk \in FieldsOf(p.joins[i].index)

\* range(3)
Rewritten(p) == LET once  == Rewrite(p)
                    twice == Rewrite(once)
                IN  Rewrite(twice)

-----------------------------------------------------------------------------
PlanInit ==
  /\ planPc = "idle" /\ asked = <<>> /\ plan = <<>> /\ content = <<>> /\ schema = FALSE
  /\ nextJoin = 1 /\ keys = <<>> /\ chunk = {} /\ answer = {}
  /\ cut = FALSE /\ unapplied = {}

\* generate_query, parse_ir; the schema may be out of reach.
Parse ==
  /\ planPc = "idle" /\ planPc' = "parsed"
  /\ asked' \in Plans /\ plan' = Merge(asked')
  /\ content' \in Contents /\ schema' \in BOOLEAN
  /\ UNCHANGED <<nextJoin, keys, chunk, answer, cut, unapplied>>

\* sanitize_ir
Sanitize ==
  /\ planPc = "parsed"
  /\ LET p == IF schema THEN FixKeys(Rewritten(plan)) ELSE Rewritten(plan) IN
       IF schema /\ ~KeysKnown(p)
         THEN planPc' = "failed" /\ plan' = p
         ELSE planPc' = "joining" /\ plan' = IF schema THEN Drop(p) ELSE p
  /\ UNCHANGED <<asked, content, schema, nextJoin, keys, chunk, answer, cut, unapplied>>

\* A call that names a field its index does not have is refused.
PredFields(ps) == {p.field : p \in ps}
JoinFields(j)  == PredFields(JoinPreds(j)) \cup {j.fk}
Order(p) == IF p.order # <<>> THEN Range(p.order)
              ELSE IF p.select # {} THEN p.select ELSE DefaultOrder
OuterFields(p, k) == PredFields(p.where) \cup p.select \cup Order(p) \cup k

\* Any n of the rows, if there are more.
Cuts(rows, n) ==
  IF Cardinality(rows) <= n THEN {rows} ELSE {s \in SUBSET rows : Cardinality(s) = n}

\* Mutant: a key's later semi-joins are added to its first.
IntersectedAny(lk, ids) ==
  [k \in DOMAIN keys \cup {lk} |->
     CASE k = lk /\ k \in DOMAIN keys    -> keys[k] \cup ids
       [] k = lk /\ k \notin DOMAIN keys -> ids
       [] k # lk                         -> keys[k]]

\* keys holds, by local key, what the semi-joins so far have left.
Intersected(lk, ids) ==
  [k \in DOMAIN keys \cup {lk} |->
     CASE k = lk /\ k \in DOMAIN keys    -> keys[k] \cap ids
       [] k = lk /\ k \notin DOMAIN keys -> ids
       [] k # lk                         -> keys[k]]

\* One semi-join: execute, _extract_id_set.
SemiJoin ==
  /\ planPc = "joining" /\ nextJoin <= Len(plan.joins)
  /\ LET j == plan.joins[nextJoin]
         hits == {r \in RowsOf(j.index) : Passes(r, j)}
     IN IF ~(JoinFields(j) \subseteq FieldsOf(j.index))
          THEN planPc' = "failed" /\ UNCHANGED <<nextJoin, keys, cut>>
          ELSE \E got \in Cuts(hits, SemiCap) :
                 /\ keys' = Intersected(j.lk, {r[j.fk] : r \in got})
                 /\ cut' = (cut \/ got # hits)
                 /\ nextJoin' = nextJoin + 1
                 /\ UNCHANGED planPc
  /\ UNCHANGED <<asked, plan, content, schema, chunk, answer, unapplied>>

\* The smallest key set leads; equal ones in the order they were met.
Primary ==
  CHOOSE k \in DOMAIN keys : \A l \in DOMAIN keys : Cardinality(keys[k]) <= Cardinality(keys[l])

\* One outer call on the rows that also satisfy `also`.
Outer(also, k) ==
  LET hits == {r \in content.main : AllHold(r, plan.where) /\ also[r]} IN
  IF ~(OuterFields(plan, k) \subseteq MainFields)
    THEN planPc' = "failed" /\ UNCHANGED <<answer, cut>>
    ELSE \E got \in Cuts(hits, MaxSize) :
           /\ answer' = answer \cup {Shown(plan, r) : r \in got}
           /\ cut' = (cut \/ got # hits)
           /\ UNCHANGED planPc

\* A plan without semi-joins is one call.
Single ==
  /\ planPc = "joining" /\ plan.joins = <<>>
  /\ LET hits == {r \in content.main : AllHold(r, plan.where)} IN
     IF ~(OuterFields(plan, {}) \subseteq MainFields)
       THEN planPc' = "failed" /\ UNCHANGED <<answer, cut>>
       ELSE /\ planPc' = "done"
            /\ \E got \in Cuts(hits, MaxSize) : /\ answer' = {Shown(plan, r) : r \in got}
                                                /\ cut' = (got # hits)
  /\ UNCHANGED <<asked, plan, content, schema, nextJoin, keys, chunk, unapplied>>

\* _outer_with_ids begins; no keys, no call.
Lead ==
  /\ planPc = "joining" /\ plan.joins # <<>> /\ nextJoin > Len(plan.joins)
  /\ planPc' = IF keys[Primary] = {} THEN "done" ELSE "outer"
  /\ chunk' = keys[Primary]
  /\ UNCHANGED <<asked, plan, content, schema, nextJoin, keys, answer, cut, unapplied>>

\* One chunk of the IN list.
OuterChunk ==
  /\ planPc = "outer" /\ chunk # {}
  /\ \E ids \in Cuts(chunk, InChunk) :
       /\ Outer([r \in content.main |-> Primary \in DOMAIN r /\ r[Primary] \in ids], {Primary})
       /\ chunk' = chunk \ ids
  /\ UNCHANGED <<asked, plan, content, schema, nextJoin, keys, unapplied>>

\* The chunks are merged and cut; the other keys filter what is left of the
\* answer, if it has their column.
Filter ==
  /\ planPc = "outer" /\ chunk = {}
  /\ LET others == DOMAIN keys \ {Primary}
         shown  == others \cap Columns(plan)
     IN \E got \in Cuts(answer, MaxSize) :
          /\ answer' = {r \in got : \A k \in shown : r[k] \in keys[k]}
          /\ cut' = (cut \/ got # answer)
          /\ unapplied' = others \ shown
  /\ planPc' = "done"
  /\ UNCHANGED <<asked, plan, content, schema, nextJoin, keys, chunk>>

PlanNext ==
  \/ Parse \/ Sanitize \/ SemiJoin \/ Single \/ Lead \/ OuterChunk \/ Filter

-----------------------------------------------------------------------------
(***************************************************************************)
(* The answer of a plan is what the plan, read by itself, says: never a    *)
(* row it does not match, unless a key's column was projected away, and    *)
(* all the rows it matches, unless some call was cut.                      *)
(***************************************************************************)
AnswersPlan ==
  planPc = "done" =>
    LET right == {Shown(plan, r) : r \in Matching(plan)} IN
      /\ unapplied = {} => answer \subseteq right
      /\ ~cut => right \subseteq answer

(***************************************************************************)
(* Merging and cleaning never make a plan narrower: a row that the plan    *)
(* asks for as the model wrote it is still asked for afterwards.           *)
(***************************************************************************)
NeverNarrower ==
  planPc = "joining" /\ nextJoin = 1 => Matching(asked) \subseteq Matching(plan)

\* Alternatives hide the conditions of a list, which count again when cleaning has
\* dropped all the alternatives.
HidesConditions(p) == \E j \in Range(p.joins) : j.groups # {} /\ j.where # {}

\* The same, but for the merging that ChoiceIsMerged describes and for plans that
\* give a semi-join both a list and alternatives.
NarrowerOnlyByMerging ==
  planPc = "joining" /\ ~ChoiceIsMerged(asked) /\ ~HidesConditions(asked) => NeverNarrower

(***************************************************************************)
(* A plan that was cleaned against the schema is not refused by the        *)
(* engine, unless the order fields it is given by default are unknown, and *)
(* no list of it still asks one field for two values: a semi-join may do   *)
(* so of three fields, as one is split in each of the three rounds.        *)
(***************************************************************************)
ThreeAtMost(p) == \A j \in Range(p.joins) : Cardinality(Contradictory(j.where)) <= 3
CleanedPlanRuns ==
  planPc \in {"joining", "outer", "done", "failed"} /\ schema /\ KeysKnown(plan) =>
    /\ planPc = "failed" => ~(Order(plan) \subseteq MainFields)
    /\ Contradictory(plan.where) = {}
    /\ ThreeAtMost(asked) /\ ~HidesConditions(asked) =>
          \A j \in Range(plan.joins) : j.op = "and" => Contradictory(j.where) = {}

\* All three: from the plan as the model wrote it to the rows of the answer,
\* no step widens, narrows or breaks what is asked for.
PlanIsAnswered == AnswersPlan /\ NarrowerOnlyByMerging /\ CleanedPlanRuns
=============================================================================
