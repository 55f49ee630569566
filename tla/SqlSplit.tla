------------------------------- MODULE SqlSplit -------------------------------
(***************************************************************************)
(* An SQL statement that the caller hands to the Elasticsearch engine and  *)
(* that holds `id IN (SELECT ...)`, which Elasticsearch cannot run: the    *)
(* engine splits it, either asking the outer part first and the subquery   *)
(* for the candidates found, batch by batch, or the subquery first.        *)
(*                                                                         *)
(* A statement is a record                                                 *)
(*   pre    the conditions before the IN, {} if there are none             *)
(*   link   what joins them to the IN, "and" or "or"                       *)
(*   sub    the alternatives of the subquery's WHERE, {} if it has none    *)
(*   rest   the conditions after the IN, joined by AND                     *)
(*   ided   whether the outer SELECT has the id column                     *)
(* A condition is a value of the row's tag.  Rows that a call cuts are any *)
(* rows: no property depends on the order they are cut by.                 *)
(***************************************************************************)
EXTENDS Naturals, FiniteSets, Sequences

CONSTANTS Statements, Tables,   \* [outer |-> rows [id, tag], sub |-> rows [id, tag]]
          ProbeCap,             \* rows of the outer probe (15000)
          BatchSize,            \* candidates and rows of one subquery call (800)
          SubCap, IdCap,        \* rows of the subquery (5000) and ids used of it (2000)
          SqlSize               \* rows of an answer

ASSUME SqlSplitAssumption == {ProbeCap, BatchSize, SubCap, IdCap, SqlSize} \subseteq Nat \ {0}

VARIABLES sqlPc, stmt, table, found, candidates, hits, sqlAnswer, sqlCut

sqlVars == <<sqlPc, stmt, table, found, candidates, hits, sqlAnswer, sqlCut>>

AllOf(row, conds) == \A c \in conds : row.tag = c
AnyOf(row, conds) == conds = {} \/ row.tag \in conds
Id(rows) == {r.id : r \in rows}

\* Any n of the rows, if there are more.
AtMost(rows, n) ==
  IF Cardinality(rows) <= n THEN {rows} ELSE {s \in SUBSET rows : Cardinality(s) = n}

(* What the statement says: AND binds stronger than OR. *)
SubRows == {r \in table.sub : AnyOf(r, stmt.sub)}
Selected(row) ==
  LET in == row.id \in Id(SubRows) /\ AllOf(row, stmt.rest) IN
  IF stmt.link = "or" THEN (stmt.pre # {} /\ AllOf(row, stmt.pre)) \/ in
                      ELSE AllOf(row, stmt.pre) /\ in
Said == {r \in table.outer : Selected(r)}

-----------------------------------------------------------------------------
SqlInit ==
  /\ sqlPc = "idle" /\ stmt = <<>> /\ table = <<>> /\ found = {} /\ candidates = {}
  /\ hits = {} /\ sqlAnswer = {} /\ sqlCut = FALSE

\* execute, _parse_in_subquery, _execute_semi_join_sql
OuterFirst(s) == s.pre # {}

Submit ==
  /\ sqlPc = "idle"
  /\ stmt' \in Statements /\ table' \in Tables
  /\ sqlPc' = IF OuterFirst(stmt') THEN "probe" ELSE "sub"
  /\ UNCHANGED <<found, candidates, hits, sqlAnswer, sqlCut>>

\* The statement up to the IN, without what stands after it.
Probe ==
  /\ sqlPc = "probe"
  /\ LET all == {r \in table.outer : AllOf(r, stmt.pre)} IN
     \E got \in AtMost(all, ProbeCap) :
       /\ found' = got
       /\ candidates' = IF stmt.ided THEN Id(got) ELSE {}
       /\ sqlCut' = (got # all)
       /\ sqlPc' = IF stmt.ided THEN "batches" ELSE "failed"
  /\ UNCHANGED <<stmt, table, hits, sqlAnswer>>

\* _inject_in_filter: the subquery's own WHERE in parentheses AND the ids.
Injected(ids) == {r \in table.sub : AnyOf(r, stmt.sub) /\ r.id \in ids}

\* Mutant: only the first batch of candidates is asked for.
BatchOnce ==
  /\ sqlPc = "batches" /\ candidates # {}
  /\ \E ids \in AtMost(candidates, BatchSize) : \E got \in AtMost(Injected(ids), BatchSize) :
       /\ hits' = hits \cup Id(got)
       /\ candidates' = {}
       /\ sqlCut' = (sqlCut \/ got # Injected(ids))
  /\ UNCHANGED <<sqlPc, stmt, table, found, sqlAnswer>>

Batch ==
  /\ sqlPc = "batches" /\ candidates # {}
  /\ \E ids \in AtMost(candidates, BatchSize) : \E got \in AtMost(Injected(ids), BatchSize) :
       /\ hits' = hits \cup Id(got)
       /\ candidates' = candidates \ ids
       /\ sqlCut' = (sqlCut \/ got # Injected(ids))
  /\ UNCHANGED <<sqlPc, stmt, table, found, sqlAnswer>>

Hit == {r \in found : r.id \in hits}

FilterFound ==
  /\ sqlPc = "batches" /\ candidates = {}
  /\ \E got \in AtMost(Hit, SqlSize) : sqlAnswer' = got /\ sqlCut' = (sqlCut \/ got # Hit)
  /\ sqlPc' = "done"
  /\ UNCHANGED <<stmt, table, found, candidates, hits>>

\* _semi_join_sub_first: the first ids only.
Subquery ==
  /\ sqlPc = "sub"
  /\ \E got \in AtMost(SubRows, SubCap) : \E ids \in AtMost(Id(got), IdCap) :
       hits' = ids /\ sqlCut' = (ids # Id(SubRows))
  /\ sqlPc' = IF hits' = {} THEN "done" ELSE "outer"
  /\ UNCHANGED <<stmt, table, found, candidates, sqlAnswer>>

OuterCall ==
  /\ sqlPc = "outer"
  /\ LET all == {r \in table.outer : r.id \in hits /\ AllOf(r, stmt.rest)} IN
     \E got \in AtMost(all, SqlSize) : sqlAnswer' = got /\ sqlCut' = (sqlCut \/ got # all)
  /\ sqlPc' = "done"
  /\ UNCHANGED <<stmt, table, found, candidates, hits>>

SqlNext == Submit \/ Probe \/ Batch \/ FilterFound \/ Subquery \/ OuterCall

-----------------------------------------------------------------------------
\* What the outer-first split cannot say: conditions after the IN, and OR.
Unsplit == OuterFirst(stmt) /\ (stmt.rest # {} \/ stmt.link = "or")

(***************************************************************************)
(* The split statement answers what the statement says: no row it does not *)
(* select, and all of them unless some call was cut.                       *)
(***************************************************************************)
SplitAnswers ==
  sqlPc = "done" => sqlAnswer \subseteq Said /\ (~sqlCut => Said \subseteq sqlAnswer)

\* The same, for the statements that the split can say.
SplitIsExact == sqlPc = "done" /\ ~Unsplit => SplitAnswers
=============================================================================
