------------------------------- MODULE ResultStore -------------------------------
(***************************************************************************)
(* How a worker of witty-log-detection stores the results of a task and a   *)
(* client pages through them: add_log_parse_results in batches, the SQL     *)
(* layer with its one retry on a new connection (sqlite.py), and            *)
(* get_task_result with its count and its page.  Connections commit every   *)
(* statement by itself (isolation_level=None), each row of executemany too. *)
(***************************************************************************)
EXTENDS Integers, FiniteSets

CONSTANTS Results,     \* number of results; result i is the i-th of the list
          BatchSize,
          Rank,        \* their order by score: a permutation of 1 .. Results
          Limits,      \* the limit that a client gives; below 1 it means no limit
          MaxErrors    \* errors of the database in a behaviour

ResultIds == 1 .. Results

ASSUME ResultStoreAssumption ==
    /\ Results \in Nat /\ BatchSize \in Nat \ {0} /\ MaxErrors \in Nat
    /\ Rank \in [ResultIds -> Int] /\ Limits \subseteq Int

VARIABLES
    stored,      \* results in log_parse_result_table
    writing,     \* add_log_parse_results: first and next result of the batch,
                 \* the attempt at it, and what is returned
    paging,      \* a client: where it is, its limit and offset, the total it was
                 \* told, the results it has got, and how often
    dbErrors,
    disturbed    \* history: results came, or a query was given up, since the
                 \* client began

storeVars == <<stored, writing, paging, dbErrors, disturbed>>

NoPaging == [pc |-> "off", limit |-> 0, offset |-> 0, total |-> 0,
             got |-> [r \in ResultIds |-> 0]]

StoreInit ==
    /\ stored = {} /\ dbErrors = 0 /\ disturbed = FALSE
    /\ writing = [first |-> 1, next |-> 1, attempt |-> 1, told |-> "none"]
    /\ paging = NoPaging

-----------------------------------------------------------------------------
BatchEnd == IF writing.first + BatchSize - 1 < Results THEN writing.first + BatchSize - 1
            ELSE Results

Adding == writing.told = "none"
MayErr == dbErrors < MaxErrors /\ dbErrors' = dbErrors + 1

\* executemany: the next row, unless a row with its key is there already.
InsertRow ==
    /\ Adding /\ writing.next <= BatchEnd /\ writing.next \notin stored
    /\ stored' = stored \cup {writing.next}
    /\ writing' = [writing EXCEPT !.next = @ + 1]
    /\ disturbed' = TRUE
    /\ UNCHANGED <<paging, dbErrors>>

\* The batch has returned True.
NextBatch ==
    /\ Adding /\ writing.next > BatchEnd
    /\ writing' = IF BatchEnd = Results THEN [writing EXCEPT !.told = "stored"]
                  ELSE [first |-> BatchEnd + 1, next |-> BatchEnd + 1, attempt |-> 1,
                        told |-> "none"]
    /\ UNCHANGED <<stored, paging, dbErrors, disturbed>>

\* (For the mutation runs: the result of a batch is not looked at.)
GivenUpGoesOn ==
    IF BatchEnd = Results THEN [writing EXCEPT !.told = "stored"]
    ELSE [first |-> BatchEnd + 1, next |-> BatchEnd + 1, attempt |-> 1, told |-> "none"]

\* Twice in vain: add_log_parse_results returns False.
GivenUp == [writing EXCEPT !.told = "failed"]

\* The batch begins anew on a new connection; what is committed stays.
Retried == IF writing.attempt = 1 THEN [writing EXCEPT !.attempt = 2, !.next = writing.first]
           ELSE GivenUp

\* An error of the database, also at the commit after the last row.
WriteFails ==
    /\ Adding /\ MayErr /\ writing' = Retried
    /\ UNCHANGED <<stored, paging, disturbed>>

\* The key of a row that the first attempt has stored.
KeyIsThere ==
    /\ Adding /\ writing.next <= BatchEnd /\ writing.next \in stored /\ writing' = Retried
    /\ UNCHANGED <<stored, paging, dbErrors, disturbed>>

-----------------------------------------------------------------------------
AsksFirst ==
    /\ paging.pc = "off"
    /\ \E limit \in Limits : paging' = [NoPaging EXCEPT !.pc = "count", !.limit = limit]
    /\ disturbed' = FALSE
    /\ UNCHANGED <<stored, writing, dbErrors>>

CountRows ==
    /\ paging.pc = "count"
    /\ paging' = [paging EXCEPT !.pc = "page", !.total = Cardinality(stored)]
    /\ UNCHANGED <<stored, writing, dbErrors, disturbed>>

\* The place of a stored result in the order by score.
Place(r) == Cardinality({q \in stored : Rank[q] <= Rank[r]})

Effective(limit) == IF limit > 0 THEN limit ELSE Results

\* The rows after the offset, which is not beyond the total.
PageRows ==
    LET from == IF paging.offset < paging.total THEN paging.offset ELSE paging.total
    IN {r \in stored : from < Place(r) /\ Place(r) <= from + Effective(paging.limit)}

\* The client goes on behind this page, until it has seen the total.
Turned(page) ==
    LET behind == paging.offset + Effective(paging.limit)
    IN [paging EXCEPT !.pc = IF behind < paging.total THEN "count" ELSE "done",
                      !.offset = behind,
                      !.got = [r \in ResultIds |-> IF r \in page THEN @[r] + 1 ELSE @[r]]]

ReadPage ==
    /\ paging.pc = "page" /\ paging' = Turned(PageRows)
    /\ UNCHANGED <<stored, writing, dbErrors, disturbed>>

\* A query that fails twice answers with an empty list, and the count with 0.
QueryFails ==
    /\ paging.pc \in {"count", "page"} /\ MayErr
    /\ paging' = IF paging.pc = "count" THEN [paging EXCEPT !.pc = "page", !.total = 0]
                 ELSE Turned({})
    /\ disturbed' = TRUE
    /\ UNCHANGED <<stored, writing>>

StoreNext == \/ InsertRow \/ NextBatch \/ WriteFails \/ KeyIsThere
             \/ AsksFirst \/ CountRows \/ ReadPage \/ QueryFails
-----------------------------------------------------------------------------
\* What add_log_parse_results returns is true: "stored" means all, and a failure
\* leaves the results up to some place of the list and none after it, whether
\* the error came before, between or after the rows of the batch.
StoredAsTold ==
    /\ writing.told = "stored" => stored = ResultIds
    /\ \E last \in 0 .. Results : stored = 1 .. last /\ last >= writing.first - 1 /\ last <= BatchEnd

\* A client that turns its pages while nothing is added gets every result of
\* the total once, whatever limit it gives.
PagesAreWhole ==
    paging.pc = "done" /\ ~disturbed => \A r \in stored : paging.got[r] = 1

ResultsAreKept == StoredAsTold /\ PagesAreWhole
=============================================================================
