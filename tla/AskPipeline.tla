----------------------------- MODULE AskPipeline -----------------------------
(***************************************************************************)
(* One question through NL2SQLPipeline.run: rules are searched, a language *)
(* model generates a query, the query is checked and executed, and what    *)
(* went wrong is fed back to the model, up to Attempts times.  A query is  *)
(* named by the attempt that made it; 0 stands for None.  The run keeps    *)
(* four of them, assigned at different places: the generated query, the    *)
(* plan (IR) that Elasticsearch executes, the query to display, and the    *)
(* query the result is of.                                                 *)
(***************************************************************************)
EXTENDS Naturals

CONSTANT Attempts       \* max_query_attempts

ASSUME AskPipelineAssumption == Attempts \in Nat \ {0}

VARIABLES runPc, kind, engine, attempt, generated, current, displayed, resultOf,
          rows, execError, feedback, said

askVars == <<runPc, kind, engine, attempt, generated, current, displayed, resultOf,
             rows, execError, feedback, said>>

NoFeedback == [about |-> 0, quotes |-> 0]

AskInit ==
  /\ runPc = "idle" /\ kind = "ask" /\ engine = "es" /\ attempt = 0
  /\ generated = 0 /\ current = 0 /\ displayed = 0 /\ resultOf = 0
  /\ rows = "none" /\ execError = FALSE /\ feedback = NoFeedback
  /\ said = {}

Over(event) == runPc' = "over" /\ said' = said \cup {event}

\* An unknown data source is an error; a query may come with the request.
Ask ==
  /\ runPc = "idle"
  /\ kind' \in {"ask", "given", "neither"} /\ engine' \in {"es", "other"}
  /\ \/ runPc' = "search" /\ UNCHANGED said
     \/ Over("error")
  /\ generated' = IF kind' = "given" THEN 1 ELSE 0
  /\ UNCHANGED <<attempt, current, displayed, resultOf, rows, execError, feedback>>

\* Without rules there is no answer; nor without a model's key or a query.
Search ==
  /\ runPc = "search"
  /\ \/ Over("error") /\ UNCHANGED <<attempt, displayed>>
     \/ kind = "ask"     /\ Over("error") /\ UNCHANGED <<attempt, displayed>>
     \/ kind = "ask"     /\ runPc' = "generate" /\ attempt' = 1 /\ UNCHANGED <<displayed, said>>
     \/ kind = "neither" /\ Over("error") /\ UNCHANGED <<attempt, displayed>>
     \/ kind = "given"   /\ runPc' = "safety" /\ displayed' = generated /\ attempt' = 1 /\ UNCHANGED said
  /\ UNCHANGED <<kind, engine, generated, current, resultOf, rows, execError, feedback>>

\* build_retry_feedback: the query it quotes is display_query or generated.
Quoted(shown, made) == IF shown # 0 THEN shown ELSE made

\* An attempt that failed before it was executed is repeated, or is the end.
RetryOrOver(shown, made) ==
  IF attempt < Attempts
    THEN /\ runPc' = "generate" /\ attempt' = attempt + 1
         /\ feedback' = [about |-> attempt, quotes |-> Quoted(shown, made)]
         /\ UNCHANGED said
    ELSE Over("error") /\ UNCHANGED <<attempt, feedback>>

\* Mutant: the query to display is only set once.
GeneratedShowsFirst ==
  /\ runPc = "generate" /\ runPc' = "safety"
  /\ generated' = attempt /\ displayed' = IF displayed = 0 THEN attempt ELSE displayed
  /\ current' = IF engine = "es" THEN attempt ELSE 0
  /\ UNCHANGED <<kind, engine, attempt, resultOf, rows, execError, feedback, said>>

\* Elasticsearch gets a plan, which is parsed and cleaned; others get text.
Generated ==
  /\ runPc = "generate" /\ runPc' = "safety"
  /\ generated' = attempt /\ displayed' = attempt
  /\ current' = IF engine = "es" THEN attempt ELSE 0
  /\ UNCHANGED <<kind, engine, attempt, resultOf, rows, execError, feedback, said>>

\* The model fails, or its answer cannot be parsed: nothing was assigned.
GenerateFails ==
  /\ runPc = "generate"
  /\ execError' = TRUE /\ RetryOrOver(displayed, generated)
  /\ UNCHANGED <<kind, engine, generated, current, displayed, resultOf, rows>>

\* sanitize_ir refuses the plan: generated and current_ir are the new ones,
\* display_query still is the one of an earlier attempt.
SanitizeFails ==
  /\ runPc = "generate" /\ engine = "es"
  /\ generated' = attempt /\ current' = attempt
  /\ execError' = TRUE /\ RetryOrOver(displayed, attempt)
  /\ UNCHANGED <<kind, engine, displayed, resultOf, rows>>

\* assert_readonly_sql looks at text only; a given query has one attempt.
Safe ==
  /\ runPc = "safety" /\ runPc' = "execute" /\ execError' = FALSE
  /\ UNCHANGED <<kind, engine, attempt, generated, current, displayed, resultOf, rows, feedback, said>>

Unsafe ==
  /\ runPc = "safety" /\ (engine = "other" \/ kind = "given")
  /\ execError' = TRUE
  /\ IF kind = "given" THEN Over("error") /\ UNCHANGED <<attempt, feedback>>
                       ELSE RetryOrOver(displayed, generated)
  /\ UNCHANGED <<kind, engine, generated, current, displayed, resultOf, rows>>

\* The plan is what runs, if there is one.
Execute ==
  /\ runPc = "execute" /\ runPc' = "executed"
  /\ \/ /\ rows' \in {"some", "zero"}
        /\ resultOf' = IF kind = "ask" /\ engine = "es" THEN current ELSE generated
        /\ UNCHANGED execError
     \/ rows' = "none" /\ resultOf' = 0 /\ execError' = TRUE
  /\ UNCHANGED <<kind, engine, attempt, generated, current, displayed, feedback, said>>

ShouldRetry == attempt < Attempts /\ (execError \/ rows = "zero")

Retry ==
  /\ runPc = "executed" /\ kind = "ask" /\ ShouldRetry
  /\ runPc' = "generate" /\ attempt' = attempt + 1
  /\ feedback' = [about |-> attempt, quotes |-> Quoted(displayed, generated)]
  /\ UNCHANGED <<kind, engine, generated, current, displayed, resultOf, rows, execError, said>>

\* No result is an error; the answer shows display_query.
Finish ==
  /\ runPc = "executed" /\ (kind = "given" \/ ~ShouldRetry)
  /\ Over(IF execError /\ resultOf = 0 THEN "error" ELSE "result")
  /\ UNCHANGED <<kind, engine, attempt, generated, current, displayed, resultOf, rows, execError, feedback>>

AskNext ==
  \/ Ask \/ Search \/ Generated \/ GenerateFails \/ SanitizeFails
  \/ Safe \/ Unsafe \/ Execute \/ Retry \/ Finish

-----------------------------------------------------------------------------
(***************************************************************************)
(* A run that answers has a result, the query it shows is the query that   *)
(* the rows are of, and no rows is the answer only after the last attempt; *)
(* a run never says both an answer and an error.                           *)
(***************************************************************************)
AnswerIsWhole ==
  runPc = "over" =>
    /\ said \in {{"error"}, {"result"}}
    /\ said = {"result"} => /\ resultOf # 0 /\ displayed = resultOf
                            /\ rows = "zero" /\ kind = "ask" => attempt = Attempts

(***************************************************************************)
(* build_retry_feedback describes "the facts of this failure only": when   *)
(* the failed attempt made a query, the feedback quotes that query.        *)
(***************************************************************************)
FeedbackFits ==
  runPc = "generate" /\ feedback.about # 0 /\ generated = feedback.about
     => feedback.quotes = feedback.about
=============================================================================
