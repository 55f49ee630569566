------------------------------ MODULE MCNl2sql ------------------------------
(***************************************************************************)
(* The parts of the NL2SQL agent that are modelled by themselves, side by  *)
(* side.  They share no state: the stages of a question hand over values,  *)
(* and each part takes every value the stage before it may hand over.  So  *)
(* a behaviour looks at one part, the focus, and the others stand still.   *)
(***************************************************************************)
EXTENDS QueryPlan, SqlSplit, AskPipeline, ClarifySession, RuleStore

VARIABLE focus

vars == <<focus, planVars, sqlVars, askVars, clarVars, rulVars>>

Init == /\ focus \in {"plans", "statements", "questions", "clarification", "rules"}
        /\ PlanInit /\ SqlInit /\ AskInit /\ ClarInit /\ RulInit

OfPlans     == focus = "plans" /\ PlanNext /\ UNCHANGED <<focus, sqlVars, askVars, clarVars, rulVars>>
OfStatements == focus = "statements" /\ SqlNext /\ UNCHANGED <<focus, planVars, askVars, clarVars, rulVars>>
OfQuestions  == focus = "questions" /\ AskNext /\ UNCHANGED <<focus, planVars, sqlVars, clarVars, rulVars>>
OfClarification   == focus = "clarification" /\ ClarNext /\ UNCHANGED <<focus, planVars, sqlVars, askVars, rulVars>>
OfRules     == focus = "rules" /\ RulNext /\ UNCHANGED <<focus, planVars, sqlVars, askVars, clarVars>>

Next == OfPlans\/ OfStatements \/ OfQuestions \/ OfClarification \/ OfRules

Spec == Init /\ [][Next]_vars
-----------------------------------------------------------------------------
(* TLC instance of Nl2sql: an index of people and an index of records that   *)
(* name a person, plans of up to two semi-joins, statements over both.       *)
P(f, op, vals) == [field |-> f, op |-> op, vals |-> vals]
J(lk, ps, op) == [index |-> "sub", lk |-> lk, fk |-> "fk", where |-> ps, op |-> op, groups |-> {}]
One == P("tag", "=", {1})
Two == P("tag", "=", {2})
LikeOne == P("tag", "like", {1})
LikeTwo == P("tag", "like", {2})
Ghost == P("ghost", "like", {1})
MCJoins ==
  {J(lk, ps, "and") : lk \in {"id_no", "phone"},
                      ps \in {{}, {One}, {One, Two}, {LikeOne}, {LikeTwo}, {LikeTwo, Ghost}}}
  \cup {J("id_no", ps, "or") : ps \in {{One, Two}, {LikeOne, LikeTwo}, {One, Ghost}}}
  \cup {[J("id_no", {}, "and") EXCEPT !.groups = {{LikeOne, LikeTwo}, {Ghost}}]}
MCOdd == {[J("email", {One}, "and") EXCEPT !.index = "main", !.fk = "email"],
          [J("id_no", {One}, "and") EXCEPT !.fk = "email"],
          [J("id_no", {One}, "and") EXCEPT !.groups = {{}, {LikeTwo}}],
          [J("id_no", {}, "and") EXCEPT !.groups = {{}}],
          [J("id_no", {One, Two}, "and") EXCEPT !.groups = {{}}]}
Pl(s, w, js, o) == [select |-> s, where |-> w, joins |-> js, order |-> o]
MCPlans ==
  {Pl(s, w, <<>>, o) : s \in {{}, {"tag"}}, w \in {{}, {One}, {One, Two}, {Ghost}}, o \in {<<>>, <<"id_no">>, <<"ghost">>, <<"tag">>}}
  \cup {Pl(s, w, <<j>>, o) : s \in {{}, {"tag"}}, w \in {{}, {One, Two}, {One, Ghost}}, j \in MCJoins \cup MCOdd, o \in {<<>>, <<"id_no">>, <<"tag">>}}
  \cup {Pl(s, w, <<i, j>>, <<"id_no">>) : s \in {{}, {"tag"}}, w \in {{}, {One, Two}}, i \in MCJoins, j \in MCJoins}
Row(a, b, t) == [id_no |-> a, phone |-> b, tag |-> t]
MCMain == {Row("a", "b", 1), Row("a", "a", 2), Row("b", "a", 1)}
MCContents == [main : {MCMain}, sub : SUBSET [fk : {"a", "b"}, tag : {1, 2}]]
MCMainFields == {"id_no", "phone", "tag"}
MCSubFields == {"fk", "tag"}
MCKeyNames == <<"idcardno", "id_no">>
MCDefaultOrder == {"idcardno", "id_no"}

MCStatements == [pre : {{}, {1}}, link : {"and", "or"}, sub : {{}, {1}, {1, 2}}, rest : {{}, {2}}, ided : BOOLEAN]
MCTables == [outer : SUBSET {[id |-> i, tag |-> t] : i \in {"a","b"}, t \in {1,2}}, sub : SUBSET {[id |-> i, tag |-> t] : i \in {"a","b"}, t \in {1,2,3}}]
=============================================================================
