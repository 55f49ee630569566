------------------------------- MODULE TaskLife -------------------------------
(***************************************************************************)
(* What the task service promises of its tasks, without processes and SQL:  *)
(* a task is submitted, waits, is worked on with at most Limit others, and  *)
(* ends; what has ended is never worked on again, and what was deleted      *)
(* never comes back.  A restart may put work that was under way back into   *)
(* the queue.                                                               *)
(***************************************************************************)
EXTENDS Naturals, FiniteSets

CONSTANTS Tasks, Limit

VARIABLE life      \* task -> "absent", "waiting", "working", "ended", "deleted"

In(stage) == {t \in Tasks : life[t] = stage}
Becomes(t, stage) == life' = [life EXCEPT ![t] = stage]

Init == life = [t \in Tasks |-> "absent"]

Submit(t) == life[t] = "absent" /\ Becomes(t, "waiting")

Start(t) ==
    /\ life[t] = "waiting" /\ Cardinality(In("working")) < Limit
    /\ Becomes(t, "working")

\* Done, failed or cancelled, at work or before.
Finish(t) == life[t] \in {"waiting", "working"} /\ Becomes(t, "ended")

Delete(t) == life[t] # "absent" /\ Becomes(t, "deleted")

\* The service stops or starts: tasks at work wait again.
GiveBack(S) ==
    /\ S \subseteq In("working")
    /\ life' = [t \in Tasks |-> IF t \in S THEN "waiting" ELSE life[t]]

Next == \/ \E t \in Tasks : Submit(t) \/ Start(t) \/ Finish(t) \/ Delete(t)
        \/ \E S \in SUBSET Tasks : GiveBack(S)

Spec == Init /\ [][Next]_life
=============================================================================
