---------------------------- MODULE ClarifySession ----------------------------
(***************************************************************************)
(* Clarification of one question: a session in the memory of the process,  *)
(* replies that each await the language model, and the query that each     *)
(* caller's pipeline is then run with.  A resolution is the set of replies *)
(* it was made from.                                                       *)
(***************************************************************************)
EXTENDS Naturals, FiniteSets

CONSTANTS Replies, MaxRounds

ASSUME ClarifyAssumption == MaxRounds \in Nat \ {0} /\ IsFiniteSet(Replies)

VARIABLES session,   \* the entry of _SESSIONS
          calls,     \* the replies: where each is, what it read before its await
          lost       \* the process has restarted: replies meet KeyError

clarVars == <<session, calls, lost>>

NoSession == [there |-> FALSE, rounds |-> 0, done |-> FALSE, messages |-> {},
              resolved |-> {}, heard |-> FALSE]
NoCall == [pc |-> "new", history |-> {}, force |-> FALSE, late |-> FALSE,
           overlapped |-> FALSE, told |-> {}]

ClarInit ==
  /\ session = NoSession /\ lost = FALSE
  /\ calls = [r \in Replies |-> NoCall]

InFlight == {r \in Replies : calls[r].pc = "asked"}

\* start_clarify: the model fails, or asks, or has understood; its
\* resolution may be left out, which falls back to the original query.
Start ==
  /\ ~session.there /\ ~lost
  /\ \E understood \in BOOLEAN :
       session' = [NoSession EXCEPT !.there = TRUE, !.done = understood, !.heard = understood,
                                    !.rounds = IF understood THEN 0 ELSE 1]
  /\ UNCHANGED <<calls, lost>>

\* auto_resolve_query: one rewriting, no question.
AutoResolve ==
  /\ ~session.there /\ ~lost
  /\ session' = [NoSession EXCEPT !.there = TRUE, !.done = TRUE, !.heard = TRUE]
  /\ UNCHANGED <<calls, lost>>

\* A done session answers at once, with the resolution it has.
ReplyLate(r) ==
  /\ session.there /\ calls[r].pc = "new" /\ session.done
  /\ calls' = [calls EXCEPT ![r] = [@ EXCEPT !.pc = "runs", !.late = TRUE, !.told = session.resolved]]
  /\ UNCHANGED <<session, lost>>

\* Mutant: the history is read before the message is appended.
ReplyUnheard(r) ==
  /\ session.there /\ calls[r].pc = "new" /\ ~session.done
  /\ session' = [session EXCEPT !.messages = @ \cup {r}]
  /\ calls' = [s \in Replies |->
       IF s = r THEN [calls[s] EXCEPT !.pc = "asked", !.history = session.messages,
                                      !.force = session.rounds >= MaxRounds,
                                      !.overlapped = InFlight # {}]
       ELSE IF s \in InFlight THEN [calls[s] EXCEPT !.overlapped = TRUE] ELSE calls[s]]
  /\ UNCHANGED lost

\* The message is appended, the history and the limit are read, and then
\* the model is awaited.
Reply(r) ==
  /\ session.there /\ calls[r].pc = "new" /\ ~session.done
  /\ session' = [session EXCEPT !.messages = @ \cup {r}]
  /\ calls' = [s \in Replies |->
       IF s = r THEN [calls[s] EXCEPT !.pc = "asked", !.history = session.messages \cup {r},
                                      !.force = session.rounds >= MaxRounds,
                                      !.overlapped = InFlight # {}]
       ELSE IF s \in InFlight THEN [calls[s] EXCEPT !.overlapped = TRUE] ELSE calls[s]]
  /\ UNCHANGED lost

ReplyToNothing(r) ==
  /\ ~session.there /\ lost /\ calls[r].pc = "new"
  /\ calls' = [calls EXCEPT ![r].pc = "failed"]
  /\ UNCHANGED <<session, lost>>

\* _prepare_query: the caller runs the pipeline if the session is done now.
AfterAnswer(r, s) ==
  [calls EXCEPT ![r] = [@ EXCEPT !.pc = IF s.done THEN "runs" ELSE "question",
                                 !.told = IF s.done THEN s.resolved ELSE {}]]

\* The model has understood; it may leave the resolution out.
Understood(r) ==
  /\ calls[r].pc = "asked"
  /\ \E given \in BOOLEAN :
       session' = [session EXCEPT !.done = TRUE, !.heard = given,
                                  !.resolved = IF given THEN calls[r].history ELSE {}]
  /\ calls' = AfterAnswer(r, session')
  /\ UNCHANGED lost

\* It asks again, or answers no JSON; at the limit that counts as done.
AsksAgain(r) ==
  /\ calls[r].pc = "asked"
  /\ session' = IF calls[r].force
                  THEN [session EXCEPT !.done = TRUE, !.heard = FALSE, !.resolved = {}]
                  ELSE [session EXCEPT !.rounds = @ + 1]
  /\ calls' = AfterAnswer(r, session')
  /\ UNCHANGED lost

\* The message stays in the session.
ModelFails(r) ==
  /\ calls[r].pc = "asked"
  /\ calls' = [calls EXCEPT ![r].pc = "failed"]
  /\ UNCHANGED <<session, lost>>

Restart ==
  /\ session.there
  /\ session' = NoSession /\ lost' = TRUE
  /\ calls' = [r \in Replies |-> IF r \in InFlight THEN [calls[r] EXCEPT !.pc = "failed"] ELSE calls[r]]

ClarNext ==
  \/ Start \/ AutoResolve \/ Restart
  \/ \E r \in Replies : \/ ReplyLate(r) \/ Reply(r) \/ ReplyToNothing(r)
                        \/ Understood(r) \/ AsksAgain(r) \/ ModelFails(r)

-----------------------------------------------------------------------------
Overlapped == {r \in Replies : calls[r].overlapped}

(***************************************************************************)
(* A user who replies one message at a time is asked at most MaxRounds     *)
(* questions, and the query that is run for a reply was made from that     *)
(* reply and all those before it, unless the session was already done or   *)
(* the model left its resolution out.  Replies that overlap may each add a *)
(* question, and take one another's resolution.                            *)
(***************************************************************************)
RepliesCount ==
  /\ session.rounds <= MaxRounds + Cardinality(Overlapped)
  /\ \A r \in Replies : LET c == calls[r] IN
       c.pc = "runs" /\ ~c.late /\ ~c.overlapped /\ session.heard => c.history \subseteq c.told /\ r \in c.told
=============================================================================
