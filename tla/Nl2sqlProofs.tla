----------------------------- MODULE Nl2sqlProofs -----------------------------
(***************************************************************************)
(* Proofs about the NL2SQL agent: one question and its attempts            *)
(* (AskPipeline), the replies to a clarification (ClarifySession), the     *)
(* rules and the knowledge bases they are found in (RuleStore), a          *)
(* statement with a subquery (SqlSplit), and a query plan from the model's *)
(* text to its answer (QueryPlan), for every number of attempts, replies,  *)
(* rounds, data sources, rules, calls, rows, batches and semi-joins.       *)
(***************************************************************************)
EXTENDS AskPipeline, ClarifySession, RuleStore, SqlSplit, QueryPlan, RecursionLemmas,
        FiniteSetTheorems, TLAPS

-----------------------------------------------------------------------------
(* One question.                                                            *)

\* What is about to be executed, and was, is the query that is displayed, ...
QueryIsShown ==
    /\ displayed = generated /\ generated # 0 /\ kind \in {"ask", "given"}
    /\ kind = "ask" /\ engine = "es" => current = generated

\* ... and a result is of it.
ResultFits ==
    /\ resultOf = 0 => execError /\ rows = "none"
    /\ resultOf # 0 => resultOf = displayed

AskInv ==
    /\ attempt \in 0 .. Attempts
    /\ runPc # "over" => said = {}
    /\ runPc \in {"idle", "search"} => attempt = 0
    /\ runPc \in {"search"} /\ kind = "given" => generated = 1
    /\ runPc = "generate" => attempt > 0 /\ kind = "ask"
    /\ runPc \in {"safety", "execute", "executed"} => QueryIsShown /\ attempt > 0
    /\ runPc = "executed" => ResultFits
    /\ AnswerIsWhole

-----------------------------------------------------------------------------
(* The replies.                                                             *)

Sessions == [there : BOOLEAN, rounds : Nat, done : BOOLEAN, messages : SUBSET Replies,
             resolved : SUBSET Replies, heard : BOOLEAN]
ReplyCalls == [pc : {"new", "asked", "runs", "question", "failed"}, history : SUBSET Replies,
               force : BOOLEAN, late : BOOLEAN, overlapped : BOOLEAN, told : SUBSET Replies]

ClarType ==
    /\ session \in Sessions /\ lost \in BOOLEAN /\ calls \in [Replies -> ReplyCalls]
    /\ ~session.there => session = NoSession
    /\ lost => ~session.there
    /\ \A r \in Replies : /\ calls[r].pc = "asked" => session.there
                          /\ calls[r].pc = "new" => ~calls[r].overlapped

\* Two replies that await the model at the same time overlap.
TogetherOverlap == \A r, s \in InFlight : r # s => calls[r].overlapped

\* A reply that awaits the model alone finds the session as it left it.
AloneFindsItsSession == \A r \in InFlight :
    /\ r \in calls[r].history
    /\ ~calls[r].overlapped =>
          ~session.done /\ (~calls[r].force => session.rounds < MaxRounds)

\* A reply that has ended the session alone has the last word.
LastWord == \A r \in Replies :
    calls[r].pc = "runs" /\ ~calls[r].late /\ ~calls[r].overlapped =>
        /\ InFlight = {} /\ (session.done \/ lost)
        /\ session.heard => calls[r].history \subseteq calls[r].told /\ r \in calls[r].told

\* The overlapping replies that have been answered.
Answered == {r \in Replies : calls[r].overlapped /\ calls[r].pc # "asked"}

ClarInv == /\ ClarType /\ TogetherOverlap /\ AloneFindsItsSession /\ LastWord
           /\ session.rounds <= MaxRounds + Cardinality(Answered)

-----------------------------------------------------------------------------
(* The rules.                                                               *)

CallRecords == [of : Sources \cup {NoCallOf}, pc : {"idle", "kb", "upsert", "done"},
                kb : KBs \cup {NoKB}, todo : SUBSET Rules, ok : SUBSET Rules,
                recreate : BOOLEAN, persist : BOOLEAN, sync : BOOLEAN]
Existing == DOMAIN kb

RulType ==
    /\ local \in [Sources -> SUBSET Rules] /\ reported \in [Sources -> SUBSET Rules]
    /\ kb \in [Existing -> SUBSET (Sources \X Rules)] /\ Existing \subseteq KBs
    /\ bound \in [Sources -> Existing \cup {NoKB}] /\ mapped \in [Sources -> Existing \cup {NoKB}]
    /\ default \in Existing \cup {NoKB}
    /\ call \in [Calls -> CallRecords] /\ disturbed \subseteq Sources

\* A call that writes rules has written those it will report.
WrittenAreThere == \A c \in Calls :
    /\ call[c].pc \in {"kb", "upsert"} => call[c].of \in Sources
    /\ call[c].pc = "kb" => call[c].sync /\ call[c].ok = {}
    /\ call[c].pc = "upsert" =>
          call[c].kb \in Existing /\ \A r \in call[c].ok : <<call[c].of, r>> \in kb[call[c].kb]

\* A data source that is not disturbed has one call at a time, ...
OneCallAtATime == \A b, c \in Calls :
    /\ b # c /\ call[b].pc \notin {"idle", "done"} /\ call[c].pc \notin {"idle", "done"}
    /\ call[b].of = call[c].of
    => call[b].of \in disturbed

\* ... which imports into the KB that a file binds to it.
ImportsIntoOwn == \A c \in Calls :
    call[c].pc = "upsert" /\ ~call[c].sync /\ call[c].of \notin disturbed =>
        /\ call[c].kb = Resolve(call[c].of)
        /\ bound[call[c].of] # NoKB \/ mapped[call[c].of] # NoKB

RulInv == RulType /\ WrittenAreThere /\ OneCallAtATime /\ ImportsIntoOwn /\ ReportedIsFound
-----------------------------------------------------------------------------
(* Proofs about one question.                                               *)

LEMMA AskInvInit == AskInit => AskInv
BY AskPipelineAssumption DEF AskInit, AskInv, AnswerIsWhole

LEMMA AskInvStep == AskInv /\ [AskNext]_askVars => AskInv'
<1> SUFFICES ASSUME AskInv, [AskNext]_askVars PROVE AskInv' OBVIOUS
<1> USE AskPipelineAssumption DEF AskInv, QueryIsShown, ResultFits, AnswerIsWhole, Over
<1>1. CASE Ask BY <1>1 DEF Ask
<1>2. CASE Search BY <1>2 DEF Search
<1>3. CASE Generated BY <1>3 DEF Generated
<1>4. CASE GenerateFails BY <1>4 DEF GenerateFails, RetryOrOver
<1>5. CASE SanitizeFails BY <1>5 DEF SanitizeFails, RetryOrOver
<1>6. CASE Safe BY <1>6 DEF Safe
<1>7. CASE Unsafe BY <1>7 DEF Unsafe, RetryOrOver
<1>8. CASE Execute BY <1>8 DEF Execute
<1>9. CASE Retry BY <1>9 DEF Retry, ShouldRetry
<1>10. CASE Finish BY <1>10 DEF Finish, ShouldRetry
<1>11. CASE UNCHANGED askVars BY <1>11 DEF askVars
<1> QED BY <1>1, <1>2, <1>3, <1>4, <1>5, <1>6, <1>7, <1>8, <1>9, <1>10, <1>11 DEF AskNext

\* A run that answers has a result, of the query it shows (AnswerIsWhole, about
\* NL2SQLPipeline.run), for every number of attempts.
THEOREM AnswersAreWhole == AskInit /\ [][AskNext]_askVars => []AnswerIsWhole
<1>1. AskInv => AnswerIsWhole BY DEF AskInv
<1> QED BY <1>1, AskInvInit, AskInvStep, PTL

-----------------------------------------------------------------------------
(* Proofs about the replies.                                                *)

LEMMA ClarInvInit == ClarInit => ClarInv
<1> SUFFICES ASSUME ClarInit PROVE ClarInv OBVIOUS
<1> USE ClarifyAssumption DEF ClarInit
<1>1. NoSession \in Sessions BY DEF NoSession, Sessions
<1>2. NoCall \in ReplyCalls BY DEF NoCall, ReplyCalls
<1>3. ClarType BY <1>1, <1>2 DEF ClarType, NoSession, NoCall
<1>4. InFlight = {} /\ Answered = {} BY DEF InFlight, Answered, NoCall
<1>5. TogetherOverlap /\ AloneFindsItsSession BY <1>4 DEF TogetherOverlap, AloneFindsItsSession
<1>6. LastWord BY DEF LastWord, NoCall
<1> QED BY <1>3, <1>4, <1>5, <1>6, FS_EmptySet DEF ClarInv, NoSession

\* The ways in which a call is updated.
LEMMA ReplyCallType ==
    ASSUME NEW c \in ReplyCalls
    PROVE  /\ \A p \in {"runs", "question", "failed"} : [c EXCEPT !.pc = p] \in ReplyCalls
           /\ \A b \in BOOLEAN : [c EXCEPT !.overlapped = b] \in ReplyCalls
           /\ \A b \in BOOLEAN, T \in SUBSET Replies :
                 [c EXCEPT !.pc = "runs", !.late = b, !.told = T] \in ReplyCalls
           /\ \A p \in {"runs", "question", "failed"}, T \in SUBSET Replies :
                 [c EXCEPT !.pc = p, !.told = T] \in ReplyCalls
           /\ \A H \in SUBSET Replies, b \in BOOLEAN, o \in BOOLEAN :
                 [c EXCEPT !.pc = "asked", !.history = H, !.force = b, !.overlapped = o]
                    \in ReplyCalls
BY DEF ReplyCalls

LEMMA ClarTypeStep ==
    ASSUME ClarType, ClarNext PROVE ClarType'
<1> USE ClarifyAssumption DEF ClarType
<1>0. NoSession \in Sessions BY DEF NoSession, Sessions
<1>1. CASE Start
      <2>1. PICK u \in BOOLEAN : session' = [NoSession EXCEPT !.there = TRUE, !.done = u,
                                    !.heard = u, !.rounds = IF u THEN 0 ELSE 1]
            BY <1>1 DEF Start
      <2>2. session' \in Sessions /\ session'.there BY <2>1 DEF NoSession, Sessions
      <2> QED BY <1>1, <2>2 DEF Start
<1>2. CASE AutoResolve
      <2>1. session' \in Sessions /\ session'.there BY <1>2 DEF AutoResolve, NoSession, Sessions
      <2> QED BY <1>2, <2>1 DEF AutoResolve
<1>3. CASE Restart
      <2>1. \A r \in Replies : [calls[r] EXCEPT !.pc = "failed"] \in ReplyCalls
            BY ReplyCallType
      <2>2. calls' \in [Replies -> ReplyCalls] BY <1>3, <2>1 DEF Restart
      <2>3. \A r \in Replies :
               /\ calls'[r].pc # "asked" /\ (calls'[r].pc = "new" => calls'[r] = calls[r])
            BY <1>3 DEF Restart, InFlight, ReplyCalls
      <2> QED BY <1>0, <1>3, <2>2, <2>3 DEF Restart, NoSession
<1>4. ASSUME NEW r \in Replies, ReplyLate(r) \/ ReplyToNothing(r) \/ ModelFails(r)
      PROVE  ClarType'
      <2>1. PICK c \in ReplyCalls : calls' = [calls EXCEPT ![r] = c] /\ c.pc \notin {"asked", "new"}
            <3>1. TRUE \in BOOLEAN /\ session.resolved \in SUBSET Replies BY DEF Sessions
            <3>2. [calls[r] EXCEPT !.pc = "failed"] \in ReplyCalls
                  /\ [calls[r] EXCEPT !.pc = "runs", !.late = TRUE, !.told = session.resolved]
                        \in ReplyCalls
                  BY <3>1, ReplyCallType
            <3>3. CASE ReplyLate(r)
                  <4> DEFINE c == [calls[r] EXCEPT !.pc = "runs", !.late = TRUE,
                                                   !.told = session.resolved]
                  <4>1. c.pc = "runs" /\ calls' = [calls EXCEPT ![r] = c]
                        BY <3>3 DEF ReplyLate, ReplyCalls
                  <4> QED BY <3>2, <4>1
            <3>4. CASE ReplyToNothing(r) \/ ModelFails(r)
                  <4> DEFINE c == [calls[r] EXCEPT !.pc = "failed"]
                  <4>1. c.pc = "failed" /\ calls' = [calls EXCEPT ![r] = c]
                        BY <3>4 DEF ReplyToNothing, ModelFails, ReplyCalls
                  <4> QED BY <3>2, <4>1
            <3> QED BY <1>4, <3>3, <3>4
      <2> QED BY <1>4, <2>1 DEF ReplyLate, ReplyToNothing, ModelFails
<1>5. ASSUME NEW r \in Replies, Reply(r)
      PROVE  ClarType'
      <2>1. session' \in Sessions /\ session'.there BY <1>5 DEF Reply, Sessions
      <2>2. [calls[r] EXCEPT !.pc = "asked", !.history = session.messages \cup {r},
                             !.force = session.rounds >= MaxRounds,
                             !.overlapped = InFlight # {}] \in ReplyCalls
            <3>1. session.messages \cup {r} \in SUBSET Replies BY DEF Sessions
            <3>2. (session.rounds >= MaxRounds) \in BOOLEAN /\ (InFlight # {}) \in BOOLEAN
                  OBVIOUS
            <3>3. calls[r] \in ReplyCalls OBVIOUS
            <3> QED BY ONLY <3>1, <3>2, <3>3, ReplyCallType
      <2>3. \A s \in Replies : [calls[s] EXCEPT !.overlapped = TRUE] \in ReplyCalls
            BY ReplyCallType
      <2>4. calls' \in [Replies -> ReplyCalls] BY <1>5, <2>2, <2>3 DEF Reply
      <2>5. \A s \in Replies : calls'[s].pc = "new" => s # r /\ calls'[s] = calls[s]
            BY <1>5 DEF Reply, InFlight, ReplyCalls
      <2> QED BY <1>5, <2>1, <2>4, <2>5 DEF Reply
<1>6. ASSUME NEW r \in Replies, Understood(r) \/ AsksAgain(r)
      PROVE  ClarType'
      <2>1. session.there /\ ~lost BY <1>6 DEF Understood, AsksAgain
      <2>2. calls[r].history \in SUBSET Replies BY DEF ReplyCalls
      <2>3. session' \in Sessions /\ session'.there
            <3>1. CASE Understood(r)
                  <4>1. PICK given \in BOOLEAN :
                           session' = [session EXCEPT !.done = TRUE, !.heard = given,
                                          !.resolved = IF given THEN calls[r].history ELSE {}]
                        BY <3>1 DEF Understood
                  <4> QED BY <2>1, <2>2, <4>1 DEF Sessions
            <3>2. CASE AsksAgain(r)
                  <4>1. CASE calls[r].force BY <2>1, <3>2, <4>1 DEF AsksAgain, Sessions
                  <4>2. CASE ~calls[r].force BY <2>1, <3>2, <4>2 DEF AsksAgain, Sessions
                  <4> QED BY <4>1, <4>2
            <3> QED BY <1>6, <3>1, <3>2
      <2>4. PICK c \in ReplyCalls : calls' = [calls EXCEPT ![r] = c] /\ c.pc \notin {"asked", "new"}
            <3> DEFINE p == IF session'.done THEN "runs" ELSE "question"
                       T == IF session'.done THEN session'.resolved ELSE {}
                       c == [calls[r] EXCEPT !.pc = p, !.told = T]
            <3>1. p \in {"runs", "question"} /\ T \in SUBSET Replies BY <2>3 DEF Sessions
            <3>2. calls' = [calls EXCEPT ![r] = c] BY <1>6 DEF Understood, AsksAgain, AfterAnswer
            <3> HIDE DEF p, T
            <3>3. c \in ReplyCalls BY <3>1, ReplyCallType
            <3>4. c.pc = p BY DEF ReplyCalls
            <3> QED BY <3>1, <3>2, <3>3, <3>4
      <2>5. lost' = lost BY <1>6 DEF Understood, AsksAgain
      <2>6. calls' \in [Replies -> ReplyCalls] BY <2>4
      <2>7. \A s \in Replies : calls'[s].pc = "new" => calls'[s] = calls[s] BY <2>4
      <2> QED BY <2>1, <2>3, <2>5, <2>6, <2>7
<1> QED BY <1>1, <1>2, <1>3, <1>4, <1>5, <1>6 DEF ClarNext

\* A step of one reply r, which is not a new message.
Moves(r) == ReplyLate(r) \/ ReplyToNothing(r) \/ ModelFails(r) \/ Understood(r) \/ AsksAgain(r)

\* It leaves the other replies alone, and r no longer awaits the model.
LEMMA MoveOfOne ==
    ASSUME ClarType, NEW r \in Replies, Moves(r)
    PROVE  /\ \A s \in Replies \ {r} : calls'[s] = calls[s]
           /\ calls'[r].pc \notin {"asked", "new"} /\ calls'[r].overlapped = calls[r].overlapped
           /\ calls'[r].history = calls[r].history
           /\ InFlight' = InFlight \ {r}
           /\ lost' = lost
<1> USE DEF ClarType
<1>1. CASE ReplyLate(r) BY <1>1 DEF ReplyLate, ReplyCalls, InFlight
<1>2. CASE ReplyToNothing(r) BY <1>2 DEF ReplyToNothing, ReplyCalls, InFlight
<1>3. CASE ModelFails(r) BY <1>3 DEF ModelFails, ReplyCalls, InFlight
<1>4. CASE Understood(r) BY <1>4 DEF Understood, AfterAnswer, ReplyCalls, InFlight
<1>5. CASE AsksAgain(r) BY <1>5 DEF AsksAgain, AfterAnswer, ReplyCalls, InFlight
<1> QED BY <1>1, <1>2, <1>3, <1>4, <1>5 DEF Moves

\* A new message: r awaits the model, and overlaps with those that did.
LEMMA NewMessage ==
    ASSUME ClarType, NEW r \in Replies, Reply(r)
    PROVE  /\ calls'[r].pc = "asked" /\ (calls'[r].overlapped <=> InFlight # {})
           /\ calls'[r].history = session.messages \cup {r}
           /\ (calls'[r].force <=> session.rounds >= MaxRounds)
           /\ r \notin InFlight /\ InFlight' = InFlight \cup {r}
           /\ \A s \in InFlight : /\ calls'[s].overlapped /\ calls'[s].pc = "asked"
                                  /\ calls'[s].history = calls[s].history
           /\ \A s \in Replies \ (InFlight \cup {r}) : calls'[s] = calls[s]
           /\ session' = [session EXCEPT !.messages = @ \cup {r}] /\ lost' = lost
           /\ calls[r].pc = "new" /\ session.there /\ ~session.done
<1> USE DEF ClarType
<1>1. calls'[r] = [calls[r] EXCEPT !.pc = "asked", !.history = session.messages \cup {r},
                        !.force = session.rounds >= MaxRounds, !.overlapped = InFlight # {}]
      BY DEF Reply
<1>2. calls[r].pc = "new" /\ r \notin InFlight BY DEF Reply, InFlight
<1>3. \A s \in InFlight : calls'[s] = [calls[s] EXCEPT !.overlapped = TRUE]
      BY <1>2 DEF Reply, InFlight
<1>4. \A s \in Replies \ (InFlight \cup {r}) : calls'[s] = calls[s] BY DEF Reply
<1>5. calls'[r].pc = "asked" /\ (calls'[r].overlapped <=> InFlight # {})
      /\ calls'[r].history = session.messages \cup {r}
      /\ (calls'[r].force <=> session.rounds >= MaxRounds)
      <2> DEFINE f == session.rounds >= MaxRounds
                 o == InFlight # {}
      <2>1. calls'[r] = [calls[r] EXCEPT !.pc = "asked", !.history = session.messages \cup {r},
                                         !.force = f, !.overlapped = o]
            BY <1>1
      <2> HIDE DEF f, o
      <2>2. /\ calls'[r].pc = "asked" /\ calls'[r].overlapped = o
            /\ calls'[r].history = session.messages \cup {r} /\ calls'[r].force = f
            BY <2>1 DEF ReplyCalls
      <2> USE DEF f, o
      <2> QED BY ONLY <2>2, Zenon
<1>6. \A s \in InFlight : /\ calls'[s].overlapped /\ calls'[s].pc = "asked"
                          /\ calls'[s].history = calls[s].history
      BY <1>3, ZenonT(60) DEF ReplyCalls, InFlight
<1>7. InFlight' = InFlight \cup {r} BY <1>4, <1>5, <1>6 DEF InFlight
<1> QED BY <1>2, <1>4, <1>5, <1>6, <1>7 DEF Reply

LEMMA RestartEmpties ==
    ASSUME ClarType, Restart
    PROVE  /\ InFlight' = {} /\ session' = NoSession /\ lost'
           /\ \A s \in Replies : /\ calls'[s].overlapped = calls[s].overlapped
                                 /\ calls'[s].pc # "asked"
                                 /\ s \notin InFlight => calls'[s] = calls[s]
                                 /\ calls'[s].pc = "runs" => calls'[s] = calls[s]
BY DEF ClarType, Restart, InFlight, ReplyCalls

\* Nothing awaits the model before there is a session.
LEMMA NothingBefore ==
    ASSUME ClarType, ~session.there PROVE InFlight = {} /\ ~session.done
BY DEF ClarType, InFlight, NoSession

LEMMA TogetherOverlapStep ==
    ASSUME ClarType, TogetherOverlap, ClarNext PROVE TogetherOverlap'
<1> USE DEF TogetherOverlap
<1>1. CASE Start \/ AutoResolve BY <1>1 DEF Start, AutoResolve, InFlight
<1>2. CASE Restart BY <1>2, RestartEmpties
<1>3. ASSUME NEW r \in Replies, Reply(r) PROVE TogetherOverlap'
      BY <1>3, NewMessage
<1>4. ASSUME NEW r \in Replies, Moves(r) PROVE TogetherOverlap'
      BY <1>4, MoveOfOne DEF InFlight
<1> QED BY <1>1, <1>2, <1>3, <1>4 DEF ClarNext, Moves

LEMMA AloneFindsItsSessionStep ==
    ASSUME ClarType, TogetherOverlap, AloneFindsItsSession, ClarNext
    PROVE  AloneFindsItsSession'
<1> USE ClarifyAssumption DEF AloneFindsItsSession
<1>1. CASE Start \/ AutoResolve
      BY <1>1, NothingBefore DEF Start, AutoResolve, InFlight
<1>2. CASE Restart BY <1>2, RestartEmpties
<1>3. ASSUME NEW r \in Replies, Reply(r) PROVE AloneFindsItsSession'
      <2>1. session.rounds \in Nat /\ session'.rounds = session.rounds /\ session'.done = session.done
            BY <1>3, NewMessage DEF ClarType, Sessions
      <2> QED BY <1>3, <2>1, NewMessage
<1>4. ASSUME NEW r \in Replies, Moves(r) PROVE AloneFindsItsSession'
      <2>1. CASE r \in InFlight
            BY <1>4, <2>1, MoveOfOne DEF TogetherOverlap, InFlight
      <2>2. CASE r \notin InFlight
            <3>1. session' = session
                  BY <1>4, <2>2 DEF Moves, ReplyLate, ReplyToNothing, ModelFails, Understood,
                                    AsksAgain, InFlight
            <3> QED BY <1>4, <2>2, <3>1, MoveOfOne DEF InFlight
      <2> QED BY <2>1, <2>2
<1> QED BY <1>1, <1>2, <1>3, <1>4 DEF ClarNext, Moves

LEMMA LastWordStep ==
    ASSUME ClarType, TogetherOverlap, AloneFindsItsSession, LastWord, ClarNext
    PROVE  LastWord'
<1> USE DEF LastWord
<1>1. CASE Start \/ AutoResolve
      BY <1>1, NothingBefore DEF Start, AutoResolve
<1>2. CASE Restart BY <1>2, RestartEmpties DEF NoSession
<1>3. ASSUME NEW r \in Replies, Reply(r) PROVE LastWord'
      <2>1. ~lost BY <1>3, NewMessage DEF ClarType
      <2>2. \A s \in Replies : ~(calls[s].pc = "runs" /\ ~calls[s].late /\ ~calls[s].overlapped)
            BY <1>3, <2>1, NewMessage
      <2> QED BY <1>3, <2>2, NewMessage
<1>4. ASSUME NEW r \in Replies, Moves(r),
             NEW s \in Replies, calls'[s].pc = "runs", ~calls'[s].late, ~calls'[s].overlapped
      PROVE  /\ InFlight' = {} /\ (session'.done \/ lost')
             /\ session'.heard => calls'[s].history \subseteq calls'[s].told /\ s \in calls'[s].told
      <2>1. CASE s # r
            <3>1. calls'[s] = calls[s] BY <1>4, <2>1, MoveOfOne
            <3>2. InFlight = {} /\ (session.done \/ lost) BY <1>4, <3>1
            <3>3. session' = session
                  BY <1>4, <3>2 DEF Moves, ReplyLate, ReplyToNothing, ModelFails, Understood,
                                    AsksAgain, InFlight
            <3> QED BY <1>4, <3>1, <3>2, <3>3, MoveOfOne
      <2>2. CASE s = r
            <3>0. calls[r] \in ReplyCalls BY DEF ClarType
            <3>1. ~ReplyLate(r)
                  <4>1. ReplyLate(r) => calls'[r].late
                        BY <3>0 DEF ReplyLate, ClarType, ReplyCalls
                  <4> QED BY <1>4, <2>2, <4>1
            <3>2. ~ReplyToNothing(r) /\ ~ModelFails(r)
                  BY <1>4, <2>2, <3>0 DEF ReplyToNothing, ModelFails, ClarType, ReplyCalls
            <3>3. r \in InFlight /\ calls'[r] = AfterAnswer(r, session')[r]
                  BY <1>4, <3>1, <3>2 DEF Moves, Understood, AsksAgain, InFlight
            <3>4. session'.done /\ calls'[r].told = session'.resolved
                  BY <1>4, <2>2, <3>0, <3>3 DEF AfterAnswer, ClarType, ReplyCalls
            <3>5. InFlight' = {} BY <1>4, <2>2, <3>3, MoveOfOne DEF TogetherOverlap
            <3>6. session'.heard => session'.resolved = calls[r].history
                  <4>1. CASE Understood(r) BY <4>1 DEF Understood, ClarType, Sessions
                  <4>2. CASE AsksAgain(r)
                        <5>1. ~calls[r].overlapped /\ ~session.done
                              BY <1>4, <2>2, <3>3, MoveOfOne DEF AloneFindsItsSession
                        <5> QED BY <3>4, <4>2, <5>1 DEF AsksAgain, ClarType, Sessions
                  <4> QED BY <1>4, <3>1, <3>2, <4>1, <4>2 DEF Moves
            <3> QED BY <1>4, <2>2, <3>3, <3>4, <3>5, <3>6, MoveOfOne DEF AloneFindsItsSession
      <2> QED BY <2>1, <2>2
<1>5. ASSUME NEW r \in Replies, Moves(r) PROVE LastWord' BY <1>4, <1>5
<1> QED BY <1>1, <1>2, <1>3, <1>5 DEF ClarNext, Moves

\* A question that an overlapping reply adds, that reply accounts for.
LEMMA RoundsStep ==
    ASSUME ClarInv, ClarNext
    PROVE  session'.rounds <= MaxRounds + Cardinality(Answered')
<1> USE ClarifyAssumption DEF ClarInv
<1>0. session.rounds \in Nat /\ session \in Sessions BY DEF ClarType, Sessions
<1>1. /\ Cardinality(Answered) \in Nat /\ Cardinality(Answered') \in Nat
      /\ IsFiniteSet(Answered) /\ IsFiniteSet(Answered')
      BY FS_Subset, FS_CardinalityType DEF Answered
<1>2. CASE Start \/ AutoResolve
      <2>1. session'.rounds \in {0, 1} BY <1>2 DEF Start, AutoResolve, NoSession
      <2> QED BY <1>1, <2>1
<1>3. CASE Restart
      <2>1. session'.rounds = 0 BY <1>3 DEF Restart, NoSession
      <2> QED BY <1>1, <2>1
<1>4. ASSUME NEW r \in Replies, Reply(r)
      PROVE  session'.rounds <= MaxRounds + Cardinality(Answered')
      <2>1. session'.rounds = session.rounds BY <1>0, <1>4, NewMessage DEF Sessions
      <2>2. Answered' = Answered
            BY <1>4, NewMessage DEF Answered, InFlight, ClarType
      <2> QED BY <2>1, <2>2
<1>5. ASSUME NEW r \in Replies, Moves(r)
      PROVE  session'.rounds <= MaxRounds + Cardinality(Answered')
      <2>1. Answered \subseteq Answered' BY <1>5, MoveOfOne DEF Answered
      <2>2. Cardinality(Answered) <= Cardinality(Answered') BY <1>1, <2>1, FS_Subset
      <2>3. CASE session'.rounds = session.rounds BY <1>0, <1>1, <2>2, <2>3
      <2>4. CASE session'.rounds # session.rounds
            <3>1. AsksAgain(r) /\ ~calls[r].force
                  BY <1>0, <1>5, <2>4 DEF Moves, ReplyLate, ReplyToNothing, ModelFails,
                                          Understood, AsksAgain, Sessions
            <3>2. session'.rounds = session.rounds + 1 /\ r \in InFlight
                  BY <1>0, <3>1 DEF AsksAgain, Sessions, InFlight
            <3>3. CASE ~calls[r].overlapped
                  BY <1>0, <1>1, <3>1, <3>2, <3>3 DEF AloneFindsItsSession
            <3>4. CASE calls[r].overlapped
                  <4>1. r \notin Answered /\ r \in Answered'
                        BY <1>5, <3>2, <3>4, MoveOfOne DEF Answered, InFlight
                  <4>2. Answered' = Answered \cup {r} BY <1>5, <4>1, MoveOfOne DEF Answered
                  <4>3. Cardinality(Answered') = Cardinality(Answered) + 1
                        BY <1>1, <4>1, <4>2, FS_AddElement
                  <4> QED BY <1>0, <1>1, <3>2, <4>3
            <3> QED BY <3>3, <3>4
      <2> QED BY <2>3, <2>4
<1> QED BY <1>2, <1>3, <1>4, <1>5 DEF ClarNext, Moves

LEMMA ClarInvStep == ClarInv /\ [ClarNext]_clarVars => ClarInv'
<1>1. ASSUME ClarInv, ClarNext PROVE ClarInv'
      BY <1>1, ClarTypeStep, TogetherOverlapStep, AloneFindsItsSessionStep, LastWordStep,
         RoundsStep DEF ClarInv
<1>2. ASSUME ClarInv, UNCHANGED clarVars PROVE ClarInv'
      BY <1>2 DEF ClarInv, clarVars, ClarType, TogetherOverlap, AloneFindsItsSession, LastWord,
                  Answered, InFlight
<1> QED BY <1>1, <1>2

LEMMA ClarInvImpliesRepliesCount == ClarInv => RepliesCount
<1> SUFFICES ASSUME ClarInv PROVE RepliesCount OBVIOUS
<1> USE ClarifyAssumption DEF ClarInv
<1>1. Answered \subseteq Overlapped /\ IsFiniteSet(Overlapped)
      BY FS_Subset DEF Answered, Overlapped
<1>2. /\ Cardinality(Answered) <= Cardinality(Overlapped)
      /\ Cardinality(Answered) \in Nat /\ Cardinality(Overlapped) \in Nat
      BY <1>1, FS_Subset, FS_CardinalityType
<1>3. session.rounds \in Nat BY DEF ClarType, Sessions
<1>4. session.rounds <= MaxRounds + Cardinality(Overlapped) BY <1>2, <1>3
<1> QED BY <1>4 DEF RepliesCount, LastWord

\* A user who replies one message at a time is asked at most MaxRounds questions,
\* and is answered from all of the replies (RepliesCount, about
\* reply_clarify), for every number of replies and rounds.
THEOREM EveryReplyCounts == ClarInit /\ [][ClarNext]_clarVars => []RepliesCount
<1> QED BY ClarInvInit, ClarInvStep, ClarInvImpliesRepliesCount, PTL

-----------------------------------------------------------------------------
(* Proofs about the rules.                                                  *)

LEMMA IdleCall == Idle \in CallRecords /\ Done \in CallRecords
BY DEF Idle, Done, CallRecords

\* A running call differs from an idle one and from one that has ended.
LEMMA CallPc == Idle.pc = "idle" /\ Done.pc = "done"
BY DEF Idle, Done

LEMMA ResolveType ==
    ASSUME RulType, NEW d \in Sources PROVE Resolve(d) \in Existing \cup {NoKB}
BY DEF RulType, Resolve

LEMMA RulInvInit == RulInit => RulInv
<1> SUFFICES ASSUME RulInit PROVE RulInv OBVIOUS
<1> USE DEF RulInit
<1>1. RulType BY IdleCall DEF RulType, Existing
<1>2. \A c \in Calls : call[c].pc = "idle" BY CallPc
<1>3. WrittenAreThere /\ OneCallAtATime /\ ImportsIntoOwn
      BY <1>2 DEF WrittenAreThere, OneCallAtATime, ImportsIntoOwn
<1> QED BY <1>1, <1>3 DEF RulInv, ReportedIsFound

\* The ways in which a call is updated.
LEMMA CallType ==
    ASSUME NEW x \in CallRecords, NEW d \in Sources
    PROVE  /\ \A T \in SUBSET Rules, k \in KBs \cup {NoKB} :
                 [x EXCEPT !.pc = "upsert", !.kb = k, !.todo = T] \in CallRecords
           /\ \A T, O \in SUBSET Rules : [x EXCEPT !.todo = T, !.ok = O] \in CallRecords
           /\ \A T \in SUBSET Rules : [x EXCEPT !.todo = T] \in CallRecords
           /\ \A b, p \in BOOLEAN :
                 [Idle EXCEPT !.of = d, !.pc = "kb", !.recreate = b, !.persist = p, !.sync = TRUE]
                    \in CallRecords
           /\ \A T \in SUBSET Rules, k \in KBs \cup {NoKB} :
                 [Idle EXCEPT !.of = d, !.pc = "upsert", !.kb = k, !.todo = T] \in CallRecords
BY DEF CallRecords, Idle

\* A KB, once it exists, loses nothing.
KBsGrow == Existing \subseteq Existing' /\ \A k \in Existing : kb[k] \subseteq kb'[k]

\* What a sync takes: a KB that exists from then on.
LEMMA TakeKBType ==
    ASSUME RulType, WrittenAreThere, NEW c \in Calls, TakeKB(c)
    PROVE  /\ call' = [call EXCEPT ![c] = Done] /\ kb' = kb
           \/ \E k \in KBs :
                 /\ call' = [call EXCEPT ![c] = [call[c] EXCEPT !.pc = "upsert", !.kb = k,
                                                                !.todo = local[call[c].of]]]
                 /\ k \in Existing' /\ Existing' = Existing \cup {k}
                 /\ \A j \in Existing : kb'[j] = kb[j]
                 /\ k \notin Existing => kb'[k] = {}
                 /\ kb' \in [Existing' -> SUBSET (Sources \X Rules)]
<1>1. CASE call' = [call EXCEPT ![c] = Done] /\ kb' = kb BY <1>1
<1>2. CASE \E k \in IF call[c].recreate \/ Resolve(call[c].of) = NoKB
                        THEN Fresh ELSE {Resolve(call[c].of)} :
             /\ kb' = [j \in DOMAIN kb \cup {k} |-> IF j \in DOMAIN kb THEN kb[j] ELSE {}]
             /\ call' = [call EXCEPT ![c] = [call[c] EXCEPT !.pc = "upsert", !.kb = k,
                                                            !.todo = local[call[c].of]]]
      <2>1. PICK k \in IF call[c].recreate \/ Resolve(call[c].of) = NoKB
                         THEN Fresh ELSE {Resolve(call[c].of)} :
               /\ kb' = [j \in DOMAIN kb \cup {k} |-> IF j \in DOMAIN kb THEN kb[j] ELSE {}]
               /\ call' = [call EXCEPT ![c] = [call[c] EXCEPT !.pc = "upsert", !.kb = k,
                                                              !.todo = local[call[c].of]]]
            BY <1>2
      <2>2. call[c].of \in Sources BY DEF TakeKB, WrittenAreThere
      <2>3. k \in KBs BY <2>1, <2>2, ResolveType DEF Fresh, RulType
      <2>4. Existing' = Existing \cup {k} BY <2>1 DEF Existing
      <2>5. kb' \in [Existing' -> SUBSET (Sources \X Rules)]
            BY <2>1, <2>4 DEF RulType, Existing
      <2> QED BY <2>1, <2>3, <2>4, <2>5 DEF Existing
<1> QED BY <1>1, <1>2 DEF TakeKB

\* What writing a rule does.
LEMMA UpsertRuleType ==
    ASSUME RulType, WrittenAreThere, NEW c \in Calls, UpsertRule(c)
    PROVE  /\ Existing' = Existing /\ kb' \in [Existing -> SUBSET (Sources \X Rules)]
           /\ \A j \in Existing : kb[j] \subseteq kb'[j]
           /\ \E x \in CallRecords :
                 /\ call' = [call EXCEPT ![c] = x]
                 /\ x.pc = "upsert" /\ x.kb = call[c].kb /\ x.of = call[c].of /\ x.sync = call[c].sync
                 /\ \A r \in x.ok : r \in call[c].ok \/ <<x.of, r>> \in kb'[x.kb]
<1> DEFINE y == call[c]
<1>1. y \in CallRecords /\ y.pc = "upsert" /\ y.of \in Sources /\ y.kb \in Existing
      BY DEF RulType, UpsertRule, WrittenAreThere
<1>2. PICK r \in y.todo :
         \/ /\ kb' = IF y.kb \in DOMAIN kb THEN [kb EXCEPT ![y.kb] = @ \cup {<<y.of, r>>}] ELSE kb
            /\ call' = [call EXCEPT ![c] = [y EXCEPT !.todo = @ \ {r}, !.ok = @ \cup {r}]]
         \/ /\ call' = [call EXCEPT ![c] = [y EXCEPT !.todo = @ \ {r}]]
            /\ UNCHANGED kb
      BY DEF UpsertRule
<1>3. r \in Rules /\ y.todo \ {r} \in SUBSET Rules /\ y.ok \cup {r} \in SUBSET Rules
      BY <1>1 DEF CallRecords
<1>4. CASE /\ kb' = IF y.kb \in DOMAIN kb THEN [kb EXCEPT ![y.kb] = @ \cup {<<y.of, r>>}] ELSE kb
           /\ call' = [call EXCEPT ![c] = [y EXCEPT !.todo = @ \ {r}, !.ok = @ \cup {r}]]
      <2> DEFINE x == [y EXCEPT !.todo = @ \ {r}, !.ok = @ \cup {r}]
      <2>1. kb' = [kb EXCEPT ![y.kb] = @ \cup {<<y.of, r>>}] BY <1>1, <1>4 DEF Existing
      <2>2. /\ Existing' = Existing /\ kb' \in [Existing -> SUBSET (Sources \X Rules)]
            /\ \A j \in Existing : kb[j] \subseteq kb'[j]
            BY <1>1, <1>3, <2>1 DEF RulType, Existing
      <2>3. <<y.of, r>> \in kb'[y.kb] BY <1>1, <2>1 DEF RulType, Existing
      <2>4. x \in CallRecords BY <1>1, <1>3, CallType
      <2>5. /\ x.pc = "upsert" /\ x.kb = y.kb /\ x.of = y.of /\ x.sync = y.sync
            /\ x.ok = y.ok \cup {r}
            BY <1>1 DEF CallRecords
      <2> QED BY <1>4, <2>2, <2>3, <2>4, <2>5
<1>5. CASE call' = [call EXCEPT ![c] = [y EXCEPT !.todo = @ \ {r}]] /\ UNCHANGED kb
      <2> DEFINE x == [y EXCEPT !.todo = @ \ {r}]
      <2>1. x \in CallRecords BY <1>1, <1>3, CallType
      <2>2. /\ x.pc = "upsert" /\ x.kb = y.kb /\ x.of = y.of /\ x.sync = y.sync /\ x.ok = y.ok
            BY <1>1 DEF CallRecords
      <2> QED BY <1>5, <2>1, <2>2 DEF RulType, Existing
<1> QED BY <1>2, <1>4, <1>5

LEMMA KBsOnlyGrow == ASSUME RulType, WrittenAreThere, RulNext PROVE KBsGrow
<1> USE DEF KBsGrow
<1>1. CASE kb' = kb BY <1>1 DEF Existing
<1>2. ASSUME NEW c \in Calls, TakeKB(c) PROVE KBsGrow
      BY <1>2, TakeKBType DEF Existing
<1>3. ASSUME NEW c \in Calls, UpsertRule(c) PROVE KBsGrow BY <1>3, UpsertRuleType
<1> QED BY <1>1, <1>2, <1>3, ZenonT(60)
    DEF RulNext, Upsert, Bootstrap, SaveSettings, Commit, Import, Report, Crash

LEMMA RulTypeStep ==
    ASSUME RulType, WrittenAreThere, RulNext PROVE RulType'
<1> USE DEF RulType
<1>1. ASSUME NEW d \in Sources, NEW r \in Rules, Upsert(d, r) PROVE RulType'
      BY <1>1 DEF Upsert, Existing
<1>2. ASSUME NEW d \in Sources, NEW rs \in SUBSET Rules, Bootstrap(d, rs) PROVE RulType'
      BY <1>2 DEF Bootstrap, Existing
<1>3. CASE SaveSettings BY <1>3 DEF SaveSettings, Existing
<1>4. ASSUME NEW c \in Calls, NEW d \in Sources, NEW rs \in SUBSET Rules,
             NEW recreate \in BOOLEAN, NEW persist \in BOOLEAN, Commit(c, d, rs, recreate, persist)
      PROVE  RulType'
      <2>1. [Idle EXCEPT !.of = d, !.pc = "kb", !.recreate = recreate, !.persist = persist,
                         !.sync = TRUE] \in CallRecords
            BY IdleCall, CallType
      <2>2. call' \in [Calls -> CallRecords] BY <1>4, <2>1 DEF Commit
      <2> QED BY <1>4, <2>2 DEF Commit, Overlaps, Existing
<1>5. ASSUME NEW c \in Calls, NEW d \in Sources, NEW rs \in SUBSET Rules, Import(c, d, rs)
      PROVE  RulType'
      <2>1. /\ [Idle EXCEPT !.of = d, !.pc = "kb", !.recreate = TRUE, !.persist = TRUE,
                            !.sync = TRUE] \in CallRecords
            /\ [Idle EXCEPT !.of = d, !.pc = "upsert", !.kb = Resolve(d), !.todo = rs] \in CallRecords
            BY IdleCall, CallType, ResolveType
      <2>2. call' \in [Calls -> CallRecords] BY <1>5, <2>1 DEF Import
      <2> QED BY <1>5, <2>2 DEF Import, Overlaps, Existing
<1>6. ASSUME NEW c \in Calls, TakeKB(c) PROVE RulType'
      <2>1. call' \in [Calls -> CallRecords]
            <3>1. CASE call' = [call EXCEPT ![c] = Done] BY <3>1, IdleCall
            <3>2. ASSUME NEW k \in KBs,
                         call' = [call EXCEPT ![c] = [call[c] EXCEPT !.pc = "upsert", !.kb = k,
                                                                !.todo = local[call[c].of]]]
                  PROVE  call' \in [Calls -> CallRecords]
                  <4>1. call[c].of \in Sources BY <1>6 DEF TakeKB, WrittenAreThere
                  <4>2. [call[c] EXCEPT !.pc = "upsert", !.kb = k, !.todo = local[call[c].of]]
                           \in CallRecords
                        BY <4>1, CallType
                  <4> QED BY <3>2, <4>2
            <3> QED BY <1>6, <3>1, <3>2, TakeKBType
      <2>2. Existing \subseteq Existing' /\ Existing' \subseteq KBs
            /\ kb' \in [Existing' -> SUBSET (Sources \X Rules)]
            BY <1>6, TakeKBType DEF Existing
      <2> QED BY <1>6, <2>1, <2>2 DEF TakeKB
<1>7. ASSUME NEW c \in Calls, UpsertRule(c) PROVE RulType'
      <2>1. call' \in [Calls -> CallRecords] BY <1>7, UpsertRuleType
      <2> QED BY <1>7, <2>1, UpsertRuleType DEF UpsertRule
<1>8. ASSUME NEW x \in CallRecords, NEW files, Bind(x, files), x.kb \in Existing, x.of \in Sources
      PROVE  /\ default' \in Existing \cup {NoKB}
             /\ bound' \in [Sources -> Existing \cup {NoKB}]
             /\ mapped' \in [Sources -> Existing \cup {NoKB}]
      BY <1>8 DEF Bind
<1>9. ASSUME NEW c \in Calls, Report(c) PROVE RulType'
      <2>1. call[c].pc = "upsert" /\ call[c] \in CallRecords BY <1>9 DEF Report
      <2>2. call[c].kb \in Existing /\ call[c].of \in Sources BY <2>1 DEF WrittenAreThere
      <2>3. Bind(call[c], IF call[c].sync /\ call[c].persist
                            THEN {"default", "sources", "runtime"} ELSE {})
            BY <1>9 DEF Report
      <2>4. /\ default' \in Existing \cup {NoKB}
            /\ bound' \in [Sources -> Existing \cup {NoKB}]
            /\ mapped' \in [Sources -> Existing \cup {NoKB}]
            BY <1>8, <2>1, <2>2, <2>3
      <2>5. reported' \in [Sources -> SUBSET Rules] BY <1>9, <2>1 DEF Report, CallRecords
      <2>6. call' \in [Calls -> CallRecords] BY <1>9, IdleCall DEF Report
      <2>7. disturbed' \subseteq Sources BY <1>9, <2>2 DEF Report, Loose
      <2> QED BY <1>9, <2>4, <2>5, <2>6, <2>7 DEF Report, Existing
<1>10. CASE Crash
      <2>1. PICK c \in Calls, files \in {{}, {"default"}, {"default", "sources"}} :
               /\ call[c].pc = "upsert" /\ Bind(call[c], files)
               /\ disturbed' = disturbed \cup Loose(files)
                     \cup {call[b].of : b \in {a \in Calls : call[a].pc \notin {"idle", "done"}}}
            BY <1>10 DEF Crash
      <2>2. call[c].kb \in Existing /\ call[c].of \in Sources /\ call[c] \in CallRecords
            BY <2>1 DEF WrittenAreThere
      <2>3. /\ default' \in Existing \cup {NoKB}
            /\ bound' \in [Sources -> Existing \cup {NoKB}]
            /\ mapped' \in [Sources -> Existing \cup {NoKB}]
            BY <1>8, <2>1, <2>2
      <2>4. \A a \in Calls : call[a].pc \notin {"idle", "done"} => call[a].of \in Sources
            BY DEF WrittenAreThere, CallRecords
      <2>5. disturbed' \subseteq Sources BY <2>1, <2>4 DEF Loose
      <2>6. call' \in [Calls -> CallRecords] BY <1>10, IdleCall DEF Crash
      <2> QED BY <1>10, <2>3, <2>5, <2>6 DEF Crash, Existing
<1> HIDE DEF RulType
<1> QED BY <1>1, <1>2, <1>3, <1>4, <1>5, <1>6, <1>7, <1>9, <1>10 DEF RulNext

\* The calls that are in progress.
Running(c) == call[c].pc \notin {"idle", "done"}

\* Only a sync that binds its KB changes where a data source is searched that is
\* not disturbed.
LEMMA ResolveStays ==
    ASSUME RulType, WrittenAreThere, RulNext, NEW d \in Sources, d \notin disturbed'
    PROVE  \/ /\ Resolve(d)' = Resolve(d)
              /\ bound[d] # NoKB \/ mapped[d] # NoKB => bound'[d] # NoKB \/ mapped'[d] # NoKB
           \/ \E c \in Calls : /\ Report(c) /\ call[c].of = d
                               /\ Resolve(d)' = call[c].kb
<1> USE DEF RulType, Resolve
<1>1. CASE UNCHANGED <<bound, mapped, default>> BY <1>1
<1>2. CASE SaveSettings BY <1>2 DEF SaveSettings
<1>3. ASSUME NEW c \in Calls, Report(c)
      PROVE  \/ /\ Resolve(d)' = Resolve(d)
                /\ bound[d] # NoKB \/ mapped[d] # NoKB => bound'[d] # NoKB \/ mapped'[d] # NoKB
             \/ call[c].of = d /\ Resolve(d)' = call[c].kb
      <2> DEFINE x == call[c]
      <2>1. x.of \in Sources /\ x.kb \in Existing /\ x.kb # NoKB
            BY <1>3, RuleStoreAssumption DEF Report, WrittenAreThere
      <2>2. CASE x.sync /\ x.persist
            <3>1. /\ default' = x.kb /\ bound' = [bound EXCEPT ![x.of] = x.kb]
                  /\ mapped' = [mapped EXCEPT ![x.of] = x.kb]
                  /\ disturbed' = disturbed
                        \cup ({s \in Sources : bound[s] = NoKB /\ mapped[s] = NoKB} \ {x.of})
                        \cup {}
                  BY <1>3, <2>2 DEF Report, Bind, Loose
            <3> QED BY <2>1, <3>1
      <2>3. CASE ~(x.sync /\ x.persist)
            <3>1. UNCHANGED <<bound, mapped, default>> BY <1>3, <2>3 DEF Report, Bind
            <3> QED BY <3>1
      <2> QED BY <2>2, <2>3
<1>4. CASE Crash
      <2>1. PICK c \in Calls, files \in {{}, {"default"}, {"default", "sources"}} :
               /\ call[c].pc = "upsert" /\ Bind(call[c], files)
               /\ disturbed' = disturbed \cup Loose(files)
                     \cup {call[b].of : b \in {a \in Calls : call[a].pc \notin {"idle", "done"}}}
            BY <1>4 DEF Crash
      <2>2. d # call[c].of BY <2>1
      <2>3. bound'[d] = bound[d] /\ mapped'[d] = mapped[d]
            BY <2>1, <2>2 DEF Bind
      <2>4. default' # default => bound[d] # NoKB \/ mapped[d] # NoKB BY <2>1 DEF Bind, Loose
      <2> QED BY <2>3, <2>4
<1> QED BY <1>1, <1>2, <1>3, <1>4, ZenonT(60)
    DEF RulNext, Upsert, Bootstrap, Commit, Import, TakeKB, UpsertRule

\* What a step does to a call: it starts, ...
Starts(c) ==
    /\ call[c] = Idle /\ call'[c].of \in Sources /\ Overlaps(call'[c].of) \subseteq disturbed'
    /\ \A a \in Calls \ {c} : call'[a] = call[a]
    /\ call'[c].ok = {}
    /\ \/ call'[c].pc = "kb" /\ call'[c].sync
       \/ /\ call'[c].pc = "upsert" /\ ~call'[c].sync
          /\ call'[c].kb = Resolve(call'[c].of) /\ call'[c].kb # NoKB
          /\ \/ bound[call'[c].of] # NoKB \/ mapped[call'[c].of] # NoKB
             \/ call'[c].of \in disturbed'
          /\ UNCHANGED <<kb, bound, mapped, default>>

\* ... or takes a KB, ...
Takes(c) ==
    /\ TakeKB(c) /\ call'[c].pc = "upsert" /\ call'[c].of = call[c].of
    /\ call'[c].sync = call[c].sync /\ call'[c].ok = call[c].ok /\ call'[c].kb \in Existing'

\* ... or writes a rule, ...
Writes(c) ==
    /\ UpsertRule(c) /\ call'[c].pc = "upsert" /\ call'[c].of = call[c].of
    /\ call'[c].sync = call[c].sync /\ call'[c].kb = call[c].kb
    /\ \A r \in call'[c].ok : r \in call[c].ok \/ <<call'[c].of, r>> \in kb'[call'[c].kb]

\* ... or ends, or is left alone.
CallStep(c) == \/ Starts(c) \/ Takes(c) \/ Writes(c)
               \/ call'[c].pc \in {"idle", "done"}
               \/ call'[c] = call[c]

LEMMA CallSteps ==
    ASSUME RulType, WrittenAreThere, RulNext, NEW c \in Calls
    PROVE  CallStep(c)
<1>0. call \in [Calls -> CallRecords] BY DEF RulType
<1>1. CASE UNCHANGED call BY <1>1 DEF CallStep
<1>2. ASSUME NEW a \in Calls, NEW d \in Sources, NEW rs \in SUBSET Rules,
             NEW recreate \in BOOLEAN, NEW persist \in BOOLEAN, Commit(a, d, rs, recreate, persist)
      PROVE  CallStep(c)
      <2>1. CASE a # c BY <1>0, <1>2, <2>1 DEF Commit, CallStep
      <2>2. CASE a = c
            <3>1. call'[c].pc = "kb" /\ call'[c].sync /\ call'[c].of = d /\ call'[c].ok = {}
                  BY <1>0, <1>2, <2>2 DEF Commit, Idle
            <3> QED BY <1>0, <1>2, <2>2, <3>1 DEF Commit, CallStep, Starts
      <2> QED BY <2>1, <2>2
<1>3. ASSUME NEW a \in Calls, NEW d \in Sources, NEW rs \in SUBSET Rules, Import(a, d, rs)
      PROVE  CallStep(c)
      <2>1. CASE a # c BY <1>0, <1>3, <2>1 DEF Import, CallStep
      <2>2. CASE a = c /\ Resolve(d) = NoKB
            <3>1. call'[c].pc = "kb" /\ call'[c].sync /\ call'[c].of = d /\ call'[c].ok = {}
                  BY <1>0, <1>3, <2>2 DEF Import, Idle
            <3> QED BY <1>0, <1>3, <2>2, <3>1 DEF Import, CallStep, Starts
      <2>3. CASE a = c /\ Resolve(d) # NoKB
            <3>1. call'[c].pc = "upsert" /\ ~call'[c].sync /\ call'[c].of = d
                  /\ call'[c].kb = Resolve(d) /\ call'[c].ok = {}
                  BY <1>0, <1>3, <2>3 DEF Import, Idle
            <3>2. bound[d] = NoKB /\ mapped[d] = NoKB => d \in disturbed'
                  BY <1>3, <2>3 DEF Import, Resolve
            <3> QED BY <1>0, <1>3, <2>3, <3>1, <3>2 DEF Import, CallStep, Starts
      <2> QED BY <2>1, <2>2, <2>3
<1>4. ASSUME NEW a \in Calls, TakeKB(a) PROVE CallStep(c)
      <2>1. CASE call' = [call EXCEPT ![a] = Done] BY <1>0, <2>1, CallPc DEF CallStep
      <2>2. ASSUME NEW k \in KBs, k \in Existing',
                   call' = [call EXCEPT ![a] = [call[a] EXCEPT !.pc = "upsert", !.kb = k,
                                                               !.todo = local[call[a].of]]]
            PROVE  CallStep(c)
            <3>1. CASE a = c
                  <4>1. /\ call'[c].pc = "upsert" /\ call'[c].of = call[c].of /\ call'[c].kb = k
                        /\ call'[c].sync = call[c].sync /\ call'[c].ok = call[c].ok
                        BY <1>0, <2>2, <3>1 DEF CallRecords
                  <4> QED BY <1>4, <2>2, <3>1, <4>1 DEF CallStep, Takes
            <3>2. CASE a # c BY <1>0, <2>2, <3>2 DEF CallStep
            <3> QED BY <3>1, <3>2
      <2> QED BY <1>4, <2>1, <2>2, TakeKBType
<1>5. ASSUME NEW a \in Calls, UpsertRule(a) PROVE CallStep(c)
      <2>1. PICK x \in CallRecords :
               /\ call' = [call EXCEPT ![a] = x]
               /\ x.pc = "upsert" /\ x.kb = call[a].kb /\ x.of = call[a].of /\ x.sync = call[a].sync
               /\ \A r \in x.ok : r \in call[a].ok \/ <<x.of, r>> \in kb'[x.kb]
            BY <1>5, UpsertRuleType
      <2>2. CASE a = c BY <1>0, <1>5, <2>1, <2>2 DEF CallStep, Writes
      <2>3. CASE a # c BY <1>0, <2>1, <2>3 DEF CallStep
      <2> QED BY <2>2, <2>3
<1>6. ASSUME NEW a \in Calls, Report(a) PROVE CallStep(c)
      BY <1>0, <1>6, CallPc DEF Report, CallStep
<1>7. CASE Crash BY <1>0, <1>7, CallPc DEF Crash, CallStep
<1>8. CASE \/ SaveSettings
           \/ \E d \in Sources : \/ \E r \in Rules : Upsert(d, r)
                                 \/ \E rs \in SUBSET Rules : Bootstrap(d, rs)
      <2>1. UNCHANGED call BY <1>8 DEF SaveSettings, Upsert, Bootstrap
      <2> QED BY <1>1, <2>1
<1>9. CASE \E a \in Calls, d \in Sources, rs \in SUBSET Rules, recreate, persist \in BOOLEAN :
              Commit(a, d, rs, recreate, persist)
      BY <1>2, <1>9
<1>10. CASE \E a \in Calls, d \in Sources, rs \in SUBSET Rules : Import(a, d, rs)
      BY <1>3, <1>10
<1>11. CASE \E a \in Calls : TakeKB(a) \/ UpsertRule(a) \/ Report(a)
      BY <1>4, <1>5, <1>6, <1>11
<1>12. \/ SaveSettings
       \/ Crash
       \/ \E d \in Sources : \/ \E r \in Rules : Upsert(d, r)
                             \/ \E rs \in SUBSET Rules : Bootstrap(d, rs)
       \/ \E a \in Calls, d \in Sources, rs \in SUBSET Rules, recreate, persist \in BOOLEAN :
             Commit(a, d, rs, recreate, persist)
       \/ \E a \in Calls, d \in Sources, rs \in SUBSET Rules : Import(a, d, rs)
       \/ \E a \in Calls : TakeKB(a) \/ UpsertRule(a) \/ Report(a)
      BY DEF RulNext
<1> QED BY <1>7, <1>8, <1>9, <1>10, <1>11, <1>12

LEMMA DisturbedGrows == ASSUME RulNext PROVE disturbed \subseteq disturbed'
BY ZenonT(60) DEF RulNext, Upsert, Bootstrap, SaveSettings, Commit, Import, TakeKB, UpsertRule, Report, Crash

LEMMA WrittenAreThereStep ==
    ASSUME RulType, WrittenAreThere, RulNext PROVE WrittenAreThere'
<1>1. SUFFICES ASSUME NEW c \in Calls
      PROVE  /\ call'[c].pc \in {"kb", "upsert"} => call'[c].of \in Sources
             /\ call'[c].pc = "kb" => call'[c].sync /\ call'[c].ok = {}
             /\ call'[c].pc = "upsert" =>
                   /\ call'[c].kb \in Existing'
                   /\ \A r \in call'[c].ok : <<call'[c].of, r>> \in kb'[call'[c].kb]
      BY DEF WrittenAreThere
<1>2. KBsGrow BY KBsOnlyGrow
<1>3. CASE Starts(c)
      <2>1. call'[c].pc = "upsert" => Resolve(call'[c].of) \in Existing
            BY <1>3, ResolveType DEF Starts
      <2> QED BY <1>2, <1>3, <2>1 DEF Starts, KBsGrow
<1>4. CASE Takes(c) BY <1>4 DEF Takes, TakeKB, WrittenAreThere
<1>5. CASE Writes(c) BY <1>2, <1>5 DEF Writes, UpsertRule, WrittenAreThere, KBsGrow
<1>6. CASE call'[c] = call[c] BY <1>2, <1>6 DEF WrittenAreThere, KBsGrow
<1>7. CASE call'[c].pc \in {"idle", "done"} BY <1>7
<1> QED BY <1>3, <1>4, <1>5, <1>6, <1>7, CallSteps DEF CallStep

\* A call that is in progress was, or has just started.
LEMMA RunningWas ==
    ASSUME RulType, WrittenAreThere, RulNext, NEW c \in Calls, Running(c)', ~Starts(c)
    PROVE  Running(c) /\ call'[c].of = call[c].of
BY CallSteps DEF CallStep, Takes, Writes, Running, TakeKB, UpsertRule

LEMMA OneCallAtATimeStep ==
    ASSUME RulType, WrittenAreThere, OneCallAtATime, RulNext PROVE OneCallAtATime'
<1>1. SUFFICES ASSUME NEW b \in Calls, NEW c \in Calls, b # c, Running(b)', Running(c)',
                      call'[b].of = call'[c].of
               PROVE  call'[b].of \in disturbed'
      BY DEF OneCallAtATime, Running
<1>2. ASSUME NEW e \in Calls, NEW f \in Calls, e # f, Starts(e), Running(f)',
             call'[e].of = call'[f].of
      PROVE  call'[e].of \in disturbed'
      <2>1. call'[f] = call[f] BY <1>2 DEF Starts
      <2>2. f \in Busy(call'[e].of) BY <1>2, <2>1 DEF Busy, Running
      <2> QED BY <1>2, <2>2 DEF Starts, Overlaps
<1>3. CASE ~Starts(b) /\ ~Starts(c)
      BY <1>1, <1>3, RunningWas, DisturbedGrows DEF OneCallAtATime, Running
<1> QED BY <1>1, <1>2, <1>3

LEMMA ImportsIntoOwnStep ==
    ASSUME RulType, WrittenAreThere, OneCallAtATime, ImportsIntoOwn, RulNext
    PROVE  ImportsIntoOwn'
<1>1. SUFFICES ASSUME NEW c \in Calls, NEW d, d = call'[c].of, call'[c].pc = "upsert",
                      ~call'[c].sync, d \notin disturbed'
               PROVE  call'[c].kb = Resolve(d)' /\ (bound'[d] # NoKB \/ mapped'[d] # NoKB)
      BY DEF ImportsIntoOwn, Resolve
<1>2. CASE Starts(c)
      <2>1. UNCHANGED <<bound, mapped, default>> /\ call'[c].kb = Resolve(d)
            /\ (bound[d] # NoKB \/ mapped[d] # NoKB)
            BY <1>1, <1>2 DEF Starts
      <2> QED BY <2>1 DEF Resolve
<1>3. CASE ~Starts(c)
      <2>1. ~Takes(c) BY <1>1 DEF Takes, TakeKB, WrittenAreThere
      <2>2. /\ call[c].pc = "upsert" /\ ~call[c].sync /\ d = call[c].of
            /\ call'[c].kb = call[c].kb
            BY <1>1, <1>3, <2>1, CallSteps DEF CallStep, Writes, UpsertRule
      <2>3. d \in Sources /\ d \notin disturbed
            BY <1>1, <2>2, DisturbedGrows DEF WrittenAreThere
      <2>4. \A a \in Calls : Report(a) => call[a].of # d
            <3>1. SUFFICES ASSUME NEW a \in Calls, Report(a), call[a].of = d PROVE FALSE
                  OBVIOUS
            <3>2. a # c BY <1>1, <3>1, CallPc DEF Report, RulType
            <3> QED BY <2>2, <2>3, <3>1, <3>2 DEF OneCallAtATime, Report
      <2>5. /\ Resolve(d)' = Resolve(d)
            /\ bound[d] # NoKB \/ mapped[d] # NoKB => bound'[d] # NoKB \/ mapped'[d] # NoKB
            BY <1>1, <2>3, <2>4, ResolveStays
      <2> QED BY <2>2, <2>3, <2>5 DEF ImportsIntoOwn
<1> QED BY <1>2, <1>3

LEMMA ReportedIsFoundStep ==
    ASSUME RulInv, RulNext PROVE ReportedIsFound'
<1> USE DEF RulInv
<1>1. SUFFICES ASSUME NEW d \in Sources, d \notin disturbed'
               PROVE  reported'[d] \subseteq Found(d)'
      BY DEF ReportedIsFound
<1>2. d \notin disturbed /\ reported[d] \subseteq Found(d)
      BY <1>1, DisturbedGrows DEF ReportedIsFound
<1>3. KBsGrow BY KBsOnlyGrow
<1>4. ASSUME Resolve(d)' = Resolve(d) PROVE Found(d) \subseteq Found(d)'
      <2>1. \A k \in Existing : {r \in Rules : <<d, r>> \in kb[k]} \subseteq
                                {r \in Rules : <<d, r>> \in kb'[k]}
            BY <1>3 DEF KBsGrow
      <2> QED BY <1>3, <1>4, <2>1 DEF Found, Existing, KBsGrow
<1>5. ASSUME NEW c \in Calls, Report(c), call[c].of = d
      PROVE  reported'[d] \subseteq Found(d)'
      <2> DEFINE x == call[c]
      <2>1. /\ x.pc = "upsert" /\ x.kb \in Existing /\ x.kb # NoKB /\ kb' = kb
            /\ \A r \in x.ok : <<d, r>> \in kb[x.kb]
            BY <1>5, RuleStoreAssumption DEF Report, WrittenAreThere, RulType
      <2>2. x.ok \subseteq Rules BY DEF RulType, CallRecords
      <2>3. Resolve(d)' = x.kb
            <3>1. CASE ~x.sync
                  <4>1. UNCHANGED <<bound, mapped, default>> BY <1>5, <3>1 DEF Report, Bind
                  <4>2. Resolve(d)' = Resolve(d) BY <4>1 DEF Resolve
                  <4> QED BY <1>2, <1>5, <2>1, <3>1, <4>2 DEF ImportsIntoOwn
            <3>2. CASE x.sync
                  <4>1. x.persist BY <1>1, <1>5, <3>2 DEF Report
                  <4>2. bound' = [bound EXCEPT ![d] = x.kb] BY <1>5, <3>2, <4>1 DEF Report, Bind
                  <4> QED BY <2>1, <4>2 DEF Resolve, RulType
            <3> QED BY <3>1, <3>2
      <2>4. x.ok \subseteq Found(d)' BY <2>1, <2>2, <2>3 DEF Found, Existing
      <2>5. CASE x.sync
            <3>1. reported'[d] = x.ok BY <1>5, <2>5 DEF Report, RulType
            <3> QED BY <2>4, <3>1
      <2>6. CASE ~x.sync
            <3>1. reported'[d] = reported[d] \cup x.ok BY <1>5, <2>6 DEF Report, RulType
            <3>2. Resolve(d) = x.kb BY <1>2, <1>5, <2>1, <2>6 DEF ImportsIntoOwn
            <3> QED BY <1>2, <1>4, <2>3, <2>4, <3>1, <3>2
      <2> QED BY <2>5, <2>6
<1>6. ASSUME \A c \in Calls : Report(c) => call[c].of # d
      PROVE  reported'[d] \subseteq Found(d)'
      <2>1. reported'[d] = reported[d]
            BY <1>6, ZenonT(60) DEF RulType, RulNext, Upsert, Bootstrap, SaveSettings, Commit, Import, TakeKB,
                        UpsertRule, Report, Crash
      <2>2. Resolve(d)' = Resolve(d) BY <1>1, <1>6, ResolveStays
      <2> QED BY <1>2, <1>4, <2>1, <2>2
<1> QED BY <1>5, <1>6

LEMMA RulInvStep == RulInv /\ [RulNext]_rulVars => RulInv'
<1>1. ASSUME RulInv, RulNext PROVE RulInv'
      BY <1>1, RulTypeStep, WrittenAreThereStep, OneCallAtATimeStep, ImportsIntoOwnStep,
         ReportedIsFoundStep DEF RulInv
<1>2. ASSUME RulInv, UNCHANGED rulVars PROVE RulInv'
      BY <1>2 DEF RulInv, rulVars, RulType, Existing, WrittenAreThere, OneCallAtATime,
                  ImportsIntoOwn, ReportedIsFound, Resolve, Found
<1> QED BY <1>1, <1>2

\* What a call reported as synced is found by a search (ReportedIsFound, about
\* sync_to_rag, rules_import and resolve_kb_id), for every number of data sources,
\* rules, calls and knowledge bases.
THEOREM ReportedRulesAreFound == RulInit /\ [][RulNext]_rulVars => []ReportedIsFound
<1>1. RulInv => ReportedIsFound BY DEF RulInv
<1> QED BY <1>1, RulInvInit, RulInvStep, PTL
-----------------------------------------------------------------------------
(* A statement with a subquery.                                             *)

\* The rows that the outer part alone selects, and the ids of the subquery.
Outers == {r \in table.outer : AllOf(r, stmt.pre)}
SubIds == Id(SubRows)

\* Outer first: what has been found satisfies the outer part, each of its ids has been
\* asked for or is still to be asked for, and as long as no call was cut nothing is missing.
ProbeFits == OuterFirst(stmt) /\ found = {} /\ hits = {} /\ ~sqlCut
BatchesFit ==
    /\ OuterFirst(stmt) /\ found \subseteq Outers /\ hits \subseteq SubIds
    /\ ~sqlCut => found = Outers /\ \A id \in Id(found) : id \in candidates \/ (id \in SubIds => id \in hits)

\* Subquery first: the ids that are used are its own, all of them if nothing was cut.
SubFits == ~OuterFirst(stmt) /\ hits = {} /\ ~sqlCut
OuterFits == ~OuterFirst(stmt) /\ hits \subseteq SubIds /\ (~sqlCut => hits = SubIds)

SqlInv ==
    /\ sqlPc \in {"idle", "probe", "batches", "sub", "outer", "done", "failed"}
    /\ sqlPc = "idle" => found = {} /\ hits = {} /\ ~sqlCut
    /\ sqlPc \in {"idle", "sub", "outer"} => sqlAnswer = {}
    /\ sqlPc = "probe" => ProbeFits
    /\ sqlPc = "batches" => BatchesFit
    /\ sqlPc = "sub" => SubFits
    /\ sqlPc = "outer" => OuterFits
    /\ sqlCut \in BOOLEAN
    /\ SplitIsExact

LEMMA AtMostIs == ASSUME NEW rs, NEW n, NEW got \in AtMost(rs, n) PROVE got \subseteq rs
BY DEF AtMost

\* What the statement says, by the way it is split.
LEMMA SaidOuterFirst ==
    ASSUME OuterFirst(stmt), ~Unsplit
    PROVE  Said = {r \in Outers : r.id \in SubIds}
<1>1. stmt.rest = {} /\ stmt.link # "or" /\ stmt.pre # {}
  BY DEF Unsplit, OuterFirst
<1>2. \A r : Selected(r) <=> AllOf(r, stmt.pre) /\ r.id \in SubIds
  BY <1>1 DEF Selected, AllOf, SubIds
<1> QED
  BY <1>2 DEF Said, Outers

LEMMA SaidSubFirst ==
    ASSUME ~OuterFirst(stmt)
    PROVE  Said = {r \in table.outer : r.id \in SubIds /\ AllOf(r, stmt.rest)}
<1>1. stmt.pre = {}
  BY DEF OuterFirst
<1>2. \A r : Selected(r) <=> r.id \in SubIds /\ AllOf(r, stmt.rest)
  BY <1>1 DEF Selected, AllOf, SubIds
<1> QED
  BY <1>2 DEF Said

LEMMA SubmitKeeps == SqlInv /\ Submit => SqlInv'
<1> SUFFICES ASSUME SqlInv, Submit PROVE SqlInv'
  OBVIOUS
<1>1. /\ sqlPc = "idle" /\ sqlPc' = IF OuterFirst(stmt') THEN "probe" ELSE "sub"
      /\ UNCHANGED <<found, candidates, hits, sqlAnswer, sqlCut>>
  BY DEF Submit
<1>2. OuterFirst(stmt)' <=> OuterFirst(stmt')
  BY DEF OuterFirst
<1> QED
  BY <1>1, <1>2 DEF SqlInv, ProbeFits, SubFits, SplitIsExact

LEMMA ProbeKeeps == SqlInv /\ Probe => SqlInv'
<1> SUFFICES ASSUME SqlInv, Probe PROVE SqlInv'
  OBVIOUS
<1>1. /\ sqlPc = "probe" /\ sqlPc' = (IF stmt.ided THEN "batches" ELSE "failed")
      /\ UNCHANGED <<stmt, table, hits, sqlAnswer>>
  BY DEF Probe
<1>2. PICK got \in AtMost(Outers, ProbeCap) :
        /\ found' = got /\ candidates' = (IF stmt.ided THEN Id(got) ELSE {}) /\ sqlCut' = (got # Outers)
  BY DEF Probe, Outers
<1>3. got \subseteq Outers /\ ProbeFits
  BY <1>1, <1>2, AtMostIs DEF SqlInv
<1>4. Outers' = Outers /\ SubIds' = SubIds /\ (OuterFirst(stmt)' <=> OuterFirst(stmt))
  BY <1>1 DEF Outers, SubIds, SubRows, OuterFirst
<1>5. stmt.ided => BatchesFit'
  BY <1>1, <1>2, <1>3, <1>4 DEF BatchesFit, ProbeFits, Id
<1> QED
  BY <1>1, <1>2, <1>5 DEF SqlInv, SplitIsExact

LEMMA BatchKeeps == SqlInv /\ Batch => SqlInv'
<1> SUFFICES ASSUME SqlInv, Batch PROVE SqlInv'
  OBVIOUS
<1>1. sqlPc = "batches" /\ UNCHANGED <<sqlPc, stmt, table, found, sqlAnswer>>
  BY DEF Batch
<1>a. PICK ids \in AtMost(candidates, BatchSize) : \E got \in AtMost(Injected(ids), BatchSize) :
        /\ hits' = hits \cup Id(got) /\ candidates' = candidates \ ids
        /\ sqlCut' = (sqlCut \/ got # Injected(ids))
  BY DEF Batch
<1>2. PICK got \in AtMost(Injected(ids), BatchSize) :
        /\ hits' = hits \cup Id(got) /\ candidates' = candidates \ ids
        /\ sqlCut' = (sqlCut \/ got # Injected(ids))
  BY <1>a
<1>3. ids \subseteq candidates /\ got \subseteq Injected(ids) /\ BatchesFit
  BY <1>1, <1>2, AtMostIs DEF SqlInv
<1>4. Outers' = Outers /\ SubIds' = SubIds /\ (OuterFirst(stmt)' <=> OuterFirst(stmt))
  BY <1>1 DEF Outers, SubIds, SubRows, OuterFirst
<1>5. Id(Injected(ids)) = SubIds \cap ids /\ Id(got) \subseteq SubIds
  BY <1>3 DEF Injected, SubIds, SubRows, Id
<1>6. BatchesFit'
  BY <1>1, <1>2, <1>3, <1>4, <1>5 DEF BatchesFit
<1> QED
  BY <1>1, <1>2, <1>6 DEF SqlInv, SplitIsExact

LEMMA FilterFoundKeeps == SqlInv /\ FilterFound => SqlInv'
<1> SUFFICES ASSUME SqlInv, FilterFound PROVE SqlInv'
  OBVIOUS
<1>1. /\ sqlPc = "batches" /\ candidates = {} /\ sqlPc' = "done"
      /\ UNCHANGED <<stmt, table, found, candidates, hits>>
  BY DEF FilterFound
<1>2. PICK got \in AtMost(Hit, SqlSize) : sqlAnswer' = got /\ sqlCut' = (sqlCut \/ got # Hit)
  BY DEF FilterFound
<1>3. got \subseteq Hit /\ BatchesFit
  BY <1>1, <1>2, AtMostIs DEF SqlInv
<1>4. Said' = Said /\ (Unsplit' <=> Unsplit)
  BY <1>1 DEF Said, Selected, SubRows, Unsplit, OuterFirst
<1>5. ASSUME ~Unsplit PROVE Hit \subseteq Said /\ (~sqlCut => Said \subseteq Hit)
  <2>1. Said = {r \in Outers : r.id \in SubIds}
    BY <1>3, <1>5, SaidOuterFirst DEF BatchesFit
  <2> QED
    BY <1>1, <1>3, <2>1 DEF BatchesFit, Hit, Id
<1>6. SplitIsExact'
  BY <1>2, <1>3, <1>4, <1>5 DEF SplitIsExact, SplitAnswers
<1> QED
  BY <1>1, <1>2, <1>6 DEF SqlInv

LEMMA SubqueryKeeps == SqlInv /\ Subquery => SqlInv'
<1> SUFFICES ASSUME SqlInv, Subquery PROVE SqlInv'
  OBVIOUS
<1>1. /\ sqlPc = "sub" /\ sqlPc' = (IF hits' = {} THEN "done" ELSE "outer")
      /\ UNCHANGED <<stmt, table, found, candidates, sqlAnswer>>
  BY DEF Subquery
<1>a. PICK got \in AtMost(SubRows, SubCap) : \E ids \in AtMost(Id(got), IdCap) :
        hits' = ids /\ sqlCut' = (ids # Id(SubRows))
  BY DEF Subquery
<1>2. PICK ids \in AtMost(Id(got), IdCap) : hits' = ids /\ sqlCut' = (ids # Id(SubRows))
  BY <1>a
<1>3. ids \subseteq SubIds /\ SubFits /\ sqlAnswer = {}
  <2>1. got \subseteq SubRows /\ ids \subseteq Id(got)
    BY <1>2, AtMostIs
  <2> QED
    BY <1>1, <2>1 DEF SqlInv, SubIds, Id
<1>4. /\ SubIds' = SubIds /\ Said' = Said /\ (OuterFirst(stmt)' <=> OuterFirst(stmt))
  BY <1>1 DEF Said, Selected, SubIds, SubRows, OuterFirst
<1>5. OuterFits'
  BY <1>2, <1>3, <1>4 DEF OuterFits, SubFits, SubIds
<1>6. hits' = {} /\ ~sqlCut' => Said = {}
  BY <1>2, <1>3, SaidSubFirst DEF SubIds, SubFits
<1>7. SplitIsExact'
  BY <1>1, <1>3, <1>4, <1>6 DEF SplitIsExact, SplitAnswers
<1> QED
  BY <1>1, <1>2, <1>3, <1>5, <1>7 DEF SqlInv

LEMMA OuterCallKeeps == SqlInv /\ OuterCall => SqlInv'
<1> SUFFICES ASSUME SqlInv, OuterCall PROVE SqlInv'
  OBVIOUS
<1>1. sqlPc = "outer" /\ sqlPc' = "done" /\ UNCHANGED <<stmt, table, found, candidates, hits>>
  BY DEF OuterCall
<1>2. PICK all : all = {r \in table.outer : r.id \in hits /\ AllOf(r, stmt.rest)}
  OBVIOUS
<1>3. PICK got \in AtMost(all, SqlSize) : sqlAnswer' = got /\ sqlCut' = (sqlCut \/ got # all)
  BY <1>2 DEF OuterCall
<1>4. got \subseteq all /\ OuterFits
  BY <1>1, <1>3, AtMostIs DEF SqlInv
<1>5. Said' = Said /\ Said = {r \in table.outer : r.id \in SubIds /\ AllOf(r, stmt.rest)}
  <2>1. Said' = Said
    BY <1>1 DEF Said, Selected, SubRows
  <2> QED
    BY <1>4, <2>1, SaidSubFirst DEF OuterFits
<1>6. all \subseteq Said /\ (~sqlCut => Said \subseteq all)
  BY <1>2, <1>4, <1>5 DEF OuterFits
<1>7. SplitIsExact'
  BY <1>3, <1>4, <1>5, <1>6 DEF SplitIsExact, SplitAnswers
<1> QED
  BY <1>1, <1>3, <1>7 DEF SqlInv

\* A statement that the engine splits answers what it says: no row that it does not
\* select, all of them unless a call was cut (es_engine.py), for any tables, conditions
\* and limits of a call; conditions behind the IN and an OR before it, which the outer
\* part leaves out, are excepted.
THEOREM SplitsAreExact == SqlInit /\ [][SqlNext]_sqlVars => []SplitIsExact
<1>1. SqlInit => SqlInv
  BY DEF SqlInit, SqlInv, SplitIsExact
<1>2. SqlInv /\ [SqlNext]_sqlVars => SqlInv'
  <2>1. SqlInv /\ SqlNext => SqlInv'
    BY SubmitKeeps, ProbeKeeps, BatchKeeps, FilterFoundKeeps, SubqueryKeeps, OuterCallKeeps DEF SqlNext
  <2>2. SqlInv /\ UNCHANGED sqlVars => SqlInv'
    BY DEF sqlVars, SqlInv, ProbeFits, BatchesFit, SubFits, OuterFits, SplitIsExact, SplitAnswers, Said, Selected,
           SubRows, SubIds, Outers, Unsplit, OuterFirst
  <2> QED
    BY <2>1, <2>2
<1>3. SqlInv => SplitIsExact
  BY DEF SqlInv
<1> QED
  BY <1>1, <1>2, <1>3, PTL

-----------------------------------------------------------------------------
(* A query plan.                                                           *)

\* A sequence, by its members.
IsList(s) == s \in Seq(Range(s))

LEMMA ListOf ==
    ASSUME NEW T, NEW s \in Seq(T)
    PROVE  IsList(s) /\ Range(s) \subseteq T /\ DOMAIN s = 1 .. Len(s) /\ Len(s) \in Nat
<1>1. s \in [1 .. Len(s) -> T] /\ Len(s) \in Nat OBVIOUS
<1>2. Range(s) = {s[i] : i \in 1 .. Len(s)} BY <1>1 DEF Range
<1>3. s \in [1 .. Len(s) -> Range(s)] BY <1>1, <1>2
<1>4. s \in Seq(Range(s)) BY <1>1, <1>3
<1> QED BY <1>1, <1>2, <1>4 DEF IsList

\* The concatenation of lists is a list of their members.
LEMMA FlattenIs ==
    ASSUME NEW n \in Nat, NEW ss, NEW T, ss \in [1 .. n -> Seq(T)]
    PROVE  FlattenSeq(ss) \in Seq(T)
<1> DEFINE Fcn(f) == [i \in 1 .. n |-> IF i = 1 THEN ss[i] ELSE f[i - 1] \o ss[i]]
           of == CHOOSE f : f = Fcn(f)
           V == Seq(T)
           step == [p \in (1 .. n) \X V |-> p[2] \o ss[p[1]]]
           Right == {0} \cup {i \in 1 .. n : of[i] \in Seq(T)}
<1>1. Len(ss) = n OBVIOUS
<1>2. step \in [(1 .. n) \X V -> V] OBVIOUS
<1>3. PICK g : Walks(g, V, <<>>, n, step)
  <2>1. <<>> \in V OBVIOUS
  <2> HIDE DEF step, V
  <2> QED BY <1>2, <2>1, Recursion
<1>4. \E f : f = Fcn(f)
  <2>1. \A i \in 1 .. n : g[i] = g[i - 1] \o ss[i]
    <3>1. \A i \in 1 .. n, x \in V : step[<<i, x>>] = x \o ss[i] OBVIOUS
    <3> HIDE DEF step, V
    <3>2. ASSUME NEW i \in 1 .. n PROVE i - 1 \in 0 .. n /\ g[i - 1] \in V
          BY <1>3 DEF Walks
    <3> QED BY <1>3, <3>1, <3>2 DEF Walks
  <2>2. g[0] = <<>> BY <1>3 DEF Walks
  <2>3. PICK h : h = [i \in 1 .. n |-> g[i]] OBVIOUS
  <2>4. ASSUME NEW i \in 1 .. n PROVE h[i] = IF i = 1 THEN ss[i] ELSE h[i - 1] \o ss[i]
    <3>1. CASE i = 1
      <4>1. i - 1 = 0 /\ ss[i] \in Seq(T) BY <3>1
      <4>2. g[i] = <<>> \o ss[i] BY <2>1, <2>2, <4>1
      <4>3. \A s \in Seq(T) : <<>> \o s = s OBVIOUS
      <4> QED BY <2>3, <3>1, <4>1, <4>2, <4>3
    <3>2. CASE i # 1
      <4>1. i - 1 \in 1 .. n BY <3>2
      <4> QED BY <2>1, <2>3, <3>2, <4>1
    <3> QED BY <3>1, <3>2
  <2>5. h = Fcn(h) BY <2>3, <2>4
  <2> HIDE DEF Fcn
  <2> QED BY <2>5
<1>5. of = Fcn(of)
  <2> HIDE DEF Fcn
  <2> QED BY <1>4
<1>6. FlattenSeq(ss) = IF n = 0 THEN ss ELSE of[n] BY <1>1 DEF FlattenSeq
<1> HIDE DEF of
<1>7. ASSUME NEW i \in 1 .. n, i - 1 \in Right PROVE i \in Right
  <2>1. of[i] = IF i = 1 THEN ss[i] ELSE of[i - 1] \o ss[i] BY <1>5
  <2>2. ss[i] \in Seq(T) OBVIOUS
  <2>3. CASE i = 1 BY <2>1, <2>2, <2>3
  <2>4. CASE i # 1
    <3>1. i - 1 # 0 /\ of[i - 1] \in Seq(T) BY <1>7, <2>4
    <3>2. \A s, u \in Seq(T) : s \o u \in Seq(T) OBVIOUS
    <3> QED BY <2>1, <2>2, <2>4, <3>1, <3>2
  <2> QED BY <2>3, <2>4
<1>8. n \in Right
  <2>1. 0 \in Right OBVIOUS
  <2> HIDE DEF Right
  <2> QED BY <1>7, <2>1, InductionUpTo
<1>9. CASE n = 0
  <2>1. ss = <<>> BY <1>9
  <2> QED BY <1>6, <1>9, <2>1
<1>10. CASE n # 0 BY <1>6, <1>8, <1>10
<1> QED BY <1>9, <1>10

\* The runs: none is empty.
RunsIn(T) == Seq(T) \ {<<>>}

LEMMA AddsToRuns ==
    ASSUME NEW T, NEW runs \in Seq(RunsIn(T)), NEW j \in T
    PROVE  AddToRuns(runs, j) \in Seq(RunsIn(T))
<1>1. CASE ~(runs # <<>> /\ SameKeys(Head(Last(runs)), j))
  <2>1. <<j>> \in RunsIn(T) BY DEF RunsIn
  <2> QED BY <1>1, <2>1 DEF AddToRuns
<1>2. CASE runs # <<>> /\ SameKeys(Head(Last(runs)), j)
  <2>1. Len(runs) \in 1 .. Len(runs) /\ Last(runs) = runs[Len(runs)] BY <1>2 DEF Last
  <2>2. PICK run : run = Last(runs) OBVIOUS
  <2>3. run \in RunsIn(T) BY <2>1, <2>2
  <2>4. run \in Seq(T) /\ run # <<>> /\ Head(run) = run[1] BY <2>3 DEF RunsIn
  <2>5. Append(run, j) \in RunsIn(T)
    <3>1. PICK w : w = Append(run, j) OBVIOUS
    <3>2. w \in Seq(T) /\ Len(w) = Len(run) + 1 /\ w # <<>> BY <2>4, <3>1
    <3> QED BY <3>1, <3>2 DEF RunsIn
  <2>6. Front(runs) \in Seq(RunsIn(T))
    <3>1. PICK R : R = RunsIn(T) OBVIOUS
    <3> QED BY <3>1 DEF Front
  <2>7. AddToRuns(runs, j) = Append(Front(runs), Append(run, j)) BY <1>2, <2>2 DEF AddToRuns
  <2> QED BY <2>5, <2>6, <2>7
<1> QED BY <1>1, <1>2

LEMMA RunsAre ==
    ASSUME NEW T, NEW joins \in Seq(T)
    PROVE  Runs(joins) \in Seq(RunsIn(T))
<1> DEFINE n == Len(joins)
           Fcn(f) == [i \in 0 .. n |-> IF i = 0 THEN <<>> ELSE AddToRuns(f[i - 1], joins[i])]
           of == CHOOSE f : f = Fcn(f)
           V == Seq(RunsIn(T))
           step == [p \in (1 .. n) \X V |-> AddToRuns(p[2], joins[p[1]])]
           Right == {i \in 0 .. n : of[i] \in V}
<1>1. n \in Nat /\ \A i \in 1 .. n : joins[i] \in T OBVIOUS
<1> HIDE DEF n
<1>2. step \in [(1 .. n) \X V -> V]
  <2> SUFFICES ASSUME NEW i \in 1 .. n, NEW v \in V PROVE AddToRuns(v, joins[i]) \in V OBVIOUS
  <2> QED BY <1>1, AddsToRuns
<1>3. <<>> \in V OBVIOUS
<1>4. PICK g : Walks(g, V, <<>>, n, step)
  <2> HIDE DEF step, V
  <2> QED BY <1>1, <1>2, <1>3, Recursion
<1>5. g = Fcn(g)
  <2>1. \A i \in 1 .. n : g[i] = AddToRuns(g[i - 1], joins[i])
    <3>1. \A i \in 1 .. n, x \in V : step[<<i, x>>] = AddToRuns(x, joins[i]) OBVIOUS
    <3> HIDE DEF step, V
    <3>2. ASSUME NEW i \in 1 .. n PROVE i - 1 \in 0 .. n /\ g[i - 1] \in V
          BY <1>1, <1>4 DEF Walks
    <3> QED BY <1>4, <3>1, <3>2 DEF Walks
  <2>2. DOMAIN g = 0 .. n /\ g = [i \in 0 .. n |-> g[i]] /\ g[0] = <<>> BY <1>4 DEF Walks
  <2> QED BY <1>1, <2>1, <2>2
<1>6. of = Fcn(of)
  <2> HIDE DEF Fcn
  <2> QED BY <1>5
<1>7. Runs(joins) = of[n] BY DEF Runs, n
<1> HIDE DEF of
<1>8. 0 \in Right
  <2>1. of[0] = <<>> BY <1>1, <1>6
  <2> HIDE DEF V
  <2> QED BY <1>1, <1>3, <2>1
<1>9. ASSUME NEW i \in 1 .. n, i - 1 \in Right PROVE i \in Right
  <2>1. of[i] = AddToRuns(of[i - 1], joins[i]) BY <1>1, <1>6
  <2>2. of[i - 1] \in V BY <1>9
  <2>3. of[i] \in V BY <1>1, <2>1, <2>2, AddsToRuns
  <2> QED BY <2>3
<1>10. n \in Right
  <2> HIDE DEF Right
  <2> QED BY <1>1, <1>8, <1>9, InductionUpTo
<1> QED BY <1>7, <1>10

-----------------------------------------------------------------------------
\* The semi-joins of a plan are a list.
LEMMA PlanFrame ==
    ASSUME NEW p, IsPlan(p)
    PROVE  /\ DOMAIN p.joins = 1 .. Len(p.joins) /\ Len(p.joins) \in Nat
           /\ \A i \in 1 .. Len(p.joins) : p.joins[i] \in Range(p.joins) /\ IsJoin(p.joins[i])
           /\ \A j \in Range(p.joins) : \E i \in 1 .. Len(p.joins) : j = p.joins[i]
<1>1. p.joins \in Seq(Range(p.joins)) BY DEF IsPlan
<1>2. PICK s : s = p.joins OBVIOUS
<1>3. DOMAIN s = 1 .. Len(s) /\ Len(s) \in Nat BY <1>1, <1>2, ListOf
<1>4. Range(s) = {s[i] : i \in 1 .. Len(s)} BY <1>3 DEF Range
<1> QED BY <1>2, <1>3, <1>4 DEF IsPlan

\* A plan made of known parts.
LEMMA PlanOf ==
    ASSUME NEW s, NEW w, NEW js, NEW o, Conditions(w), NEW T, js \in Seq(T), \A j \in Range(js) : IsJoin(j)
    PROVE  IsPlan([select |-> s, where |-> w, joins |-> js, order |-> o])
<1>1. js \in Seq(Range(js)) BY ListOf DEF IsList
<1> QED BY <1>1 DEF IsPlan

\* A plan asks for no less than another if it has no further condition and each
\* of its semi-joins holds of every row that the other one asks for.
LEMMA AsksForNoLess ==
    ASSUME NEW p, NEW q, IsPlan(p), IsPlan(q), q.where \subseteq p.where,
           \A j \in Range(q.joins) : \A r \in Matching(p) : Joined(r, j)
    PROVE  Matching(p) \subseteq Matching(q)
<1> SUFFICES ASSUME NEW r \in Matching(p) PROVE r \in Matching(q) OBVIOUS
<1>1. r \in content.main /\ AllHold(r, p.where) BY DEF Matching
<1>2. AllHold(r, q.where) BY <1>1 DEF AllHold
<1>3. ASSUME NEW i \in DOMAIN q.joins PROVE Joined(r, q.joins[i])
  <2>1. q.joins[i] \in Range(q.joins) BY DEF Range
  <2> QED BY <2>1
<1> QED BY <1>1, <1>2, <1>3 DEF Matching

LEMMA IsJoined ==
    ASSUME NEW p, IsPlan(p), NEW r \in Matching(p), NEW j \in Range(p.joins)
    PROVE  Joined(r, j)
BY PlanFrame DEF Matching

MergedOf(run) == [Head(run) EXCEPT !.where = {}, !.op = "or", !.groups = Groups(run)]
IsMerged(run) == ShouldMerge(run) /\ Groups(run) # {}

\* A run that is merged becomes a choice between its lists.
LEMMA MergedIs ==
    ASSUME NEW T, NEW run \in RunsIn(T), \A j \in T : IsJoin(j)
    PROVE  /\ run[1] \in T /\ 1 \in DOMAIN run
           /\ MergedOf(run) = [index |-> run[1].index, lk |-> run[1].lk, fk |-> run[1].fk,
                               where |-> {}, op |-> "or", groups |-> Groups(run)]
           /\ IsJoin(MergedOf(run))
<1>1. run \in Seq(T) /\ run # <<>> BY DEF RunsIn
<1>2. 1 \in DOMAIN run /\ run[1] \in T /\ Head(run) = run[1] BY <1>1
<1>3. IsJoin(run[1]) BY <1>2
<1>4. PICK j, G : j = run[1] /\ G = Groups(run) OBVIOUS
<1>5. j = [index |-> j.index, lk |-> j.lk, fk |-> j.fk, where |-> j.where, op |-> j.op, groups |-> j.groups]
      BY <1>3, <1>4 DEF IsJoin
<1>6. [j EXCEPT !.where = {}, !.op = "or", !.groups = G]
        = [index |-> j.index, lk |-> j.lk, fk |-> j.fk, where |-> {}, op |-> "or", groups |-> G]
  <2>1. PICK k : k = [j EXCEPT !.where = {}] OBVIOUS
  <2>2. k = [index |-> j.index, lk |-> j.lk, fk |-> j.fk, where |-> {}, op |-> j.op, groups |-> j.groups]
        BY <1>5, <2>1
  <2>3. PICK l : l = [k EXCEPT !.op = "or"] OBVIOUS
  <2>4. l = [index |-> j.index, lk |-> j.lk, fk |-> j.fk, where |-> {}, op |-> "or", groups |-> j.groups]
        BY <2>2, <2>3
  <2>5. [l EXCEPT !.groups = G]
          = [index |-> j.index, lk |-> j.lk, fk |-> j.fk, where |-> {}, op |-> "or", groups |-> G]
        BY <2>4
  <2> QED BY <2>1, <2>3, <2>5
<1>7. MergedOf(run) = [index |-> run[1].index, lk |-> run[1].lk, fk |-> run[1].fk,
                       where |-> {}, op |-> "or", groups |-> Groups(run)]
      BY <1>2, <1>4, <1>6 DEF MergedOf
<1>8. Conditions({}) BY FS_EmptySet DEF Conditions
<1> QED BY <1>2, <1>7, <1>8 DEF IsJoin

\* A semi-join of a merged plan is one of the plan's, or of a run that is merged.
LEMMA MergeJoins ==
    ASSUME NEW p, IsPlan(p)
    PROVE  LET T == Range(p.joins)
               M == {MergedOf(run) : run \in {r \in Range(Runs(p.joins)) : IsMerged(r)}}
           IN  /\ Merge(p) = p \/ \E js \in Seq(T \cup M) : Merge(p) = [p EXCEPT !.joins = js]
               /\ Range(Runs(p.joins)) \subseteq RunsIn(T)
<1> DEFINE T == Range(p.joins)
           M == {MergedOf(run) : run \in {r \in Range(Runs(p.joins)) : IsMerged(r)}}
<1>1. p.joins \in Seq(T) BY DEF IsPlan
<1>2. PICK runs : runs = Runs(p.joins) OBVIOUS
<1>3. runs \in Seq(RunsIn(T)) BY <1>1, <1>2, RunsAre
<1>4. Range(runs) \subseteq RunsIn(T) /\ DOMAIN runs = 1 .. Len(runs) /\ Len(runs) \in Nat BY <1>3, ListOf
<1>5. PICK ss : ss = [i \in DOMAIN runs |-> MergeRun(runs[i])] OBVIOUS
<1>6. ASSUME NEW i \in 1 .. Len(runs) PROVE MergeRun(runs[i]) \in Seq(T \cup M)
  <2>1. PICK run : run = runs[i] OBVIOUS
  <2>2. run \in Range(runs) /\ run \in Seq(T) BY <1>3, <1>4, <2>1 DEF RunsIn, Range
  <2>3. CASE IsMerged(run)
    <3>1. MergedOf(run) \in M BY <1>2, <2>2, <2>3
    <3>2. MergeRun(run) = <<MergedOf(run)>> BY <2>3 DEF MergeRun, IsMerged, MergedOf
    <3> QED BY <2>1, <3>1, <3>2
  <2>4. CASE ~IsMerged(run)
    <3>1. MergeRun(run) = run BY <2>4 DEF MergeRun, IsMerged
    <3> HIDE DEF M, T
    <3> QED BY <2>1, <2>2, <3>1
  <2> QED BY <2>3, <2>4
<1>7. ss \in [1 .. Len(runs) -> Seq(T \cup M)] BY <1>4, <1>5, <1>6
<1>8. FlattenSeq(ss) \in Seq(T \cup M) BY <1>4, <1>7, FlattenIs
<1>9. Merge(p) = p \/ Merge(p) = [p EXCEPT !.joins = FlattenSeq(ss)] BY <1>2, <1>5 DEF Merge
<1> QED BY <1>2, <1>4, <1>8, <1>9

LEMMA MergeIs ==
    ASSUME NEW p, IsPlan(p)
    PROVE  /\ IsPlan(Merge(p))
           /\ ~HidesConditions(p) => ~HidesConditions(Merge(p))
           /\ ThreeAtMost(p) => ThreeAtMost(Merge(p))
           /\ ~ChoiceIsMerged(p) => Matching(p) \subseteq Matching(Merge(p))
<1> DEFINE T == Range(p.joins)
           M == {MergedOf(run) : run \in {r \in Range(Runs(p.joins)) : IsMerged(r)}}
<1>1. CASE Merge(p) = p BY <1>1
<1>2. CASE Merge(p) # p
  <2>1. PICK js \in Seq(T \cup M) : Merge(p) = [p EXCEPT !.joins = js] BY <1>2, MergeJoins
  <2>2. p = [select |-> p.select, where |-> p.where, joins |-> p.joins, order |-> p.order] BY DEF IsPlan
  <2>3. PICK q : q = Merge(p) OBVIOUS
  <2>4. q = [select |-> p.select, where |-> p.where, joins |-> js, order |-> p.order]
        BY <2>1, <2>2, <2>3
  <2>5. Range(js) \subseteq T \cup M BY ListOf
  <2>6. \A j \in T : IsJoin(j) BY DEF IsPlan
  <2>7. Range(Runs(p.joins)) \subseteq RunsIn(T) BY MergeJoins
  <2>8. ASSUME NEW j \in Range(js), j \notin T
        PROVE  \E run \in RunsIn(T) : run \in Range(Runs(p.joins)) /\ IsMerged(run) /\ j = MergedOf(run)
        BY <2>5, <2>7, <2>8
  <2>9. \A j \in Range(js) : IsJoin(j) /\ (j \in T \/ j.where = {}) BY <2>6, <2>8, MergedIs
  <2>10. IsPlan(q) BY <2>4, <2>9, PlanOf DEF IsPlan
  <2>11. ~HidesConditions(p) => ~HidesConditions(q) BY <2>4, <2>9 DEF HidesConditions
  <2>12. ThreeAtMost(p) => ThreeAtMost(q)
    <3>1. Cardinality(Contradictory({})) = 0
      <4>1. Contradictory({}) = {} BY DEF Contradictory
      <4> QED BY <4>1, FS_EmptySet
    <3>2. SUFFICES ASSUME ThreeAtMost(p), NEW j \in Range(js) PROVE Cardinality(Contradictory(j.where)) <= 3
          BY <2>4 DEF ThreeAtMost
    <3>3. CASE j \in T BY <3>2, <3>3 DEF ThreeAtMost
    <3>4. CASE j.where = {} BY <3>1, <3>4
    <3> QED BY <2>9, <3>3, <3>4
  <2>13. ASSUME ~ChoiceIsMerged(p) PROVE Matching(p) \subseteq Matching(q)
    <3>1. ASSUME NEW j \in Range(js), NEW r \in Matching(p) PROVE Joined(r, j)
      <4>1. CASE j \in T BY <4>1, IsJoined
      <4>2. CASE j \notin T
        <5>1. PICK run \in RunsIn(T) : run \in Range(Runs(p.joins)) /\ IsMerged(run) /\ j = MergedOf(run)
              BY <2>8, <4>2
        <5>2. /\ run[1] \in T /\ 1 \in DOMAIN run
              /\ j = [index |-> run[1].index, lk |-> run[1].lk, fk |-> run[1].fk,
                      where |-> {}, op |-> "or", groups |-> Groups(run)]
              BY <2>6, <5>1, MergedIs
        <5>3. run[1].op # "or" /\ run[1].groups = {} BY <2>13, <5>1, <5>2 DEF ChoiceIsMerged, IsMerged
        <5>4. run[1].where # {} /\ run[1].where \in Groups(run)
              BY <5>1, <5>2, <5>3 DEF IsMerged, ShouldMerge, JoinPreds, Groups
        <5>5. Joined(r, run[1]) BY <5>2, IsJoined
        <5>6. PICK s \in RowsOf(run[1].index) :
                run[1].fk \in DOMAIN s /\ Passes(s, run[1]) /\ r[run[1].lk] = s[run[1].fk]
              BY <5>5 DEF Joined, KeysOf
        <5>7. AllHold(s, run[1].where) BY <5>3, <5>6 DEF Passes
        <5>8. Passes(s, j) BY <5>2, <5>4, <5>7 DEF Passes, Alternatives
        <5> QED BY <5>2, <5>5, <5>6, <5>8 DEF Joined, KeysOf
      <4> QED BY <4>1, <4>2
    <3> QED BY <2>4, <2>10, <3>1, AsksForNoLess
  <2> QED BY <2>3, <2>10, <2>11, <2>12, <2>13
<1> QED BY <1>1, <1>2

-----------------------------------------------------------------------------
LEMMA EqIsFinite ==
    ASSUME NEW ps, Conditions(ps)
    PROVE  /\ \A f : IsFiniteSet(EqValues(ps, f)) /\ Cardinality(EqValues(ps, f)) \in Nat
           /\ IsFiniteSet(Contradictory(ps)) /\ Cardinality(Contradictory(ps)) \in Nat
<1>1. IsFiniteSet(ps) BY DEF Conditions
<1>2. ASSUME NEW f PROVE IsFiniteSet(EqValues(ps, f))
  <2>1. PICK qs : qs = {q \in ps : q.field = f /\ q.op = "="} OBVIOUS
  <2>2. IsFiniteSet(qs) BY <1>1, <2>1, FS_Subset
  <2>3. EqValues(ps, f) = {q.vals : q \in qs} BY <2>1 DEF EqValues
  <2>4. PICK V : V = {q.vals : q \in qs} OBVIOUS
  <2>5. [q \in qs |-> q.vals] \in [qs -> V] BY <2>4
  <2>6. \A v \in V : \E q \in qs : [x \in qs |-> x.vals][q] = v BY <2>4
  <2>7. IsFiniteSet(V) BY <2>2, <2>5, <2>6, ImageIsFinite
  <2> QED BY <2>3, <2>4, <2>7
<1>3. IsFiniteSet(Contradictory(ps))
  <2>1. PICK F : F = {q.field : q \in ps} OBVIOUS
  <2>2. [q \in ps |-> q.field] \in [ps -> F] BY <2>1
  <2>3. \A f \in F : \E q \in ps : [x \in ps |-> x.field][q] = f BY <2>1
  <2>4. IsFiniteSet(F) BY <1>1, <2>2, <2>3, ImageIsFinite
  <2>5. Contradictory(ps) \in SUBSET F BY <2>1 DEF Contradictory
  <2> QED BY <2>4, <2>5, FS_Subset
<1> QED BY <1>2, <1>3, FS_CardinalityType

\* Nothing is asked for two values of one field.
LEMMA NoneContradicts ==
    ASSUME NEW ps, Conditions(ps), NEW f, f \in Contradictory(ps), NEW row
    PROVE  ~AllHold(row, ps)
<1> SUFFICES ASSUME AllHold(row, ps) PROVE FALSE OBVIOUS
<1>1. PICK V : V = EqValues(ps, f) OBVIOUS
<1>2. IsFiniteSet(V) /\ Cardinality(V) > 1 BY <1>1, EqIsFinite DEF Contradictory
<1>3. V # {} BY <1>2, FS_EmptySet
<1>4. PICK a : a \in V BY <1>3
<1>5. V # {a} BY <1>2, FS_Singleton
<1>6. PICK b : b \in V /\ b # a BY <1>4, <1>5
<1>7. PICK p \in ps : p.field = f /\ p.op = "=" /\ p.vals = a BY <1>1, <1>4 DEF EqValues
<1>8. PICK q \in ps : q.field = f /\ q.op = "=" /\ q.vals = b BY <1>1, <1>6 DEF EqValues
<1>9. row[f] \in a /\ row[f] \in b BY <1>7, <1>8 DEF AllHold, Holds
<1>10. (\E v \in a : a = {v}) /\ (\E v \in b : b = {v}) BY <1>7, <1>8 DEF Conditions
<1> QED BY <1>6, <1>9, <1>10

\* One value of a field instead of several.
LEMMA OneValueLeft ==
    ASSUME NEW ps, Conditions(ps), NEW f, NEW v \in EqValues(ps, f), NEW w,
           w = WithoutEq(ps, f) \cup {Eq(f, v)}
    PROVE  Conditions(w) /\ Contradictory(w) \subseteq Contradictory(ps) \ {f}
<1>1. PICK q \in ps : q.field = f /\ q.op = "=" /\ q.vals = v BY DEF EqValues
<1>2. Eq(f, v).field = f /\ Eq(f, v).op = "=" /\ Eq(f, v).vals = v BY DEF Eq
<1>3. WithoutEq(ps, f) \subseteq ps /\ \A p \in WithoutEq(ps, f) : ~(p.field = f /\ p.op = "=")
      BY DEF WithoutEq
<1>4. Conditions(w)
  <2>1. IsFiniteSet(WithoutEq(ps, f)) BY <1>3, FS_Subset DEF Conditions
  <2>2. IsFiniteSet(w) BY <2>1, FS_AddElement
  <2> QED BY <1>1, <1>2, <1>3, <2>2 DEF Conditions
<1>5. ASSUME NEW g, g # f PROVE EqValues(w, g) = EqValues(ps, g)
  <2>1. \A p : p.field = g => (p \in w <=> p \in ps) BY <1>2, <1>5 DEF WithoutEq
  <2> QED BY <2>1 DEF EqValues
<1>6. EqValues(w, f) \subseteq {v} BY <1>2, <1>3 DEF EqValues
<1>7. Cardinality(EqValues(w, f)) <= 1
  <2>1. IsFiniteSet({v}) /\ Cardinality({v}) = 1 BY FS_Singleton
  <2>2. EqValues(w, f) \in SUBSET {v} BY <1>6
  <2> QED BY <2>1, <2>2, FS_Subset
<1>8. {p.field : p \in w} \subseteq {p.field : p \in ps}
  <2>1. \A p \in w : p.field \in {x.field : x \in ps} BY <1>1, <1>2, <1>3
  <2> QED BY <2>1
<1>9. ASSUME NEW g \in Contradictory(w) PROVE g \in Contradictory(ps) \ {f}
  <2>1. g \in {p.field : p \in w} /\ Cardinality(EqValues(w, g)) > 1 BY DEF Contradictory
  <2>2. g # f
    <3>1. Cardinality(EqValues(w, f)) \in Nat BY <1>4, EqIsFinite
    <3> QED BY <1>7, <2>1, <3>1
  <2> QED BY <1>5, <1>8, <2>1, <2>2 DEF Contradictory
<1> QED BY <1>4, <1>9

LEMMA OneConditionIs ==
    ASSUME NEW f, NEW x, NEW v, v = {x}
    PROVE  Conditions({Eq(f, v)}) /\ Contradictory({Eq(f, v)}) = {}
<1>1. Eq(f, v).vals = v BY DEF Eq
<1>2. Conditions({Eq(f, v)})
  <2>1. IsFiniteSet({Eq(f, v)}) BY FS_Singleton
  <2> QED BY <1>1, <2>1 DEF Conditions
<1>3. ASSUME NEW g PROVE Cardinality(EqValues({Eq(f, v)}, g)) <= 1 /\ Cardinality(EqValues({Eq(f, v)}, g)) \in Nat
  <2>1. IsFiniteSet({v}) /\ Cardinality({v}) = 1 BY FS_Singleton
  <2>2. EqValues({Eq(f, v)}, g) \in SUBSET {v} BY <1>1 DEF EqValues
  <2>3. PICK V : V = EqValues({Eq(f, v)}, g) OBVIOUS
  <2>4. Cardinality(V) <= 1
    <3>1. PICK D : D = {v} OBVIOUS
    <3>2. V \in SUBSET D /\ IsFiniteSet(D) /\ Cardinality(D) = 1 BY <2>1, <2>2, <2>3, <3>1
    <3>3. Cardinality(V) <= Cardinality(D) BY <3>2, FS_Subset
    <3> QED BY <3>2, <3>3
  <2>5. PICK w : w = {Eq(f, v)} OBVIOUS
  <2>6. Cardinality(EqValues(w, g)) \in Nat BY <1>2, <2>5, EqIsFinite
  <2> QED BY <2>3, <2>4, <2>5, <2>6
<1> QED BY <1>2, <1>3 DEF Contradictory

\* What a round of rewriting leaves to do in a semi-join.
Few(j, n) == j.op = "or" \/ j.groups # {} \/ Cardinality(Contradictory(j.where)) <= n
FewIn(p, n) == \A j \in Range(p.joins) : Few(j, n)

\* A semi-join is kept, or asks for nothing and is split.
LEMMA SplitJoinIs ==
    ASSUME NEW j, IsJoin(j)
    PROVE  /\ IsList(SplitJoin(j))
           /\ \A x \in Range(SplitJoin(j)) :
                 /\ IsJoin(x) /\ (x = j \/ x.groups = {})
                 /\ \A n \in Nat : Few(j, n + 1) => Few(x, n)
                 /\ x = j \/ \A r : ~Joined(r, j)
<1>0. Conditions(j.where) BY DEF IsJoin
<1>1. CASE j.op = "or" \/ j.groups # {} \/ Contradictory(j.where) = {}
  <2>1. SplitJoin(j) = <<j>> BY <1>1 DEF SplitJoin
  <2>2. <<j>> \in Seq({j}) OBVIOUS
  <2>3. IsList(SplitJoin(j)) /\ Range(SplitJoin(j)) \subseteq {j} BY <2>1, <2>2, ListOf
  <2>4. ASSUME NEW n \in Nat PROVE Few(j, n)
    <3>1. Cardinality({}) = 0 BY FS_EmptySet
    <3> QED BY <1>1, <3>1 DEF Few
  <2> QED BY <2>3, <2>4
<1>2. CASE ~(j.op = "or" \/ j.groups # {} \/ Contradictory(j.where) = {})
  <2>1. SplitJoin(j) = Split(j) BY <1>2 DEF SplitJoin
  <2>2. PICK f : f = CHOOSE g \in Contradictory(j.where) : TRUE OBVIOUS
  <2>3. f \in Contradictory(j.where) BY <1>2, <2>2
  <2>4. PICK V : V = EqValues(j.where, f) OBVIOUS
  <2>5. IsFiniteSet(V) BY <1>0, <2>4, EqIsFinite
  <2>6. PICK vs : vs = SetToSeq(V) OBVIOUS
  <2>7. Cardinality(V) \in Nat /\ vs \in [1 .. Cardinality(V) -> V] BY <2>5, <2>6, SetToSeqType
  <2> DEFINE Left(v) == WithoutEq(j.where, f) \cup {Eq(f, v)}
             With(w) == [j EXCEPT !.where = w]
             T == {With(Left(v)) : v \in V}
  <2>8. PICK s : s = [i \in DOMAIN vs |-> With(Left(vs[i]))] OBVIOUS
  <2>9. Split(j) = s BY <2>2, <2>4, <2>6, <2>8 DEF Split
  <2>10. s \in [1 .. Cardinality(V) -> T] BY <2>7, <2>8
  <2>11. s \in Seq(T)
    <3> HIDE DEF T
    <3> QED BY <2>7, <2>10
  <2>12. IsList(s) /\ Range(s) \subseteq T BY <2>11, ListOf
  <2>13. ASSUME NEW r PROVE ~Joined(r, j)
    <3>1. ASSUME NEW row PROVE ~Passes(row, j)
      <4>1. ~AllHold(row, j.where) BY <1>0, <2>3, NoneContradicts
      <4> QED BY <1>2, <4>1 DEF Passes
    <3> QED BY <3>1 DEF Joined, KeysOf
  <2>14. ASSUME NEW x \in T
         PROVE  IsJoin(x) /\ x.groups = {} /\ \A n \in Nat : Few(j, n + 1) => Few(x, n)
    <3>1. PICK v \in V : x = With(Left(v)) OBVIOUS
    <3>2. PICK w : w = Left(v) OBVIOUS
    <3>3. Conditions(w) /\ Contradictory(w) \subseteq Contradictory(j.where) \ {f}
          BY <1>0, <2>4, <3>2, OneValueLeft
    <3>4. x = [index |-> j.index, lk |-> j.lk, fk |-> j.fk, where |-> w, op |-> j.op, groups |-> j.groups]
      <4>1. j = [index |-> j.index, lk |-> j.lk, fk |-> j.fk, where |-> j.where, op |-> j.op, groups |-> j.groups]
            BY DEF IsJoin
      <4>2. x = [j EXCEPT !.where = w] BY <3>1, <3>2
      <4> QED BY <4>1, <4>2
    <3>5. IsJoin(x) BY <3>3, <3>4 DEF IsJoin
    <3>6. Cardinality(Contradictory(w)) <= Cardinality(Contradictory(j.where)) - 1
      <4>1. PICK C : C = Contradictory(j.where) OBVIOUS
      <4>2. IsFiniteSet(C) /\ Cardinality(C) \in Nat BY <1>0, <4>1, EqIsFinite
      <4>3. IsFiniteSet(C \ {f}) /\ Cardinality(C \ {f}) = Cardinality(C) - 1
            BY <2>3, <4>1, <4>2, FS_RemoveElement
      <4>4. Contradictory(w) \in SUBSET (C \ {f}) BY <3>3, <4>1
      <4> QED BY <4>1, <4>3, <4>4, FS_Subset
    <3>7. ASSUME NEW n \in Nat, Few(j, n + 1) PROVE Few(x, n)
      <4>1. Cardinality(Contradictory(j.where)) <= n + 1 BY <1>2, <3>7 DEF Few
      <4>2. Cardinality(Contradictory(w)) \in Nat /\ Cardinality(Contradictory(j.where)) \in Nat
            BY <1>0, <3>3, EqIsFinite
      <4>3. Cardinality(Contradictory(w)) <= n BY <3>6, <4>1, <4>2
      <4> QED BY <3>4, <4>3 DEF Few
    <3> QED BY <1>2, <3>4, <3>5, <3>7
  <2> HIDE DEF T
  <2> QED BY <2>1, <2>9, <2>12, <2>13, <2>14
<1> QED BY <1>1, <1>2

SelfJoinsOf(p) ==
    UNION {{SelfJoin(p, f, v) : v \in EqValues(p.where, f) \ {Kept(p.where, f)}} : f \in Contradictory(p.where)}

\* The conditions that stay on the main index, and the joins with itself.
LEMMA SelfJoinsAre ==
    ASSUME NEW p, IsPlan(p)
    PROVE  /\ SelfJoins(p).where \subseteq p.where /\ Conditions(SelfJoins(p).where)
           /\ Contradictory(SelfJoins(p).where) = {}
           /\ SelfJoins(p).joins \in Seq(SelfJoinsOf(p))
           /\ \A x \in SelfJoinsOf(p) : IsJoin(x) /\ x.groups = {} /\ \A n \in Nat : Few(x, n)
           /\ SelfJoinsOf(p) = {} \/ Matching(p) = {}
<1> DEFINE bad == Contradictory(p.where)
           W == {q \in p.where : q.field \in bad /\ q.op = "=" => q.vals = Kept(p.where, q.field)}
           U == SelfJoinsOf(p)
<1>0. Conditions(p.where) BY DEF IsPlan
<1>1. SelfJoins(p).where = W /\ SelfJoins(p).joins = SetToSeq(U) BY DEF SelfJoins, SelfJoinsOf
<1>2. Conditions(W)
  <2>1. IsFiniteSet(W) BY <1>0, FS_Subset DEF Conditions
  <2> QED BY <1>0, <2>1 DEF Conditions
<1>3. ASSUME NEW f PROVE f \notin Contradictory(W)
  <2> SUFFICES ASSUME f \in Contradictory(W) PROVE FALSE OBVIOUS
  <2>1. f \in {q.field : q \in W} /\ Cardinality(EqValues(W, f)) > 1 BY DEF Contradictory
  <2>2. Cardinality(EqValues(W, f)) \in Nat /\ Cardinality(EqValues(p.where, f)) \in Nat
        BY <1>0, <1>2, EqIsFinite
  <2>3. CASE f \in bad
    <3>1. EqValues(W, f) \in SUBSET {Kept(p.where, f)} BY <2>3 DEF EqValues
    <3>2. IsFiniteSet({Kept(p.where, f)}) /\ Cardinality({Kept(p.where, f)}) = 1 BY FS_Singleton
    <3>3. Cardinality(EqValues(W, f)) <= 1 BY <3>1, <3>2, FS_Subset
    <3> QED BY <2>1, <2>2, <3>3
  <2>4. CASE f \notin bad
    <3>1. EqValues(W, f) \in SUBSET EqValues(p.where, f) BY DEF EqValues
    <3>2. IsFiniteSet(EqValues(p.where, f)) BY <1>0, EqIsFinite
    <3>3. Cardinality(EqValues(W, f)) <= Cardinality(EqValues(p.where, f)) BY <3>1, <3>2, FS_Subset
    <3>4. f \in {q.field : q \in p.where} BY <2>1
    <3>5. ~(Cardinality(EqValues(p.where, f)) > 1) BY <2>4, <3>4 DEF Contradictory
    <3> QED BY <2>1, <2>2, <3>3, <3>5
  <2> QED BY <2>3, <2>4
<1>4. ASSUME NEW x \in U PROVE \E q \in p.where : q.op = "=" /\ x = SelfJoin(p, q.field, q.vals)
  <2>1. PICK f \in bad : \E v \in EqValues(p.where, f) : x = SelfJoin(p, f, v) BY DEF SelfJoinsOf
  <2>3. PICK v \in EqValues(p.where, f) : x = SelfJoin(p, f, v) BY <2>1
  <2>2. PICK q \in p.where : q.field = f /\ q.op = "=" /\ q.vals = v BY DEF EqValues
  <2> QED BY <2>2, <2>3
<1>5. IsFiniteSet(U)
  <2>1. PICK I : I = {SelfJoin(p, q.field, q.vals) : q \in p.where} OBVIOUS
  <2>2. PICK m : m = [q \in p.where |-> SelfJoin(p, q.field, q.vals)] OBVIOUS
  <2>3. m \in [p.where -> I] /\ \A x \in I : \E q \in p.where : m[q] = x BY <2>1, <2>2
  <2>4. IsFiniteSet(p.where) BY <1>0 DEF Conditions
  <2>6. IsFiniteSet(I) BY <2>3, <2>4, ImageIsFinite
  <2>5. U \in SUBSET I BY <1>4, <2>1
  <2> QED BY <2>5, <2>6, FS_Subset
<1>6. SetToSeq(U) \in Seq(U)
  <2>1. PICK S : S = U OBVIOUS
  <2>2. Cardinality(S) \in Nat /\ SetToSeq(S) \in [1 .. Cardinality(S) -> S] BY <1>5, <2>1, SetToSeqType
  <2>3. SetToSeq(S) \in Seq(S) BY <2>2
  <2> QED BY <2>1, <2>3
<1>7. ASSUME NEW x \in U PROVE IsJoin(x) /\ x.groups = {} /\ \A n \in Nat : Few(x, n)
  <2>1. PICK q \in p.where : q.op = "=" /\ x = SelfJoin(p, q.field, q.vals) BY <1>4
  <2>2. PICK v \in q.vals : q.vals = {v} BY <1>0, <2>1 DEF Conditions
  <2>3. Conditions({Eq(q.field, q.vals)}) /\ Contradictory({Eq(q.field, q.vals)}) = {}
        BY <2>2, OneConditionIs
  <2>4. PICK k, w : k = JoinKey(p) /\ w = {Eq(q.field, q.vals)} OBVIOUS
  <2>5. x = [index |-> "main", lk |-> k, fk |-> k, where |-> w, op |-> "and", groups |-> {}]
        BY <2>1, <2>4 DEF SelfJoin
  <2>6. IsJoin(x) BY <2>3, <2>4, <2>5 DEF IsJoin
  <2>7. Cardinality({}) = 0 BY FS_EmptySet
  <2> QED BY <2>3, <2>4, <2>5, <2>6, <2>7 DEF Few
<1>8. U = {} \/ Matching(p) = {}
  <2>1. CASE bad = {} BY <2>1 DEF SelfJoinsOf
  <2>2. CASE bad # {}
    <3>1. PICK f : f \in bad BY <2>2
    <3>2. \A row : ~AllHold(row, p.where) BY <1>0, <3>1, NoneContradicts
    <3> QED BY <3>2 DEF Matching
  <2> QED BY <2>1, <2>2
<1>9. Contradictory(W) = {} BY <1>3
<1> HIDE DEF W, U
<1>10. W \subseteq p.where BY DEF W
<1> QED BY <1>1, <1>2, <1>6, <1>7, <1>8, <1>9, <1>10 DEF U

LEMMA RewriteIs ==
    ASSUME NEW p, IsPlan(p)
    PROVE  /\ IsPlan(Rewrite(p))
           /\ Contradictory(Rewrite(p).where) = {}
           /\ ~HidesConditions(p) => ~HidesConditions(Rewrite(p))
           /\ \A n \in Nat : FewIn(p, n + 1) => FewIn(Rewrite(p), n)
           /\ Matching(p) \subseteq Matching(Rewrite(p))
<1>1. PICK n \in Nat : n = Len(p.joins) BY PlanFrame
<1>2. PICK js : js = p.joins OBVIOUS
<1>3. DOMAIN js = 1 .. n /\ \A i \in 1 .. n : js[i] \in Range(js) /\ IsJoin(js[i])
      BY <1>1, <1>2, PlanFrame
<1>4. PICK ss : ss = [i \in DOMAIN js |-> SplitJoin(js[i])] OBVIOUS
<1> DEFINE T == UNION {Range(ss[i]) : i \in 1 .. n}
           U == SelfJoinsOf(p)
<1>5. ASSUME NEW i \in 1 .. n PROVE ss[i] \in Seq(T)
  <2>1. PICK s : s = ss[i] OBVIOUS
  <2>2. s \in Seq(Range(s)) BY <1>3, <1>4, <2>1, SplitJoinIs DEF IsList
  <2>3. Range(s) \subseteq T BY <2>1
  <2> HIDE DEF T
  <2>4. s \in Seq(T) BY <2>2, <2>3
  <2> QED BY <2>1, <2>4
<1>6. \A x \in T : \E i \in 1 .. n : x \in Range(SplitJoin(js[i])) BY <1>3, <1>4
<1>7. ss \in [1 .. n -> Seq(T)]
  <2> HIDE DEF T
  <2> QED BY <1>3, <1>4, <1>5
<1>8. FlattenSeq(ss) \in Seq(T)
  <2> HIDE DEF T
  <2> QED BY <1>7, FlattenIs
<1>9. PICK self : self = SelfJoins(p) OBVIOUS
<1>10. self.joins \in Seq(U) /\ Conditions(self.where) /\ Contradictory(self.where) = {}
       /\ self.where \subseteq p.where
       BY <1>9, SelfJoinsAre
<1>11. PICK new : new = FlattenSeq(ss) \o self.joins OBVIOUS
<1>12. new \in Seq(T \cup U)
  <2> HIDE DEF T, U
  <2>1. PICK a, b : a = FlattenSeq(ss) /\ b = self.joins OBVIOUS
  <2>2. a \in Seq(T \cup U) /\ b \in Seq(T \cup U) BY <1>8, <1>10, <2>1
  <2> QED BY <1>11, <2>1, <2>2
<1>13. PICK q : q = Rewrite(p) OBVIOUS
<1>14. q = [select |-> p.select, where |-> self.where, joins |-> new, order |-> p.order]
  <2>1. p = [select |-> p.select, where |-> p.where, joins |-> p.joins, order |-> p.order] BY DEF IsPlan
  <2>2. q = [p EXCEPT !.where = self.where, !.joins = new] BY <1>2, <1>4, <1>9, <1>11, <1>13 DEF Rewrite
  <2> QED BY <2>1, <2>2
<1>15. Range(new) \subseteq T \cup U
  <2> HIDE DEF T, U
  <2> QED BY <1>12, ListOf
<1>16. ASSUME NEW x \in Range(new)
       PROVE  \/ \E j \in Range(js) : /\ IsJoin(j) /\ IsJoin(x) /\ (x = j \/ x.groups = {})
                                      /\ \A k \in Nat : Few(j, k + 1) => Few(x, k)
                                      /\ x = j \/ \A r : ~Joined(r, j)
              \/ /\ x \in U /\ IsJoin(x) /\ x.groups = {} /\ (\A k \in Nat : Few(x, k))
                 /\ Matching(p) = {}
  <2>1. CASE x \in U BY <2>1, SelfJoinsAre
  <2>2. CASE x \in T
    <3>1. PICK i \in 1 .. n : x \in Range(SplitJoin(js[i])) BY <1>6, <2>2
    <3> QED BY <1>3, <3>1, SplitJoinIs
  <2> QED BY <1>15, <2>1, <2>2
<1> HIDE DEF T, U
<1>17. IsPlan(q)
  <2>1. \A x \in Range(new) : IsJoin(x) BY <1>16
  <2> QED BY <1>10, <1>12, <1>14, <2>1, PlanOf
<1>18. ~HidesConditions(p) => ~HidesConditions(q) BY <1>2, <1>14, <1>16 DEF HidesConditions
<1>19. \A k \in Nat : FewIn(p, k + 1) => FewIn(q, k) BY <1>2, <1>14, <1>16 DEF FewIn
<1>20. Matching(p) \subseteq Matching(q)
  <2>1. ASSUME NEW x \in Range(new), NEW r \in Matching(p) PROVE Joined(r, x)
    <3>1. \A j \in Range(js) : Joined(r, j) BY <1>2, IsJoined
    <3> QED BY <1>16, <2>1, <3>1
  <2> QED BY <1>10, <1>14, <1>17, <2>1, AsksForNoLess
<1> QED BY <1>10, <1>13, <1>14, <1>17, <1>18, <1>19, <1>20

LEMMA RewrittenIs ==
    ASSUME NEW p, IsPlan(p)
    PROVE  /\ IsPlan(Rewritten(p))
           /\ Contradictory(Rewritten(p).where) = {}
           /\ ~HidesConditions(p) => ~HidesConditions(Rewritten(p))
           /\ ThreeAtMost(p) => FewIn(Rewritten(p), 0)
           /\ Matching(p) \subseteq Matching(Rewritten(p))
<1>1. PICK a : a = Rewrite(p) OBVIOUS
<1>2. PICK b : b = Rewrite(a) OBVIOUS
<1>3. PICK c : c = Rewrite(b) OBVIOUS
<1>4. Rewritten(p) = c BY <1>1, <1>2, <1>3 DEF Rewritten
<1>5. IsPlan(a) /\ (~HidesConditions(p) => ~HidesConditions(a)) /\ Matching(p) \subseteq Matching(a)
      /\ \A n \in Nat : FewIn(p, n + 1) => FewIn(a, n)
      BY <1>1, RewriteIs
<1>6. IsPlan(b) /\ (~HidesConditions(a) => ~HidesConditions(b)) /\ Matching(a) \subseteq Matching(b)
      /\ \A n \in Nat : FewIn(a, n + 1) => FewIn(b, n)
      BY <1>2, <1>5, RewriteIs
<1>7. IsPlan(c) /\ (~HidesConditions(b) => ~HidesConditions(c)) /\ Matching(b) \subseteq Matching(c)
      /\ Contradictory(c.where) = {} /\ \A n \in Nat : FewIn(b, n + 1) => FewIn(c, n)
      BY <1>3, <1>6, RewriteIs
<1>8. ThreeAtMost(p) => FewIn(p, 3) BY DEF ThreeAtMost, FewIn, Few
<1>9. FewIn(p, 3) => FewIn(c, 0)
  <2>1. 2 + 1 = 3 /\ 1 + 1 = 2 /\ 0 + 1 = 1 OBVIOUS
  <2> QED BY <1>5, <1>6, <1>7, <2>1
<1> QED BY <1>4, <1>5, <1>6, <1>7, <1>8, <1>9

-----------------------------------------------------------------------------
\* The rows of the two indexes have their fields and no others.
ContentFits == content \in Contents

LEMMA RowsFit ==
    ASSUME ContentFits, NEW index
    PROVE  IsFiniteSet(RowsOf(index)) /\ \A s \in RowsOf(index) : DOMAIN s = FieldsOf(index)
BY QueryPlanAssumption DEF ContentFits, RowsOf, FieldsOf

LEMMA MainFits ==
    ASSUME ContentFits
    PROVE  IsFiniteSet(content.main) /\ \A r \in content.main : DOMAIN r = MainFields
BY QueryPlanAssumption DEF ContentFits

\* The semi-joins of a plan are changed one by one.
LEMMA EachJoin ==
    ASSUME NEW p, IsPlan(p), NEW s, NEW o, NEW w, Conditions(w), w \subseteq p.where,
           NEW js, js = [i \in DOMAIN p.joins |-> js[i]],
           \A i \in DOMAIN p.joins : IsJoin(js[i])
    PROVE  LET q == [select |-> s, where |-> w, joins |-> js, order |-> o] IN
           /\ IsPlan(q) /\ DOMAIN js = DOMAIN p.joins
           /\ \A x \in Range(js) : \E i \in DOMAIN p.joins : x = js[i] /\ p.joins[i] \in Range(p.joins)
           /\ (\A i \in DOMAIN p.joins, r \in content.main : Joined(r, p.joins[i]) => Joined(r, js[i]))
                => Matching(p) \subseteq Matching(q)
<1>1. PICK n \in Nat : n = Len(p.joins) /\ DOMAIN p.joins = 1 .. n BY PlanFrame
<1>2. DOMAIN js = 1 .. n BY <1>1
<1>3. Range(js) = {js[i] : i \in 1 .. n} BY <1>2 DEF Range
<1>4. js \in [1 .. n -> Range(js)] BY <1>1, <1>3
<1>5. js \in Seq(Range(js))
  <2>1. PICK T : T = Range(js) OBVIOUS
  <2> QED BY <1>4, <2>1
<1>6. PICK q : q = [select |-> s, where |-> w, joins |-> js, order |-> o] OBVIOUS
<1>7. \A x \in Range(js) : IsJoin(x) BY <1>1, <1>3
<1>8. IsPlan(q) BY <1>5, <1>6, <1>7, PlanOf
<1>9. \A i \in 1 .. n : p.joins[i] \in Range(p.joins) BY <1>1 DEF Range
<1>10. ASSUME \A i \in DOMAIN p.joins, r \in content.main : Joined(r, p.joins[i]) => Joined(r, js[i])
       PROVE  Matching(p) \subseteq Matching(q)
  <2>1. ASSUME NEW x \in Range(js), NEW r \in Matching(p) PROVE Joined(r, x)
    <3>1. PICK i \in 1 .. n : x = js[i] BY <1>3
    <3>2. Joined(r, p.joins[i]) BY <1>9, IsJoined
    <3>3. r \in content.main BY DEF Matching
    <3> QED BY <1>1, <1>10, <3>1, <3>2, <3>3
  <2> QED BY <1>6, <1>8, <2>1, AsksForNoLess
<1> QED BY <1>1, <1>2, <1>3, <1>6, <1>8, <1>9, <1>10

LEMMA FixedIs ==
    ASSUME ContentFits, NEW j, IsJoin(j), NEW key
    PROVE  /\ IsJoin(Fixed(j, key))
           /\ Fixed(j, key).where = j.where /\ Fixed(j, key).op = j.op /\ Fixed(j, key).groups = j.groups
           /\ \A r \in content.main : Joined(r, j) => Joined(r, Fixed(j, key))
<1>1. PICK x : x = Fixed(j, key) OBVIOUS
<1>2. CASE ~(j.index = "main" /\ j.lk \notin MainFields)
  <2>1. x = j BY <1>1, <1>2 DEF Fixed
  <2> QED BY <1>1, <2>1
<1>3. CASE j.index = "main" /\ j.lk \notin MainFields
  <2>1. j = [index |-> j.index, lk |-> j.lk, fk |-> j.fk, where |-> j.where, op |-> j.op, groups |-> j.groups]
        BY DEF IsJoin
  <2>2. PICK y : y = [j EXCEPT !.lk = key] OBVIOUS
  <2>3. y = [index |-> j.index, lk |-> key, fk |-> j.fk, where |-> j.where, op |-> j.op, groups |-> j.groups]
        BY <2>1, <2>2
  <2>4. x = [y EXCEPT !.fk = key] BY <1>1, <1>3, <2>2 DEF Fixed
  <2>5. x = [index |-> j.index, lk |-> key, fk |-> key, where |-> j.where, op |-> j.op, groups |-> j.groups]
        BY <2>3, <2>4
  <2>6. IsJoin(x) BY <2>5 DEF IsJoin
  <2>7. \A r \in content.main : ~Joined(r, j) BY <1>3, MainFits DEF Joined
  <2> QED BY <1>1, <2>5, <2>6, <2>7
<1> QED BY <1>2, <1>3

LEMMA FixKeysIs ==
    ASSUME ContentFits, NEW p, IsPlan(p)
    PROVE  /\ IsPlan(FixKeys(p)) /\ FixKeys(p).where = p.where
           /\ ~HidesConditions(p) => ~HidesConditions(FixKeys(p))
           /\ FewIn(p, 0) => FewIn(FixKeys(p), 0)
           /\ Matching(p) \subseteq Matching(FixKeys(p))
<1>1. CASE KnownKeys(p) = <<>> BY <1>1 DEF FixKeys
<1>2. CASE KnownKeys(p) # <<>>
  <2>1. PICK key : key = Head(KnownKeys(p)) OBVIOUS
  <2>2. PICK js : js = [i \in DOMAIN p.joins |-> Fixed(p.joins[i], key)] OBVIOUS
  <2>3. PICK q : q = FixKeys(p) OBVIOUS
  <2>4. p = [select |-> p.select, where |-> p.where, joins |-> p.joins, order |-> p.order] BY DEF IsPlan
  <2>5. q = [select |-> p.select, where |-> p.where, joins |-> js, order |-> p.order]
    <3>1. q = [p EXCEPT !.joins = js] BY <1>2, <2>1, <2>2, <2>3 DEF FixKeys
    <3> QED BY <2>4, <3>1
  <2>6. \A i \in DOMAIN p.joins : js[i] = Fixed(p.joins[i], key) /\ IsJoin(p.joins[i])
        BY <2>2, PlanFrame
  <2>7. \A i \in DOMAIN p.joins : IsJoin(js[i]) BY <2>6, FixedIs
  <2>8. Conditions(p.where) BY DEF IsPlan
  <2>9. js = [i \in DOMAIN p.joins |-> js[i]] BY <2>2
  <2>10. /\ IsPlan(q) /\ DOMAIN js = DOMAIN p.joins
         /\ \A x \in Range(js) : \E i \in DOMAIN p.joins : x = js[i] /\ p.joins[i] \in Range(p.joins)
         /\ (\A i \in DOMAIN p.joins, r \in content.main : Joined(r, p.joins[i]) => Joined(r, js[i]))
              => Matching(p) \subseteq Matching(q)
         BY <2>5, <2>7, <2>8, <2>9, EachJoin
  <2>11. Matching(p) \subseteq Matching(q) BY <2>6, <2>10, FixedIs
  <2>12. \A x \in Range(js) : \E j \in Range(p.joins) : x.where = j.where /\ x.op = j.op /\ x.groups = j.groups
         BY <2>6, <2>10, FixedIs
  <2>13. ~HidesConditions(p) => ~HidesConditions(q) BY <2>5, <2>12 DEF HidesConditions
  <2>14. FewIn(p, 0) => FewIn(q, 0) BY <2>5, <2>12 DEF FewIn, Few
  <2> QED BY <2>3, <2>5, <2>10, <2>11, <2>13, <2>14
<1> QED BY <1>1, <1>2

\* A row has no field its index does not have: dropping conditions on others
\* loses no row, unless alternatives hid a list.
LEMMA DropInIs ==
    ASSUME ContentFits, NEW j, IsJoin(j)
    PROVE  LET x == DropIn(j) IN
           /\ IsJoin(x) /\ x.index = j.index /\ x.lk = j.lk /\ x.fk = j.fk /\ x.op = j.op
           /\ x.where \subseteq j.where
           /\ j.groups = {} => x.groups = {}
           /\ PredFields(JoinPreds(x)) \subseteq FieldsOf(j.index)
           /\ ~(j.groups # {} /\ j.where # {}) => \A r \in content.main : Joined(r, j) => Joined(r, x)
<1>1. PICK F : F = FieldsOf(j.index) OBVIOUS
<1>2. PICK w : w = Known(j.where, F) OBVIOUS
<1>3. PICK G : G = {Known(g, F) : g \in j.groups} \ {{}} OBVIOUS
<1>4. PICK x : x = DropIn(j) OBVIOUS
<1>5. x = [index |-> j.index, lk |-> j.lk, fk |-> j.fk, where |-> w, op |-> j.op, groups |-> G]
  <2>1. j = [index |-> j.index, lk |-> j.lk, fk |-> j.fk, where |-> j.where, op |-> j.op, groups |-> j.groups]
        BY DEF IsJoin
  <2>2. PICK y : y = [j EXCEPT !.where = w] OBVIOUS
  <2>3. y = [index |-> j.index, lk |-> j.lk, fk |-> j.fk, where |-> w, op |-> j.op, groups |-> j.groups]
        BY <2>1, <2>2
  <2>4. x = [y EXCEPT !.groups = G] BY <1>1, <1>2, <1>3, <1>4, <2>2 DEF DropIn
  <2> QED BY <2>3, <2>4
<1>6. w \subseteq j.where /\ \A c \in w : c.field \in F BY <1>2 DEF Known
<1>7. IsJoin(x)
  <2>1. Conditions(w) BY <1>6, FS_Subset DEF IsJoin, Conditions
  <2> QED BY <1>5, <2>1 DEF IsJoin
<1>8. PredFields(JoinPreds(x)) \subseteq F
  <2>1. \A g \in G : \A c \in g : c.field \in F BY <1>3 DEF Known
  <2> QED BY <1>5, <1>6, <2>1 DEF PredFields, JoinPreds
<1>9. ASSUME NEW s \in RowsOf(j.index), Passes(s, j), ~(j.groups # {} /\ j.where # {}) PROVE Passes(s, x)
  <2>1. DOMAIN s = F BY <1>1, RowsFit
  <2>2. \A c : Holds(s, c) => c.field \in F BY <2>1 DEF Holds
  <2>3. CASE j.groups # {}
    <3>1. w = {} BY <1>6, <1>9, <2>3
    <3>2. CASE Alternatives(j) = {}
      <4>1. j.groups = {{}} BY <2>3, <3>2 DEF Alternatives
      <4>2. Known({}, F) = {} BY DEF Known
      <4>3. G = {} BY <1>3, <4>1, <4>2
      <4> QED BY <1>5, <3>1, <4>3 DEF Passes, AllHold
    <3>3. CASE Alternatives(j) # {}
      <4>1. PICK g \in Alternatives(j) : AllHold(s, g) BY <1>9, <2>3, <3>3 DEF Passes
      <4>2. Known(g, F) = g BY <2>2, <4>1 DEF Known, AllHold
      <4>3. g # {} /\ g \in j.groups BY <4>1 DEF Alternatives
      <4>4. g \in G BY <1>3, <4>2, <4>3
      <4>5. x.groups = G BY <1>5
      <4> QED BY <4>1, <4>3, <4>4, <4>5 DEF Passes, Alternatives
    <3> QED BY <3>2, <3>3
  <2>4. CASE j.groups = {}
    <3>1. G = {} BY <1>3, <2>4
    <3>2. x.groups = {} /\ x.op = j.op /\ x.where = w BY <1>5, <3>1
    <3>3. CASE j.op = "or"
      <4>1. j.where = {} \/ \E c \in j.where : Holds(s, c) BY <1>9, <2>4, <3>3 DEF Passes
      <4>2. w = {} \/ \E c \in w : Holds(s, c) BY <1>2, <1>6, <2>2, <4>1 DEF Known
      <4> QED BY <3>2, <3>3, <4>2 DEF Passes
    <3>4. CASE j.op # "or"
      <4>1. AllHold(s, j.where) BY <1>9, <2>4, <3>4 DEF Passes
      <4>2. AllHold(s, w) BY <1>6, <4>1 DEF AllHold
      <4> QED BY <3>2, <3>4, <4>2 DEF Passes
    <3> QED BY <3>3, <3>4
  <2> QED BY <2>3, <2>4
<1>10. ASSUME ~(j.groups # {} /\ j.where # {}), NEW r \in content.main, Joined(r, j) PROVE Joined(r, x)
  <2>1. PICK s \in RowsOf(j.index) : j.fk \in DOMAIN s /\ Passes(s, j) /\ r[j.lk] = s[j.fk]
        BY <1>10 DEF Joined, KeysOf
  <2>2. Passes(s, x) BY <1>9, <1>10, <2>1
  <2> QED BY <1>5, <1>10, <2>1, <2>2 DEF Joined, KeysOf
<1>11. j.groups = {} => G = {} BY <1>3
<1> QED BY <1>1, <1>4, <1>5, <1>6, <1>7, <1>8, <1>10, <1>11

\* What a plan is after it was cleaned against the schema.
IsClean(p) ==
    /\ p.select \subseteq MainFields /\ PredFields(p.where) \subseteq MainFields
    /\ Contradictory(p.where) = {}
    /\ \A i \in DOMAIN p.joins :
          /\ PredFields(JoinPreds(p.joins[i])) \subseteq FieldsOf(p.joins[i].index)
          /\ p.joins[i].lk \in MainFields /\ p.joins[i].fk \in FieldsOf(p.joins[i].index)

NoneAsksTwo(p) == \A j \in Range(p.joins) : j.op = "and" => Contradictory(j.where) = {}

LEMMA FewerContradict ==
    ASSUME NEW ps, Conditions(ps), NEW w, w \subseteq ps
    PROVE  Contradictory(w) \subseteq Contradictory(ps)
<1> SUFFICES ASSUME NEW f \in Contradictory(w) PROVE f \in Contradictory(ps) OBVIOUS
<1>1. f \in {c.field : c \in w} /\ Cardinality(EqValues(w, f)) > 1 BY DEF Contradictory
<1>2. f \in {c.field : c \in ps} BY <1>1
<1>3. PICK V, W : V = EqValues(ps, f) /\ W = EqValues(w, f) OBVIOUS
<1>4. W \in SUBSET V BY <1>3 DEF EqValues
<1>5. IsFiniteSet(V) /\ Cardinality(V) \in Nat BY <1>3, EqIsFinite
<1>6. Conditions(w) BY FS_Subset DEF Conditions
<1>7. Cardinality(W) \in Nat BY <1>3, <1>6, EqIsFinite
<1>8. Cardinality(W) <= Cardinality(V) BY <1>4, <1>5, FS_Subset
<1>9. Cardinality(V) > 1 BY <1>1, <1>3, <1>5, <1>7, <1>8
<1> QED BY <1>2, <1>3, <1>9 DEF Contradictory

LEMMA NoneLeft ==
    ASSUME NEW j, IsJoin(j), Few(j, 0), j.op = "and", ~(j.groups # {} /\ j.where # {})
    PROVE  Contradictory(j.where) = {}
<1>1. PICK C : C = Contradictory(j.where) OBVIOUS
<1>2. IsFiniteSet(C) /\ Cardinality(C) \in Nat BY <1>1, EqIsFinite DEF IsJoin
<1>3. CASE j.groups = {}
  <2>1. Cardinality(C) <= 0 BY <1>1, <1>3 DEF Few
  <2>2. Cardinality(C) = 0 BY <1>2, <2>1
  <2> QED BY <1>1, <1>2, <2>2, FS_EmptySet
<1>4. CASE j.where = {} BY <1>4 DEF Contradictory
<1> QED BY <1>3, <1>4

LEMMA DropIs ==
    ASSUME ContentFits, NEW p, IsPlan(p), KeysKnown(p), Contradictory(p.where) = {}
    PROVE  /\ IsPlan(Drop(p)) /\ IsClean(Drop(p))
           /\ ~HidesConditions(p) => Matching(p) \subseteq Matching(Drop(p))
           /\ ~HidesConditions(p) /\ FewIn(p, 0) => NoneAsksTwo(Drop(p))
<1>1. PICK js : js = [i \in DOMAIN p.joins |-> DropIn(p.joins[i])] OBVIOUS
<1>2. PICK q : q = Drop(p) OBVIOUS
<1>3. PICK w : w = Known(p.where, MainFields) OBVIOUS
<1>4. PICK o, s : o = KnownOrder(p) /\ s = p.select \cap MainFields OBVIOUS
<1>5. q = [select |-> s, where |-> w, joins |-> js, order |-> o]
  <2>1. p = [select |-> p.select, where |-> p.where, joins |-> p.joins, order |-> p.order] BY DEF IsPlan
  <2>2. PICK a : a = [p EXCEPT !.select = s] OBVIOUS
  <2>3. a = [select |-> s, where |-> p.where, joins |-> p.joins, order |-> p.order] BY <2>1, <2>2
  <2>4. PICK b : b = [a EXCEPT !.order = o] OBVIOUS
  <2>5. b = [select |-> s, where |-> p.where, joins |-> p.joins, order |-> o] BY <2>3, <2>4
  <2>6. PICK c : c = [b EXCEPT !.where = w] OBVIOUS
  <2>7. c = [select |-> s, where |-> w, joins |-> p.joins, order |-> o] BY <2>5, <2>6
  <2>8. q = [c EXCEPT !.joins = js] BY <1>1, <1>2, <1>3, <1>4, <2>2, <2>4, <2>6 DEF Drop
  <2> QED BY <2>7, <2>8
<1>6. w \subseteq p.where /\ \A c \in w : c.field \in MainFields BY <1>3 DEF Known
<1>7. Conditions(p.where) BY DEF IsPlan
<1>8. Conditions(w) BY <1>6, <1>7, FS_Subset DEF Conditions
<1>9. \A i \in DOMAIN p.joins : js[i] = DropIn(p.joins[i]) /\ IsJoin(p.joins[i]) /\ p.joins[i] \in Range(p.joins)
      BY <1>1, PlanFrame
<1>10. \A i \in DOMAIN p.joins : IsJoin(js[i]) BY <1>9, DropInIs
<1>11. js = [i \in DOMAIN p.joins |-> js[i]] BY <1>1
<1>12. /\ IsPlan(q) /\ DOMAIN js = DOMAIN p.joins
       /\ \A x \in Range(js) : \E i \in DOMAIN p.joins : x = js[i] /\ p.joins[i] \in Range(p.joins)
       /\ (\A i \in DOMAIN p.joins, r \in content.main : Joined(r, p.joins[i]) => Joined(r, js[i]))
            => Matching(p) \subseteq Matching(q)
       BY <1>5, <1>6, <1>8, <1>10, <1>11, EachJoin
<1>13. IsClean(q)
  <2>1. Contradictory(w) = {} BY <1>6, <1>7, FewerContradict
  <2>2. ASSUME NEW i \in DOMAIN js
        PROVE  /\ PredFields(JoinPreds(js[i])) \subseteq FieldsOf(js[i].index)
               /\ js[i].lk \in MainFields /\ js[i].fk \in FieldsOf(js[i].index)
    <3>1. i \in DOMAIN p.joins BY <1>12
    <3>2. p.joins[i].lk \in MainFields /\ p.joins[i].fk \in FieldsOf(p.joins[i].index) BY <3>1 DEF KeysKnown
    <3>3. PICK j : j = p.joins[i] OBVIOUS
    <3>4. js[i] = DropIn(j) /\ IsJoin(j) BY <1>9, <3>1, <3>3
    <3> QED BY <3>2, <3>3, <3>4, DropInIs
  <2>3. PredFields(w) \subseteq MainFields BY <1>6 DEF PredFields
  <2> QED BY <1>4, <1>5, <2>1, <2>2, <2>3 DEF IsClean
<1>14. ASSUME ~HidesConditions(p) PROVE Matching(p) \subseteq Matching(q)
  <2>1. \A j \in Range(p.joins) : ~(j.groups # {} /\ j.where # {}) BY <1>14 DEF HidesConditions
  <2> QED BY <1>9, <1>12, <2>1, DropInIs
<1>15. ASSUME ~HidesConditions(p), FewIn(p, 0) PROVE NoneAsksTwo(q)
  <2> SUFFICES ASSUME NEW x \in Range(js), x.op = "and" PROVE Contradictory(x.where) = {}
      BY <1>5 DEF NoneAsksTwo
  <2>1. PICK i \in DOMAIN p.joins : x = js[i] BY <1>12
  <2>2. PICK j : j = p.joins[i] OBVIOUS
  <2>3. IsJoin(j) /\ Few(j, 0) /\ ~(j.groups # {} /\ j.where # {})
        BY <1>9, <1>15, <2>2 DEF HidesConditions, FewIn
  <2>4. x.op = j.op /\ x.where \subseteq j.where BY <1>9, <2>1, <2>2, DropInIs
  <2>5. Contradictory(j.where) = {} BY <2>3, <2>4, NoneLeft
  <2>6. Contradictory(x.where) \subseteq Contradictory(j.where) BY <2>3, <2>4, FewerContradict DEF IsJoin
  <2> QED BY <2>5, <2>6
<1> QED BY <1>2, <1>12, <1>13, <1>14, <1>15

-----------------------------------------------------------------------------
\* What the first n semi-joins of the plan have left: f by local key, all of it
\* if no call was cut.
KeysLeft(f, n, whole) ==
    /\ \A k : k \in DOMAIN f <=> \E i \in 1 .. n : plan.joins[i].lk = k
    /\ \A i \in 1 .. n : f[plan.joins[i].lk] \subseteq KeysOf(plan.joins[i])
    /\ whole => \A k \in DOMAIN f : \A v :
                   (\A i \in 1 .. n : plan.joins[i].lk = k => v \in KeysOf(plan.joins[i])) => v \in f[k]
    /\ \A k \in DOMAIN f : IsFiniteSet(f[k])

\* What a semi-join's call finds, and the keys in what it keeps.
Hits(j) == {r \in RowsOf(j.index) : Passes(r, j)}
Ids(j, got) == {r[j.fk] : r \in got}

LEMMA NextKeys ==
    ASSUME ContentFits, IsPlan(plan), NEW n \in Nat, n < Len(plan.joins), NEW whole \in BOOLEAN,
           KeysLeft(keys, n, whole), NEW left \in BOOLEAN, NEW f, NEW j, j = plan.joins[n + 1], j.fk \in FieldsOf(j.index),
           NEW got \in SUBSET Hits(j), f = Intersected(j.lk, Ids(j, got)), left => whole /\ got = Hits(j)
    PROVE  KeysLeft(f, n + 1, left)
<1>0. PICK through : through = Hits(j) /\ through = {r \in RowsOf(j.index) : Passes(r, j)} BY DEF Hits
<1>1. PICK ids : ids = Ids(j, got) /\ ids = {r[j.fk] : r \in got} BY DEF Ids
<1>2. f = Intersected(j.lk, ids) BY <1>1
<1>3. DOMAIN f = DOMAIN keys \cup {j.lk} BY <1>2 DEF Intersected
<1>4. \A k \in DOMAIN keys : k # j.lk => f[k] = keys[k] BY <1>2 DEF Intersected
<1>5. f[j.lk] = IF j.lk \in DOMAIN keys THEN keys[j.lk] \cap ids ELSE ids BY <1>2 DEF Intersected
<1>6. \A s \in RowsOf(j.index) : j.fk \in DOMAIN s BY RowsFit
<1>7. ids \subseteq KeysOf(j) /\ (got = through => ids = KeysOf(j)) BY <1>0, <1>1, <1>6 DEF KeysOf
<1>8. IsFiniteSet(ids)
  <2>1. IsFiniteSet(through) BY <1>0, RowsFit, FS_Subset
  <2>2. IsFiniteSet(got) BY <1>0, <2>1, FS_Subset
  <2>3. PICK m : m = [r \in got |-> r[j.fk]] OBVIOUS
  <2>4. m \in [got -> ids] /\ \A v \in ids : \E r \in got : m[r] = v BY <1>1, <2>3
  <2> QED BY <2>2, <2>4, ImageIsFinite
<1>9. \A i \in 1 .. n + 1 : i \in 1 .. n \/ i = n + 1 OBVIOUS
<1>10. 1 .. n \subseteq 1 .. n + 1 /\ n + 1 \in 1 .. n + 1 OBVIOUS
<1>11. ASSUME NEW k PROVE k \in DOMAIN f <=> \E i \in 1 .. n + 1 : plan.joins[i].lk = k
       BY <1>3, <1>9, <1>10 DEF KeysLeft
<1>12. ASSUME NEW i \in 1 .. n + 1 PROVE f[plan.joins[i].lk] \subseteq KeysOf(plan.joins[i])
  <2>1. CASE i = n + 1 BY <1>5, <1>7, <2>1
  <2>2. CASE i \in 1 .. n
    <3>1. PICK k : k = plan.joins[i].lk OBVIOUS
    <3>2. k \in DOMAIN keys /\ keys[k] \subseteq KeysOf(plan.joins[i]) BY <2>2, <3>1 DEF KeysLeft
    <3>3. f[k] \subseteq keys[k] BY <1>4, <1>5, <3>2
    <3> QED BY <3>1, <3>2, <3>3
  <2> QED BY <1>9, <2>1, <2>2
<1>13. ASSUME left, NEW k \in DOMAIN f, NEW v,
              \A i \in 1 .. n + 1 : plan.joins[i].lk = k => v \in KeysOf(plan.joins[i])
       PROVE  v \in f[k]
  <2>1. k \in DOMAIN keys => v \in keys[k] BY <1>10, <1>13 DEF KeysLeft
  <2>2. k = j.lk => v \in ids BY <1>0, <1>7, <1>10, <1>13
  <2> QED BY <1>3, <1>4, <1>5, <2>1, <2>2
<1>14. ASSUME NEW k \in DOMAIN f PROVE IsFiniteSet(f[k])
  <2>1. k \in DOMAIN keys => IsFiniteSet(keys[k]) BY DEF KeysLeft
  <2>2. CASE k # j.lk BY <1>3, <1>4, <2>1, <2>2
  <2>3. CASE k = j.lk
    <3>1. f[k] \in SUBSET ids BY <1>5, <2>3
    <3> QED BY <1>8, <3>1, FS_Subset
  <2> QED BY <2>2, <2>3
<1> QED BY <1>1, <1>2, <1>11, <1>12, <1>13, <1>14 DEF KeysLeft

\* Some key set is the smallest.
LEMMA PrimaryIsKey ==
    ASSUME NEW n \in Nat, n > 0, NEW whole, KeysLeft(keys, n, whole)
    PROVE  Primary \in DOMAIN keys
<1> DEFINE sizes == {Cardinality(keys[k]) : k \in DOMAIN keys}
<1>1. \A k \in DOMAIN keys : Cardinality(keys[k]) \in Nat BY FS_CardinalityType DEF KeysLeft
<1>2. DOMAIN keys # {}
  <2>1. 1 \in 1 .. n OBVIOUS
  <2> QED BY <2>1 DEF KeysLeft
<1>3. sizes \in SUBSET Nat /\ sizes # {} BY <1>1, <1>2
<1>4. PICK m \in sizes : \A x \in sizes : m <= x
  <2> HIDE DEF sizes
  <2> QED BY <1>3, LeastOf
<1>5. \E k \in DOMAIN keys : \A l \in DOMAIN keys : Cardinality(keys[k]) <= Cardinality(keys[l]) BY <1>4
<1> QED BY <1>5 DEF Primary

\* A row that is in the answer so far is one that the plan's own conditions
\* and the leading key let through, and a row is missing only if its key waits.
Led(r) == AllHold(r, plan.where) /\ Primary \in DOMAIN r /\ r[Primary] \in keys[Primary]

CallsFit ==
    /\ nextJoin = Len(plan.joins) + 1 /\ plan.joins # <<>>
    /\ chunk \subseteq keys[Primary]
    /\ \A a \in answer : \E r \in content.main : Led(r) /\ a = Shown(plan, r)
    /\ ~cut => \A r \in content.main : Led(r) /\ r[Primary] \notin chunk => Shown(plan, r) \in answer
    /\ answer # {} => plan.select \subseteq MainFields

\* The plan that is executed.
PlanFits ==
    /\ IsPlan(plan)
    /\ ~ChoiceIsMerged(asked) /\ ~HidesConditions(asked) => Matching(asked) \subseteq Matching(plan)
    /\ schema /\ KeysKnown(plan) =>
          /\ IsClean(plan)
          /\ ThreeAtMost(asked) /\ ~HidesConditions(asked) => NoneAsksTwo(plan)

PlanInv ==
    /\ planPc \in {"idle", "parsed", "joining", "outer", "done", "failed"}
    /\ planPc # "idle" => asked \in Plans /\ ContentFits
    /\ planPc \in {"idle", "parsed"} => nextJoin = 1 /\ keys = <<>> /\ cut = FALSE
    /\ planPc \in {"idle", "parsed", "joining"} => answer = {} /\ unapplied = {}
    /\ planPc = "parsed" => plan = Merge(asked)
    /\ planPc \in {"joining", "outer", "done", "failed"} => PlanFits
    /\ planPc \in {"joining", "outer"} => nextJoin \in 1 .. Len(plan.joins) + 1
                                          /\ KeysLeft(keys, nextJoin - 1, ~cut)
    /\ planPc = "outer" => CallsFit
    /\ planPc = "failed" /\ schema /\ KeysKnown(plan) => ~(Order(plan) \subseteq MainFields)
    /\ AnswersPlan

LEMMA CutsAreRows ==
    ASSUME NEW rws, NEW n, NEW got \in Cuts(rws, n)
    PROVE  got \subseteq rws
BY DEF Cuts

\* What a step leaves alone while a plan is executed.
LEMMA FitsStay ==
    ASSUME UNCHANGED <<asked, plan, content, schema>>
    PROVE  /\ PlanFits => PlanFits'
           /\ \A p : Matching(p)' = Matching(p)
           /\ \A j : KeysOf(j)' = KeysOf(j)
           /\ ContentFits => ContentFits'
<1>1. \A j : KeysOf(j)' = KeysOf(j) BY DEF KeysOf, RowsOf
<1>2. \A r, j : Joined(r, j)' <=> Joined(r, j) BY <1>1 DEF Joined
<1>3. \A p : Matching(p)' = Matching(p) BY <1>2 DEF Matching
<1>4. PlanFits => PlanFits' BY <1>3 DEF PlanFits
<1> QED BY <1>1, <1>3, <1>4 DEF ContentFits

LEMMA KeysStay ==
    ASSUME UNCHANGED <<asked, plan, content, schema>>, NEW f, NEW n, NEW whole, KeysLeft(f, n, whole),
           f = keys', n = nextJoin' - 1, whole = ~cut'
    PROVE  KeysLeft(keys, nextJoin - 1, ~cut)'
<1>1. \A j : KeysOf(j)' = KeysOf(j) BY FitsStay
<1> QED BY <1>1 DEF KeysLeft

LEMMA ParseStep == ASSUME PlanInv, Parse PROVE PlanInv'
<1>1. planPc = "idle" /\ planPc' = "parsed" /\ asked' \in Plans /\ content' \in Contents /\ plan' = Merge(asked')
      BY DEF Parse
<1>2. nextJoin' = 1 /\ keys' = <<>> /\ cut' = FALSE /\ answer' = {} /\ unapplied' = {}
      BY <1>1 DEF Parse, PlanInv
<1>3. AnswersPlan' BY <1>1 DEF AnswersPlan
<1> QED BY <1>1, <1>2, <1>3 DEF PlanInv, ContentFits

LEMMA SanitizeStep == ASSUME PlanInv, Sanitize PROVE PlanInv'
<1>1. planPc = "parsed" /\ asked \in Plans /\ ContentFits /\ plan = Merge(asked)
      /\ nextJoin = 1 /\ keys = <<>> /\ cut = FALSE /\ answer = {} /\ unapplied = {}
      BY DEF Sanitize, PlanInv
<1>2. UNCHANGED <<asked, content, schema, nextJoin, keys, chunk, answer, cut, unapplied>> BY DEF Sanitize
<1>3. IsPlan(asked) BY <1>1, QueryPlanAssumption
<1>4. /\ IsPlan(plan)
      /\ ~HidesConditions(asked) => ~HidesConditions(plan)
      /\ ThreeAtMost(asked) => ThreeAtMost(plan)
      /\ ~ChoiceIsMerged(asked) => Matching(asked) \subseteq Matching(plan)
      BY <1>1, <1>3, MergeIs
<1>5. PICK r : r = Rewritten(plan) OBVIOUS
<1>6. /\ IsPlan(r) /\ Contradictory(r.where) = {}
      /\ ~HidesConditions(plan) => ~HidesConditions(r)
      /\ ThreeAtMost(plan) => FewIn(r, 0)
      /\ Matching(plan) \subseteq Matching(r)
      BY <1>4, <1>5, RewrittenIs
<1>7. PICK p : p = IF schema THEN FixKeys(r) ELSE r OBVIOUS
<1>8. /\ IsPlan(p) /\ Contradictory(p.where) = {}
      /\ ~HidesConditions(r) => ~HidesConditions(p)
      /\ FewIn(r, 0) => FewIn(p, 0)
      /\ Matching(r) \subseteq Matching(p)
      BY <1>1, <1>6, <1>7, FixKeysIs
<1>9. \/ schema /\ ~KeysKnown(p) /\ planPc' = "failed" /\ plan' = p
      \/ schema /\ KeysKnown(p) /\ planPc' = "joining" /\ plan' = Drop(p)
      \/ ~schema /\ planPc' = "joining" /\ plan' = p
      BY <1>5, <1>7 DEF Sanitize
<1>10. PICK P : P = plan' OBVIOUS
<1>11. /\ IsPlan(P)
       /\ ~ChoiceIsMerged(asked) /\ ~HidesConditions(asked) => Matching(asked) \subseteq Matching(P)
       /\ schema /\ KeysKnown(P) =>
             /\ IsClean(P)
             /\ ThreeAtMost(asked) /\ ~HidesConditions(asked) => NoneAsksTwo(P)
  <2>1. CASE P = p /\ (schema => ~KeysKnown(p)) BY <1>4, <1>6, <1>8, <2>1
  <2>2. CASE schema /\ KeysKnown(p) /\ P = Drop(p)
    <3>1. /\ IsPlan(P) /\ IsClean(P)
          /\ ~HidesConditions(p) => Matching(p) \subseteq Matching(P)
          /\ ~HidesConditions(p) /\ FewIn(p, 0) => NoneAsksTwo(P)
          BY <1>1, <1>8, <2>2, DropIs
    <3> QED BY <1>4, <1>6, <1>8, <3>1
  <2> QED BY <1>9, <1>10, <2>1, <2>2
<1>12. \A x : Matching(x)' = Matching(x) BY <1>2 DEF Matching, Joined, KeysOf, RowsOf
<1>13. PlanFits' BY <1>2, <1>10, <1>11, <1>12 DEF PlanFits
<1>14. KeysLeft(keys, nextJoin - 1, ~cut)'
  <2>1. nextJoin' - 1 = 0 /\ keys' = <<>> BY <1>1, <1>2
  <2>2. 1 .. 0 = {} /\ DOMAIN <<>> = {} OBVIOUS
  <2>3. PICK m, f : m = nextJoin' - 1 /\ f = keys' OBVIOUS
  <2>4. 1 .. m = {} /\ DOMAIN f = {} BY <2>1, <2>2, <2>3
  <2> QED BY <2>3, <2>4 DEF KeysLeft
<1>15. nextJoin' \in 1 .. Len(plan'.joins) + 1
  <2>1. Len(P.joins) \in Nat BY <1>11, PlanFrame
  <2> QED BY <1>1, <1>2, <1>10, <2>1
<1>16. planPc' = "failed" => ~KeysKnown(plan') BY <1>9
<1>17. AnswersPlan' BY <1>9 DEF AnswersPlan
<1>18. ContentFits' BY <1>1, <1>2 DEF ContentFits
<1> QED BY <1>1, <1>2, <1>9, <1>13, <1>14, <1>15, <1>16, <1>17, <1>18 DEF PlanInv

LEMMA SemiJoinStep == ASSUME PlanInv, SemiJoin PROVE PlanInv'
<1>1. /\ planPc = "joining" /\ nextJoin <= Len(plan.joins) /\ nextJoin \in 1 .. Len(plan.joins) + 1
      /\ asked \in Plans /\ ContentFits /\ PlanFits /\ KeysLeft(keys, nextJoin - 1, ~cut)
      /\ answer = {} /\ unapplied = {}
      BY DEF SemiJoin, PlanInv
<1>2. UNCHANGED <<asked, plan, content, schema>> /\ UNCHANGED <<answer, unapplied>> BY DEF SemiJoin
<1>3. PlanFits' /\ ContentFits' BY <1>1, <1>2, FitsStay
<1>4. IsPlan(plan) BY <1>1 DEF PlanFits
<1>5. Len(plan.joins) \in Nat /\ DOMAIN plan.joins = 1 .. Len(plan.joins) BY <1>4, PlanFrame
<1>6. PICK j : j = plan.joins[nextJoin] OBVIOUS
<1>7. nextJoin \in DOMAIN plan.joins BY <1>1, <1>5
<1>8. CASE ~(JoinFields(j) \subseteq FieldsOf(j.index))
  <2>1. planPc' = "failed" BY <1>6, <1>8 DEF SemiJoin
  <2>2. ~(schema /\ KeysKnown(plan))
    <3> SUFFICES ASSUME schema, KeysKnown(plan) PROVE FALSE OBVIOUS
    <3>1. IsClean(plan) BY <1>1 DEF PlanFits
    <3> QED BY <1>6, <1>7, <1>8, <3>1 DEF IsClean, JoinFields
  <2>3. ~(schema /\ KeysKnown(plan))' BY <1>2, <2>2 DEF KeysKnown
  <2>4. AnswersPlan' BY <2>1 DEF AnswersPlan
  <2> QED BY <1>1, <1>2, <1>3, <2>1, <2>3, <2>4 DEF PlanInv
<1>9. CASE JoinFields(j) \subseteq FieldsOf(j.index)
  <2>1. PICK through : through = {r \in RowsOf(j.index) : Passes(r, j)} OBVIOUS
  <2>2. PICK got \in Cuts(through, SemiCap) :
              /\ keys' = Intersected(j.lk, {r[j.fk] : r \in got})
              /\ cut' = (cut \/ got # through) /\ nextJoin' = nextJoin + 1 /\ planPc' = planPc
    <3> DEFINE join == plan.joins[nextJoin]
               passing == {r \in RowsOf(join.index) : Passes(r, join)}
    <3>1. JoinFields(join) \subseteq FieldsOf(join.index) BY <1>6, <1>9
    <3>2. PICK got \in Cuts(passing, SemiCap) :
              /\ keys' = Intersected(join.lk, {r[join.fk] : r \in got})
              /\ cut' = (cut \/ got # passing) /\ nextJoin' = nextJoin + 1 /\ planPc' = planPc
      BY <3>1, Zenon DEF SemiJoin
    <3>3. passing = through BY <1>6, <2>1
    <3>4. keys' = Intersected(j.lk, {r[j.fk] : r \in got}) BY <1>6, <3>2
    <3> HIDE DEF passing
    <3> QED BY <3>2, <3>3, <3>4
  <2>3. got \in SUBSET through BY <2>2, CutsAreRows
  <2>4. PICK n \in Nat : n = nextJoin - 1 BY <1>1, <1>5
  <2>5. n < Len(plan.joins) /\ n + 1 = nextJoin BY <1>1, <1>5, <2>4
  <2>6. j.fk \in FieldsOf(j.index) BY <1>9 DEF JoinFields
  <2>7. PICK whole \in BOOLEAN : whole = ~cut OBVIOUS
  <2>8. KeysLeft(keys, n, whole) BY <1>1, <2>4, <2>7
  <2>9. PICK f : f = Intersected(j.lk, Ids(j, got)) OBVIOUS
  <2>10. PICK left \in BOOLEAN : left = ~cut' OBVIOUS
  <2>11. KeysLeft(f, n + 1, left)
    <3>1. j = plan.joins[n + 1] /\ through = Hits(j) BY <1>6, <2>1, <2>5 DEF Hits
    <3>2. left => whole /\ got = through BY <2>2, <2>7, <2>10
    <3> QED BY <1>1, <1>4, <2>1, <2>3, <2>5, <2>6, <2>8, <2>9, <3>1, <3>2, NextKeys
  <2>12. KeysLeft(keys, nextJoin - 1, ~cut)'
    <3>1. f = keys' BY <2>2, <2>9 DEF Ids
    <3>2. n + 1 = nextJoin' - 1 BY <2>2, <2>4, <2>5
    <3> QED BY <1>2, <2>10, <2>11, <3>1, <3>2, KeysStay
  <2>13. nextJoin' \in 1 .. Len(plan'.joins) + 1 BY <1>1, <1>2, <1>5, <2>2
  <2>14. planPc' = "joining" BY <1>1, <2>2
  <2>15. AnswersPlan' BY <2>14 DEF AnswersPlan
  <2> QED BY <1>1, <1>2, <1>3, <2>12, <2>13, <2>14, <2>15 DEF PlanInv
<1> QED BY <1>8, <1>9

\* A clean plan is refused for its order alone.
LEMMA OrderIsUnknown ==
    ASSUME IsClean(plan), NEW k, k \subseteq MainFields, ~(OuterFields(plan, k) \subseteq MainFields)
    PROVE  ~(Order(plan) \subseteq MainFields)
BY DEF IsClean, OuterFields

LEMMA SingleStep == ASSUME PlanInv, Single PROVE PlanInv'
<1>1. /\ planPc = "joining" /\ plan.joins = <<>>
      /\ asked \in Plans /\ ContentFits /\ PlanFits /\ answer = {} /\ unapplied = {}
      BY DEF Single, PlanInv
<1>2. UNCHANGED <<asked, plan, content, schema>> /\ UNCHANGED unapplied BY DEF Single
<1>3. PlanFits' /\ ContentFits' BY <1>1, <1>2, FitsStay
<1>4. PICK through : through = {r \in content.main : AllHold(r, plan.where)} OBVIOUS
<1>5. CASE ~(OuterFields(plan, {}) \subseteq MainFields)
  <2>1. planPc' = "failed" /\ answer' = answer BY <1>5 DEF Single
  <2>2. schema /\ KeysKnown(plan) => ~(Order(plan) \subseteq MainFields)
    <3> SUFFICES ASSUME schema, KeysKnown(plan) PROVE ~(Order(plan) \subseteq MainFields) OBVIOUS
    <3>1. IsClean(plan) BY <1>1 DEF PlanFits
    <3> QED BY <1>5, <3>1, OrderIsUnknown
  <2>3. (schema /\ KeysKnown(plan) => ~(Order(plan) \subseteq MainFields))'
        BY <1>2, <2>2 DEF KeysKnown, Order
  <2>4. AnswersPlan' BY <2>1 DEF AnswersPlan
  <2> QED BY <1>1, <1>2, <1>3, <2>1, <2>3, <2>4 DEF PlanInv
<1>6. CASE OuterFields(plan, {}) \subseteq MainFields
  <2>1. PICK got \in Cuts(through, MaxSize) :
           planPc' = "done" /\ answer' = {Shown(plan, r) : r \in got} /\ cut' = (got # through)
    <3> DEFINE all == {r \in content.main : AllHold(r, plan.where)}
    <3>1. PICK got \in Cuts(all, MaxSize) :
             planPc' = "done" /\ answer' = {Shown(plan, r) : r \in got} /\ cut' = (got # all)
      BY <1>6 DEF Single
    <3>2. all = through BY <1>4
    <3> HIDE DEF all
    <3> QED BY <3>1, <3>2
  <2>2. Matching(plan) = through BY <1>1, <1>4 DEF Matching
  <2>3. got \subseteq through BY <2>1, CutsAreRows
  <2>4. Matching(plan)' = through
    <3>1. \A p : Matching(p)' = Matching(p) BY <1>2, FitsStay
    <3>2. Matching(plan)' = Matching(plan) BY <1>2, <3>1 DEF Matching, Joined, KeysOf, RowsOf
    <3> QED BY <2>2, <3>2
  <2>5. AnswersPlan'
    <3>1. {Shown(plan, r) : r \in got} \subseteq {Shown(plan, r) : r \in through} BY <2>3
    <3>2. ~cut' => {Shown(plan, r) : r \in through} \subseteq {Shown(plan, r) : r \in got} BY <2>1
    <3> QED BY <1>2, <2>1, <2>4, <3>1, <3>2 DEF AnswersPlan
  <2> QED BY <1>1, <1>2, <1>3, <2>1, <2>5 DEF PlanInv
<1> QED BY <1>5, <1>6

\* Every row that the plan asks for has a key that is left, if no call was cut.
LEMMA MatchingLeft ==
    ASSUME IsPlan(plan), NEW n, n = Len(plan.joins), KeysLeft(keys, n, TRUE), NEW r \in Matching(plan),
           NEW k \in DOMAIN keys
    PROVE  k \in DOMAIN r /\ r[k] \in keys[k] /\ r \in content.main /\ AllHold(r, plan.where)
<1>1. DOMAIN plan.joins = 1 .. n BY PlanFrame
<1>2. \A i \in 1 .. n : Joined(r, plan.joins[i]) BY <1>1 DEF Matching
<1>3. PICK i \in 1 .. n : plan.joins[i].lk = k BY DEF KeysLeft
<1>4. \A l \in 1 .. n : plan.joins[l].lk = k => r[k] \in KeysOf(plan.joins[l]) BY <1>2 DEF Joined
<1>5. r[k] \in keys[k] BY <1>4 DEF KeysLeft
<1>6. k \in DOMAIN r BY <1>2, <1>3 DEF Joined
<1> QED BY <1>5, <1>6 DEF Matching

LEMMA LeadStep == ASSUME PlanInv, Lead PROVE PlanInv'
<1>1. /\ planPc = "joining" /\ plan.joins # <<>> /\ nextJoin > Len(plan.joins)
      /\ nextJoin \in 1 .. Len(plan.joins) + 1 /\ KeysLeft(keys, nextJoin - 1, ~cut)
      /\ asked \in Plans /\ ContentFits /\ PlanFits /\ answer = {} /\ unapplied = {}
      BY DEF Lead, PlanInv
<1>2. UNCHANGED <<asked, plan, content, schema>> /\ UNCHANGED <<nextJoin, keys, answer, cut, unapplied>> BY DEF Lead
<1>3. PlanFits' /\ ContentFits' BY <1>1, <1>2, FitsStay
<1>4. IsPlan(plan) BY <1>1 DEF PlanFits
<1>5. PICK n \in Nat : n = Len(plan.joins) /\ DOMAIN plan.joins = 1 .. n BY <1>4, PlanFrame
<1>6. n > 0
  <2>1. plan.joins \in Seq(Range(plan.joins)) BY <1>4 DEF IsPlan
  <2> QED BY <1>1, <1>5, <2>1
<1>7. nextJoin = n + 1 /\ nextJoin - 1 = n BY <1>1, <1>5
<1>8. KeysLeft(keys, n, ~cut) BY <1>1, <1>7
<1>9. Primary \in DOMAIN keys BY <1>6, <1>8, PrimaryIsKey
<1>10. KeysLeft(keys, nextJoin - 1, ~cut)'
  <2>1. PICK f, whole : f = keys' /\ whole = ~cut' OBVIOUS
  <2>2. KeysLeft(f, n, whole) BY <1>2, <1>8, <2>1
  <2>3. n = nextJoin' - 1 BY <1>2, <1>7
  <2> QED BY <1>2, <2>1, <2>2, <2>3, KeysStay
<1>11. CASE keys[Primary] = {}
  <2>1. planPc' = "done" BY <1>11 DEF Lead
  <2>2. ~cut => Matching(plan) = {}
    <3> SUFFICES ASSUME ~cut, NEW r \in Matching(plan) PROVE FALSE OBVIOUS
    <3>1. KeysLeft(keys, n, TRUE) BY <1>8
    <3> QED BY <1>4, <1>5, <1>9, <1>11, <3>1, MatchingLeft
  <2>3. Matching(plan)' = Matching(plan) BY <1>2 DEF Matching, Joined, KeysOf, RowsOf
  <2>4. AnswersPlan' BY <1>1, <1>2, <2>2, <2>3 DEF AnswersPlan
  <2> QED BY <1>1, <1>2, <1>3, <2>1, <2>4 DEF PlanInv
<1>12. CASE keys[Primary] # {}
  <2>1. planPc' = "outer" /\ chunk' = keys[Primary] BY <1>12 DEF Lead
  <2>2. Primary' = Primary BY <1>2 DEF Primary
  <2>3. CallsFit'
    <3>1. \A r : ~(Led(r) /\ r[Primary] \notin keys[Primary]) BY DEF Led
    <3>2. \A r : ~(Led(r) /\ r[Primary] \notin chunk)' BY <1>2, <2>1, <2>2, <3>1 DEF Led
    <3> QED BY <1>1, <1>2, <1>5, <1>7, <2>1, <2>2, <3>2 DEF CallsFit
  <2>4. AnswersPlan' BY <2>1 DEF AnswersPlan
  <2>5. nextJoin' \in 1 .. Len(plan'.joins) + 1 BY <1>1, <1>2
  <2> QED BY <1>1, <1>2, <1>3, <1>10, <2>1, <2>3, <2>4, <2>5 DEF PlanInv
<1> QED BY <1>11, <1>12

\* In the outer calls: what PlanInv says, read for all the semi-joins.
LEMMA OuterFrame ==
    ASSUME PlanInv, planPc = "outer"
    PROVE  /\ IsPlan(plan) /\ Len(plan.joins) \in Nat /\ DOMAIN plan.joins = 1 .. Len(plan.joins)
           /\ KeysLeft(keys, Len(plan.joins), ~cut) /\ nextJoin - 1 = Len(plan.joins)
           /\ Primary \in DOMAIN keys
<1>1. /\ nextJoin = Len(plan.joins) + 1 /\ plan.joins # <<>> /\ PlanFits
      /\ KeysLeft(keys, nextJoin - 1, ~cut)
      BY DEF PlanInv, CallsFit
<1>2. IsPlan(plan) BY <1>1 DEF PlanFits
<1>3. PICK n \in Nat : n = Len(plan.joins) /\ DOMAIN plan.joins = 1 .. n BY <1>2, PlanFrame
<1>4. nextJoin - 1 = n BY <1>1, <1>3
<1>5. n > 0
  <2>1. plan.joins \in Seq(Range(plan.joins)) BY <1>2 DEF IsPlan
  <2> QED BY <1>1, <1>3, <2>1
<1>6. KeysLeft(keys, n, ~cut) BY <1>1, <1>4
<1>7. Primary \in DOMAIN keys BY <1>5, <1>6, PrimaryIsKey
<1> QED BY <1>2, <1>3, <1>4, <1>6, <1>7

LEMMA OuterChunkStep == ASSUME PlanInv, OuterChunk PROVE PlanInv'
<1>1. /\ planPc = "outer" /\ asked \in Plans /\ ContentFits /\ PlanFits /\ CallsFit
      /\ nextJoin \in 1 .. Len(plan.joins) + 1
      BY DEF OuterChunk, PlanInv
<1>2. UNCHANGED <<asked, plan, content, schema>> /\ UNCHANGED <<nextJoin, keys, unapplied>> BY DEF OuterChunk
<1>3. PlanFits' /\ ContentFits' BY <1>1, <1>2, FitsStay
<1>4. /\ IsPlan(plan) /\ DOMAIN plan.joins = 1 .. Len(plan.joins)
      /\ KeysLeft(keys, Len(plan.joins), ~cut) /\ nextJoin - 1 = Len(plan.joins)
      /\ Primary \in DOMAIN keys
      BY <1>1, OuterFrame
<1>5. Primary' = Primary BY <1>2 DEF Primary
<1>6. PICK ids \in Cuts(chunk, InChunk) :
         /\ Outer([r \in content.main |-> Primary \in DOMAIN r /\ r[Primary] \in ids], {Primary})
         /\ chunk' = chunk \ ids
      BY DEF OuterChunk
<1>7. PICK through : through = {r \in content.main : AllHold(r, plan.where) /\ Primary \in DOMAIN r /\ r[Primary] \in ids}
      OBVIOUS
<1>8. CASE ~(OuterFields(plan, {Primary}) \subseteq MainFields)
  <2>1. planPc' = "failed" BY <1>6, <1>8 DEF Outer
  <2>2. schema /\ KeysKnown(plan) => ~(Order(plan) \subseteq MainFields)
    <3> SUFFICES ASSUME schema, KeysKnown(plan) PROVE ~(Order(plan) \subseteq MainFields) OBVIOUS
    <3>1. IsClean(plan) BY <1>1 DEF PlanFits
    <3>2. PICK i \in 1 .. Len(plan.joins) : plan.joins[i].lk = Primary BY <1>4 DEF KeysLeft
    <3>3. {Primary} \subseteq MainFields BY <1>4, <3>2 DEF KeysKnown
    <3> QED BY <1>8, <3>1, <3>3, OrderIsUnknown
  <2>3. (schema /\ KeysKnown(plan) => ~(Order(plan) \subseteq MainFields))'
        BY <1>2, <2>2 DEF KeysKnown, Order
  <2>4. AnswersPlan' BY <2>1 DEF AnswersPlan
  <2> QED BY <1>1, <1>2, <1>3, <2>1, <2>3, <2>4 DEF PlanInv
<1>9. CASE OuterFields(plan, {Primary}) \subseteq MainFields
  <2>1. PICK got \in Cuts(through, MaxSize) :
           /\ answer' = answer \cup {Shown(plan, r) : r \in got}
           /\ cut' = (cut \/ got # through) /\ planPc' = planPc
    <3>1. PICK also : also = [r \in content.main |-> Primary \in DOMAIN r /\ r[Primary] \in ids] OBVIOUS
    <3>2. {r \in content.main : AllHold(r, plan.where) /\ also[r]} = through BY <1>7, <3>1
    <3> QED BY <1>6, <1>9, <3>1, <3>2 DEF Outer
  <2>2. got \subseteq through /\ ids \subseteq chunk BY <1>6, <2>1, CutsAreRows
  <2>3. plan.select \subseteq MainFields BY <1>9 DEF OuterFields
  <2>4. \A r : Led(r)' <=> Led(r) BY <1>2, <1>5 DEF Led
  <2>5. chunk \subseteq keys[Primary] BY <1>1 DEF CallsFit
  <2>6. ASSUME NEW a \in answer' PROVE \E r \in content.main : Led(r) /\ a = Shown(plan, r)
    <3>1. CASE a \in answer BY <1>1, <3>1 DEF CallsFit
    <3>2. CASE a \in {Shown(plan, r) : r \in got}
      <4>1. PICK r \in got : a = Shown(plan, r) BY <3>2
      <4>2. r \in content.main /\ Led(r) BY <1>7, <2>2, <2>5, <4>1 DEF Led
      <4> QED BY <4>1, <4>2
    <3> QED BY <2>1, <3>1, <3>2
  <2>7. ASSUME ~cut', NEW r \in content.main, Led(r), r[Primary] \notin chunk' PROVE Shown(plan, r) \in answer'
    <3>1. ~cut /\ got = through BY <2>1, <2>7
    <3>2. CASE r[Primary] \in ids
      <4>1. r \in through BY <1>7, <2>7, <3>2 DEF Led
      <4> QED BY <2>1, <3>1, <4>1
    <3>3. CASE r[Primary] \notin ids
      <4>1. r[Primary] \notin chunk BY <1>6, <2>7, <3>3
      <4> QED BY <1>1, <2>1, <2>7, <3>1, <4>1 DEF CallsFit
    <3> QED BY <3>2, <3>3
  <2>8. CallsFit'
    <3>1. \A a \in answer' : \E r \in content'.main : Led(r)' /\ a = Shown(plan', r) BY <1>2, <2>4, <2>6
    <3>2. ~cut' => \A r \in content'.main : Led(r)' /\ r[Primary'] \notin chunk' => Shown(plan', r) \in answer'
          BY <1>2, <1>5, <2>4, <2>7
    <3>3. chunk' \subseteq keys'[Primary'] BY <1>2, <1>5, <1>6, <2>5
    <3>4. nextJoin' = Len(plan'.joins) + 1 /\ plan'.joins # <<>> BY <1>1, <1>2 DEF CallsFit
    <3>5. plan'.select \subseteq MainFields BY <1>2, <2>3
    <3> QED BY <3>1, <3>2, <3>3, <3>4, <3>5 DEF CallsFit
  <2>9. KeysLeft(keys, nextJoin - 1, ~cut)'
    <3>1. PICK n, f : n = Len(plan.joins) /\ f = keys' OBVIOUS
    <3>2. PICK left \in BOOLEAN : left = ~cut' OBVIOUS
    <3>3. left => ~cut BY <2>1, <3>2
    <3>4. KeysLeft(f, n, left) BY <1>2, <1>4, <3>1, <3>3 DEF KeysLeft
    <3>5. n = nextJoin' - 1 BY <1>2, <1>4, <3>1
    <3> QED BY <1>2, <3>1, <3>2, <3>4, <3>5, KeysStay
  <2>10. planPc' = "outer" BY <1>1, <2>1
  <2>11. nextJoin' \in 1 .. Len(plan'.joins) + 1 BY <1>1, <1>2
  <2>12. AnswersPlan' BY <2>10 DEF AnswersPlan
  <2> QED BY <1>1, <1>2, <1>3, <2>8, <2>9, <2>10, <2>11, <2>12 DEF PlanInv
<1> QED BY <1>8, <1>9

LEMMA FilterStep == ASSUME PlanInv, Filter PROVE PlanInv'
<1>1. /\ planPc = "outer" /\ chunk = {} /\ asked \in Plans /\ ContentFits /\ PlanFits /\ CallsFit
      BY DEF Filter, PlanInv
<1>2. UNCHANGED <<asked, plan, content, schema>> /\ UNCHANGED keys /\ planPc' = "done" BY DEF Filter
<1>3. PlanFits' /\ ContentFits' BY <1>1, <1>2, FitsStay
<1>4. PICK n \in Nat : n = Len(plan.joins) BY <1>1, OuterFrame
<1>5. /\ IsPlan(plan) /\ DOMAIN plan.joins = 1 .. n /\ KeysLeft(keys, n, ~cut) /\ Primary \in DOMAIN keys
      BY <1>1, <1>4, OuterFrame
<1>6. PICK others, shown : others = DOMAIN keys \ {Primary} /\ shown = others \cap Columns(plan) OBVIOUS
<1>7. PICK got \in Cuts(answer, MaxSize) :
         /\ answer' = {r \in got : \A k \in shown : r[k] \in keys[k]}
         /\ cut' = (cut \/ got # answer) /\ unapplied' = others \ shown
      BY <1>6 DEF Filter
<1>8. got \subseteq answer BY <1>7, CutsAreRows
<1>9. PICK right : right = {Shown(plan, r) : r \in Matching(plan)} OBVIOUS
<1>10. \A r \in content.main : \A k \in Columns(plan) : Shown(plan, r)[k] = r[k] BY DEF Shown
<1>11. ASSUME unapplied' = {}, NEW a \in answer' PROVE a \in right
  <2>1. a \in answer /\ \A k \in shown : a[k] \in keys[k] BY <1>7, <1>8
  <2>2. PICK r \in content.main : Led(r) /\ a = Shown(plan, r) BY <1>1, <2>1 DEF CallsFit
  <2>3. plan.select \subseteq MainFields BY <1>1, <2>1 DEF CallsFit
  <2>4. Columns(plan) \subseteq MainFields BY <2>3 DEF Columns
  <2>5. DOMAIN r = MainFields BY <1>1, MainFits
  <2>6. others \subseteq shown BY <1>7, <1>11
  <2>7. ASSUME NEW i \in 1 .. n PROVE Joined(r, plan.joins[i])
    <3>1. PICK k : k = plan.joins[i].lk OBVIOUS
    <3>2. k \in DOMAIN keys /\ keys[k] \subseteq KeysOf(plan.joins[i]) BY <1>5, <3>1 DEF KeysLeft
    <3>3. CASE k = Primary BY <2>2, <3>1, <3>2, <3>3 DEF Led, Joined
    <3>4. CASE k # Primary
      <4>1. k \in shown /\ k \in Columns(plan) BY <1>6, <2>6, <3>2, <3>4
      <4>2. r[k] = a[k] BY <1>10, <2>2, <4>1
      <4>3. r[k] \in keys[k] /\ k \in DOMAIN r BY <2>1, <2>4, <2>5, <4>1, <4>2
      <4> QED BY <3>1, <3>2, <4>3 DEF Joined
    <3> QED BY <3>3, <3>4
  <2>8. r \in Matching(plan) BY <1>5, <2>2, <2>7 DEF Matching, Led
  <2> QED BY <1>9, <2>2, <2>8
<1>12. ASSUME ~cut', NEW r \in Matching(plan) PROVE Shown(plan, r) \in answer'
  <2>1. ~cut /\ got = answer BY <1>7, <1>12
  <2>2. KeysLeft(keys, n, TRUE) BY <1>5, <2>1
  <2>3. \A k \in DOMAIN keys : k \in DOMAIN r /\ r[k] \in keys[k] /\ r \in content.main /\ AllHold(r, plan.where)
        BY <1>4, <1>5, <2>2, MatchingLeft
  <2>4. r \in content.main /\ Led(r) BY <1>5, <2>3 DEF Led
  <2>5. Shown(plan, r) \in answer BY <1>1, <2>1, <2>4 DEF CallsFit
  <2>6. \A k \in shown : Shown(plan, r)[k] \in keys[k] BY <1>6, <1>10, <2>3, <2>4
  <2> QED BY <1>7, <2>1, <2>5, <2>6
<1>13. Matching(plan)' = Matching(plan) BY <1>2 DEF Matching, Joined, KeysOf, RowsOf
<1>14. right = {Shown(plan', r) : r \in Matching(plan)'} BY <1>2, <1>9, <1>13
<1>15. unapplied' = {} => answer' \subseteq right BY <1>11
<1>16. ~cut' => right \subseteq answer' BY <1>9, <1>12
<1>17. AnswersPlan' BY <1>14, <1>15, <1>16 DEF AnswersPlan
<1> QED BY <1>1, <1>2, <1>3, <1>17 DEF PlanInv

LEMMA PlanInvInit == PlanInit => PlanInv
BY DEF PlanInit, PlanInv, AnswersPlan

LEMMA PlanInvStep == PlanInv /\ [PlanNext]_planVars => PlanInv'
<1> SUFFICES ASSUME PlanInv, [PlanNext]_planVars PROVE PlanInv' OBVIOUS
<1>1. CASE Parse BY <1>1, ParseStep
<1>2. CASE Sanitize BY <1>2, SanitizeStep
<1>3. CASE SemiJoin BY <1>3, SemiJoinStep
<1>4. CASE Single BY <1>4, SingleStep
<1>5. CASE Lead BY <1>5, LeadStep
<1>6. CASE OuterChunk BY <1>6, OuterChunkStep
<1>7. CASE Filter BY <1>7, FilterStep
<1>8. CASE UNCHANGED planVars
  <2>1. (\E f, n : f = keys /\ n = nextJoin - 1) /\ \E left \in BOOLEAN : left = ~cut OBVIOUS
  <2>2. UNCHANGED <<asked, plan, content, schema>> /\ UNCHANGED <<planPc, nextJoin, keys, chunk, answer, cut, unapplied>>
        BY <1>8 DEF planVars
  <2>3. KeysLeft(keys, nextJoin - 1, ~cut) => KeysLeft(keys, nextJoin - 1, ~cut)'
    <3> SUFFICES ASSUME KeysLeft(keys, nextJoin - 1, ~cut) PROVE KeysLeft(keys, nextJoin - 1, ~cut)' OBVIOUS
    <3>1. PICK f, n : f = keys /\ n = nextJoin - 1 BY <2>1
    <3>2. PICK left \in BOOLEAN : left = ~cut BY <2>1
    <3>3. KeysLeft(f, n, left) BY <3>1, <3>2
    <3>4. f = keys' /\ n = nextJoin' - 1 /\ left = ~cut' BY <2>2, <3>1, <3>2
    <3> QED BY <2>2, <3>3, <3>4, KeysStay
  <2>4. (PlanFits => PlanFits') /\ (ContentFits => ContentFits') /\ \A p : Matching(p)' = Matching(p)
        BY <2>2, FitsStay
  <2>5. Primary' = Primary BY <2>2 DEF Primary
  <2>6. CallsFit => CallsFit' BY <2>2, <2>5 DEF CallsFit, Led
  <2>7. AnswersPlan => AnswersPlan'
    <3>1. Matching(plan)' = Matching(plan) BY <2>2 DEF Matching, Joined, KeysOf, RowsOf
    <3> QED BY <2>2, <3>1 DEF AnswersPlan
  <2>8. (KeysKnown(plan)' <=> KeysKnown(plan)) /\ Order(plan)' = Order(plan) BY <2>2 DEF KeysKnown, Order
  <2> QED BY <2>2, <2>3, <2>4, <2>6, <2>7, <2>8 DEF PlanInv
<1> QED BY <1>1, <1>2, <1>3, <1>4, <1>5, <1>6, <1>7, <1>8 DEF PlanNext

LEMMA PlanInvImplies == PlanInv => PlanIsAnswered
<1> SUFFICES ASSUME PlanInv PROVE PlanIsAnswered OBVIOUS
<1>1. AnswersPlan BY DEF PlanInv
<1>2. NarrowerOnlyByMerging BY DEF PlanInv, PlanFits, NarrowerOnlyByMerging, NeverNarrower
<1>3. CleanedPlanRuns
  <2> SUFFICES ASSUME planPc \in {"joining", "outer", "done", "failed"}, schema, KeysKnown(plan)
               PROVE  /\ planPc = "failed" => ~(Order(plan) \subseteq MainFields)
                      /\ Contradictory(plan.where) = {}
                      /\ ThreeAtMost(asked) /\ ~HidesConditions(asked) => NoneAsksTwo(plan)
      BY DEF CleanedPlanRuns, NoneAsksTwo
  <2>1. PlanFits BY DEF PlanInv
  <2>2. IsClean(plan) /\ (ThreeAtMost(asked) /\ ~HidesConditions(asked) => NoneAsksTwo(plan))
        BY <2>1 DEF PlanFits
  <2> QED BY <2>2 DEF PlanInv, IsClean
<1> QED BY <1>1, <1>2, <1>3 DEF PlanIsAnswered

\* Whatever plan the model writes, whatever the indexes hold, and wherever a call is
\* cut: the rows of the answer are those the plan asks for, cleaning takes none away
\* but for the two cases named, and a cleaned plan is refused only for its order.
THEOREM PlansStayAnswered == PlanInit /\ [][PlanNext]_planVars => []PlanIsAnswered
BY PlanInvInit, PlanInvStep, PlanInvImplies, PTL
=============================================================================
