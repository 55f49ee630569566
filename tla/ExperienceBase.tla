---------------------------- MODULE ExperienceBase ----------------------------
(***************************************************************************)
(* The experience base of openeuler-ops (experience-skill): skills and     *)
(* wikis in one SQLite file, used by commands of the command line, by the  *)
(* agent's scripts and by the web server, each one a process of its own.   *)
(*                                                                         *)
(* Every statement commits by itself (db.run), and one that fails reports  *)
(* False to callers that ignore it; a command may be killed between two    *)
(* statements.  A command reads what it decides on in its first step and   *)
(* leaves the statements still to be run as its job.                       *)
(*                                                                         *)
(* A description is the set of experiences whose text is in it; the one    *)
(* keyword of an experience stands for all it was added with.  What a full *)
(* text query matches is a choice, and so is which of the hot experiences  *)
(* is the oldest: times are kept in seconds.                               *)
(***************************************************************************)
EXTENDS Integers, FiniteSets, SequencesExt

CONSTANTS
  Callers,      \* processes that may run a command at the same time
  Rows,         \* identifiers of experiences, in the order they are drawn
  Sources,      \* files and directories an experience is registered for
  TypeOf,       \* source -> "SKILL" or "WIKI", by the hub it lies in
  HotLimit,     \* HOT_EXPRINCE_CNT_LIMIT
  ResultLimit,  \* experiences one search returns (top_k)
  MaxFailed     \* bound: statements that fail in a behaviour

ASSUME ExperienceAssumption ==
  IsFiniteSet(Rows) /\ Rows \subseteq Nat /\ HotLimit \in Nat \ {0}

VARIABLES
  exps,     \* row -> its fields, status "none" when there is no such row
  keyed,    \* rows of the keyword table: the experiences they name
  job,      \* caller -> the statements its command has still to run
  edited,   \* experiences whose keywords a command was to replace
  dropped,  \* experiences a delete command named
  shown,    \* what the search of the last step returned
  failed    \* statements that failed so far

ebVars == <<exps, keyed, job, edited, dropped, shown, failed>>

NoRow == [status |-> "none", source |-> "", hot |-> FALSE, text |-> {}]

EbInit ==
  /\ exps = [r \in Rows |-> NoRow]
  /\ keyed = {} /\ edited = {} /\ dropped = {} /\ shown = {} /\ failed = 0
  /\ job = [c \in Callers |-> <<>>]

Live == {r \in Rows : exps[r].status = "existed"}
RowsOf(type) == {r \in Rows : exps[r].status # "none" /\ TypeOf[exps[r].source] = type}
HotOf(type) == {r \in Live \cap RowsOf(type) : exps[r].hot}

Statement(do, row) == [do |-> do, row |-> row]
Write(row, e) == [do |-> "write", row |-> row, fields |-> e]
Does(c, statements) == job' = [job EXCEPT ![c] = statements]
Quiet == shown' = {}

-----------------------------------------------------------------------------
(* Commands.  The check of the source, the rows to merge or to change are  *)
(* read here; what is written depends on nothing read later.               *)

\* A row no table and no command knows yet.
Fresh ==
  {r \in Rows : /\ exps[r].status = "none" /\ r \notin keyed
                /\ \A c \in Callers : \A i \in DOMAIN job[c] :
                     job[c][i].do \in {"key", "write"} => job[c][i].row # r}

\* add_experiences: the keywords first, then the row.
Adds(r, s) ==
  <<Statement("key", r),
    Write(r, [status |-> "existed", source |-> s, hot |-> FALSE, text |-> {r}])>>

\* A source is registered once: any row that exists with it refuses a second.
AddExperience(c) ==
  /\ job[c] = <<>> /\ Fresh # {}
  /\ \E s \in Sources :
       /\ \A r \in Live : exps[r].source # s
       /\ Does(c, Adds(CHOOSE r \in Fresh : \A q \in Fresh : r <= q, s))
  /\ Quiet /\ UNCHANGED <<exps, keyed, edited, dropped, failed>>

Removes(S) ==
  LET list == SetToSeq(S) IN
  <<[do |-> "remove", row |-> S]>> \o
  [i \in 1..Cardinality(S) |-> Statement("clear", list[i])]

\* delete_experience_by_ids and _by_source: rows stay, marked as deleted.
DeleteExperiences(c) ==
  /\ job[c] = <<>>
  /\ \E S \in (SUBSET Rows) \ {{}} :
       /\ \/ \A r \in S : exps[r].status # "none"
          \/ \E s \in Sources : S = {r \in Live : exps[r].source = s}
       /\ Does(c, Removes(S)) /\ dropped' = dropped \cup S
  /\ Quiet /\ UNCHANGED <<exps, keyed, edited, failed>>

\* A mutant: the merged experiences go first.
MergesRemoveFirst(base, S, e) == Removes(S) \o <<Write(base, e), Statement("clear", base)>>

\* merge_experiences: the base gets the descriptions; its keywords are
\* replaced by those of the rows read, and a row read has none.
MergesInto(base, S, e) == <<Write(base, e), Statement("clear", base)>> \o Removes(S)

\* Experiences not found are passed over, two must be there, of one type.
MergeExperiences(c) ==
  /\ job[c] = <<>>
  /\ \E base \in Live, S \in (SUBSET Rows) \ {{}} :
       /\ base \notin S
       /\ S \cap Live # {}
       /\ S \cap Live \subseteq RowsOf(TypeOf[exps[base].source])
       /\ \A r \in S : exps[r].status # "none"
       /\ LET text == exps[base].text \cup UNION {exps[r].text : r \in S \cap Live}
          IN  Does(c, MergesInto(base, S, [exps[base] EXCEPT !.text = text]))
       /\ edited' = edited \cup {base}
  /\ Quiet /\ UNCHANGED <<exps, keyed, dropped, failed>>

\* optimize_experience: the row is written back as it was read, but for the
\* name or with a description that says the same; keywords when given.
OptimizeExperience(c) ==
  /\ job[c] = <<>>
  /\ \E r \in Live, keys \in BOOLEAN :
       /\ Does(c, <<Write(r, exps[r])>> \o
                  (IF keys THEN <<Statement("clear", r), Statement("key", r)>> ELSE <<>>))
       /\ edited' = IF keys THEN edited \cup {r} ELSE edited
  /\ Quiet /\ UNCHANGED <<exps, keyed, dropped, failed>>

\* query_experience_by_fts5_use_description: the tight query, then the loose
\* one for what is missing, never one twice.  Rows marked as deleted are not
\* left out; with fields, a row needs one of them as a keyword.
Found(type, fields) ==
  {S \in SUBSET RowsOf(type) :
     Cardinality(S) <= ResultLimit /\ (fields => S \subseteq keyed)}

\* The experiences whose file contains the query, of those that exist: one
\* row per source.
FoundInFiles(type) ==
  {S \in SUBSET (Live \cap RowsOf(type)) :
     \A q, r \in S : exps[q].source = exps[r].source => q = r}

\* search_experiences, and search_with_content, which adds what only the
\* files contain, the field filter forgotten, and keeps the best.  Each row
\* the metadata search found is then heated.
SearchExperiences(c) ==
  /\ job[c] = <<>>
  /\ \E type \in {"SKILL", "WIKI"}, fields, content \in BOOLEAN :
     \E S \in Found(type, fields) :
     \E F \in IF content THEN FoundInFiles(type) ELSE {{}} :
       /\ Cardinality(S \cup F) <= ResultLimit
       /\ shown' = S \cup F
       /\ LET list == SetToSeq(S)
          IN  Does(c, [i \in DOMAIN list |-> Statement("heat", list[i])])
  /\ UNCHANGED <<exps, keyed, edited, dropped, failed>>

-----------------------------------------------------------------------------
(* Statements                                                              *)

\* update_hot_experience, of a row not yet hot.
Heats(r, full) ==
  IF full THEN <<Statement("cool", r), Statement("hot", r)>> ELSE <<Statement("hot", r)>>

\* The two reads of update_hot_experience decide on the statements to come.
DecideHot(c) ==
  /\ job[c] # <<>> /\ Head(job[c]).do \in {"heat", "count"}
  /\ LET r    == Head(job[c]).row
         type == TypeOf[exps[r].source]
         full == Cardinality(HotOf(type)) >= HotLimit
     IN  Does(c, IF Head(job[c]).do = "count" THEN Heats(r, full) \o Tail(job[c])
                 ELSE IF r \in Live /\ ~exps[r].hot
                 THEN <<Statement("count", r)>> \o Tail(job[c])
                 ELSE Tail(job[c]))
  /\ Quiet /\ UNCHANGED <<exps, keyed, edited, dropped, failed>>

\* An update does not write is_hot.
Written(r, e) == [e EXCEPT !.hot = exps[r].hot]

RunStatement(c) ==
  /\ job[c] # <<>> /\ Head(job[c]).do \notin {"heat", "count"}
  /\ Does(c, Tail(job[c]))
  /\ LET w == Head(job[c]) IN
     /\ \/ w.do = "write" /\ exps' = [exps EXCEPT ![w.row] = Written(w.row, w.fields)]
        \/ /\ w.do = "remove"
           /\ exps' = [r \in Rows |-> IF r \in w.row /\ exps[r].status # "none"
                                      THEN [exps[r] EXCEPT !.status = "deleted"]
                                      ELSE exps[r]]
        \/ w.do = "hot" /\ exps' = [exps EXCEPT ![w.row].hot = TRUE]
        \/ /\ w.do = "cool"
           /\ LET hot == HotOf(TypeOf[exps[w.row].source]) IN
              IF hot = {} THEN UNCHANGED exps
              ELSE \E r \in hot : exps' = [exps EXCEPT ![r].hot = FALSE]
        \/ w.do \in {"key", "clear"} /\ UNCHANGED exps
     /\ keyed' = IF w.do = "key" THEN keyed \cup {w.row}
                 ELSE IF w.do = "clear" THEN keyed \ {w.row} ELSE keyed
  /\ Quiet /\ UNCHANGED <<edited, dropped, failed>>

\* run returns False, and the command goes on.
FailStatement(c) ==
  /\ job[c] # <<>> /\ Head(job[c]).do \notin {"heat", "count"}
  /\ failed < MaxFailed /\ failed' = failed + 1
  /\ Does(c, Tail(job[c]))
  /\ Quiet /\ UNCHANGED <<exps, keyed, edited, dropped>>

\* The process is killed, or the web server is stopped.
Kill(c) ==
  /\ job[c] # <<>> /\ Does(c, <<>>)
  /\ Quiet /\ UNCHANGED <<exps, keyed, edited, dropped, failed>>

\* delete-all takes the file away, under whoever else has it open.
DeleteAll(c) ==
  /\ job[c] = <<>> /\ \A d \in Callers : job[d] = <<>>
  /\ exps' = [r \in Rows |-> NoRow] /\ keyed' = {} /\ edited' = {}
  /\ dropped' = {} /\ Quiet
  /\ UNCHANGED <<job, failed>>

EbNext ==
  \E c \in Callers :
    \/ AddExperience(c) \/ DeleteExperiences(c) \/ MergeExperiences(c)
    \/ OptimizeExperience(c) \/ SearchExperiences(c)
    \/ DecideHot(c) \/ RunStatement(c) \/ FailStatement(c) \/ Kill(c) \/ DeleteAll(c)

-----------------------------------------------------------------------------
\* "At most 20 are kept hot" (experience_manager.py:100), wherever a command
\* is killed: one is cooled before another is made hot.  A statement that
\* failed may leave one more, for good.
HotWithinLimit ==
  \A type \in {"SKILL", "WIKI"} : Cardinality(HotOf(type)) <= HotLimit + failed

\* The text of an experience that was merged away is in another one, wherever
\* the merge was killed: only a delete may lose text.
TextSurvivesMerge ==
  failed = 0 =>
    \A r \in Rows : exps[r].status = "deleted" /\ r \notin dropped =>
      \E q \in Rows \ {r} : r \in exps[q].text

\* An experience that exists has its keywords from the moment it can be
\* found, unless a command was to replace them.
AddedHasKeywords == failed = 0 => Live \subseteq keyed \cup edited

\* All three: what a command that is killed or fails half way leaves behind.
KillLosesNothing == HotWithinLimit /\ TextSurvivesMerge /\ AddedHasKeywords

\* "Absorbs the keywords and descriptions of merge_ids" (the docstring of
\* merge_experiences, experience_service.py:207): the base keeps keywords.
MergeKeepsKeywords ==
  \A r \in Live : (/\ Cardinality(exps[r].text) > 1
                   /\ \A c \in Callers : job[c] = <<>>) => r \in keyed

\* A deleted experience is not found.
DeletedNotFound == \A r \in shown : exps[r].status = "existed"
=============================================================================
