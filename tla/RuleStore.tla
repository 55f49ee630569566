------------------------------ MODULE RuleStore ------------------------------
(***************************************************************************)
(* The rules of the NL2SQL agent: a local file per data source, knowledge  *)
(* bases (KB) in the rag service, and three places that say which KB is a  *)
(* data source's: datasources.yaml, the runtime settings, and a default.   *)
(* The calls of one server process run in one event loop: they interleave  *)
(* where they await the rag service.  A crash may come between two of the  *)
(* three files that bind a data source.  Commands of a second process that *)
(* write the same files at the same time are left out.  A member of Calls  *)
(* is one call: it runs once.                                              *)
(***************************************************************************)
EXTENDS Naturals, FiniteSets

CONSTANTS Sources, Rules, Calls, KBs,
          NoKB, NoCallOf       \* model values

ASSUME RuleStoreAssumption == NoKB \notin KBs /\ NoCallOf \notin Sources

VARIABLES local,      \* the rules file of each data source
          kb,         \* what each KB that exists holds: pairs of a source and a rule
          bound,      \* rules_kb_id in datasources.yaml
          mapped,     \* rules_kb_by_datasource in the runtime settings
          default,    \* rag_kb_id, default_kb_id
          call,       \* the calls in progress
          reported,   \* history: the rules last reported as synced
          disturbed   \* history: sources whose calls overlapped, crashed, or
                      \* used a KB that no file binds to them

rulVars == <<local, kb, bound, mapped, default, call, reported, disturbed>>

Idle == [of |-> NoCallOf, pc |-> "idle", kb |-> NoKB, todo |-> {}, ok |-> {},
         recreate |-> FALSE, persist |-> FALSE, sync |-> FALSE]
Done == [Idle EXCEPT !.pc = "done"]

RulInit ==
  /\ local = [d \in Sources |-> {}] /\ kb = [k \in {} |-> {}]
  /\ bound = [d \in Sources |-> NoKB] /\ mapped = bound /\ default = NoKB
  /\ call = [c \in Calls |-> Idle]
  /\ reported = [d \in Sources |-> {}] /\ disturbed = {}

\* Mutant: the default comes before the data source's own.
ResolveDefault(d) == IF default # NoKB THEN default ELSE IF bound[d] # NoKB THEN bound[d] ELSE mapped[d]

\* resolve_kb_id
Resolve(d) == IF bound[d] # NoKB THEN bound[d] ELSE IF mapped[d] # NoKB THEN mapped[d] ELSE default

\* search: the rules of the data source in its KB, when the service answers.
Found(d) == IF Resolve(d) \in DOMAIN kb THEN {r \in Rules : <<d, r>> \in kb[Resolve(d)]} ELSE {}

Busy(d) == {c \in Calls : call[c].of = d /\ call[c].pc \notin {"idle", "done"}}

\* A second call on a data source while one is in progress.
Overlaps(d) == IF Busy(d) # {} THEN {d} ELSE {}

Fresh == {k \in KBs : k \notin DOMAIN kb}

-----------------------------------------------------------------------------
\* upsert, bootstrap: the local file only.
Upsert(d, r) ==
  /\ local' = [local EXCEPT ![d] = @ \cup {r}]
  /\ UNCHANGED <<kb, bound, mapped, default, call, reported, disturbed>>

Bootstrap(d, rs) ==
  /\ local' = [local EXCEPT ![d] = rs]
  /\ UNCHANGED <<kb, bound, mapped, default, call, reported, disturbed>>

\* save_settings: the default KB is whatever the form holds.
SaveSettings ==
  /\ \E k \in DOMAIN kb \cup {NoKB} : default' = k
  /\ disturbed' = disturbed \cup {d \in Sources : bound[d] = NoKB /\ mapped[d] = NoKB}
  /\ UNCHANGED <<local, kb, bound, mapped, call, reported>>

\* commit_bundle: the bundle replaces the local file, then sync_to_rag.
Commit(c, d, rs, recreate, persist) ==
  /\ call[c] = Idle /\ rs # {}
  /\ local' = [local EXCEPT ![d] = rs]
  /\ call' = [call EXCEPT ![c] = [Idle EXCEPT !.of = d, !.pc = "kb", !.recreate = recreate,
                                              !.persist = persist, !.sync = TRUE]]
  /\ disturbed' = disturbed \cup Overlaps(d)
  /\ UNCHANGED <<kb, bound, mapped, default, reported>>

\* rules_import: local first; with no KB at all it becomes a sync.
Import(c, d, rs) ==
  /\ call[c] = Idle /\ rs # {}
  /\ local' = [local EXCEPT ![d] = @ \cup rs]
  /\ call' = [call EXCEPT ![c] =
       IF Resolve(d) = NoKB
         THEN [Idle EXCEPT !.of = d, !.pc = "kb", !.recreate = TRUE, !.persist = TRUE, !.sync = TRUE]
         ELSE [Idle EXCEPT !.of = d, !.pc = "upsert", !.kb = Resolve(d), !.todo = rs]]
  /\ disturbed' = disturbed \cup Overlaps(d)
                  \cup (IF bound[d] = NoKB /\ mapped[d] = NoKB /\ default # NoKB THEN {d} ELSE {})
  /\ UNCHANGED <<kb, bound, mapped, default, reported>>

\* sync_to_rag: a new KB, or the resolved one, or the one of that name; the
\* rules are read only then.  A failure ends the call.
TakeKB(c) ==
  LET x == call[c]  d == x.of IN
  /\ x.pc = "kb"
  /\ \/ /\ call' = [call EXCEPT ![c] = Done] /\ UNCHANGED <<kb, reported>>
     \/ \E k \in IF x.recreate \/ Resolve(d) = NoKB THEN Fresh ELSE {Resolve(d)} :
          /\ kb' = [j \in DOMAIN kb \cup {k} |-> IF j \in DOMAIN kb THEN kb[j] ELSE {}]
          /\ call' = [call EXCEPT ![c] = [x EXCEPT !.pc = "upsert", !.kb = k, !.todo = local[d]]]
          /\ UNCHANGED reported
  /\ UNCHANGED <<local, bound, mapped, default, disturbed>>

\* upsert_rule: each rule may fail by itself.
UpsertRule(c) ==
  LET x == call[c] IN
  /\ x.pc = "upsert"
  /\ \E r \in x.todo :
       \/ /\ kb' = IF x.kb \in DOMAIN kb THEN [kb EXCEPT ![x.kb] = @ \cup {<<x.of, r>>}] ELSE kb
          /\ call' = [call EXCEPT ![c] = [x EXCEPT !.todo = @ \ {r}, !.ok = @ \cup {r}]]
       \/ /\ call' = [call EXCEPT ![c] = [x EXCEPT !.todo = @ \ {r}]]
          /\ UNCHANGED kb
  /\ UNCHANGED <<local, bound, mapped, default, reported, disturbed>>

\* _persist_kb_id writes the default, datasources.yaml and the settings.
Bind(x, files) ==
  /\ default' = IF "default" \in files THEN x.kb ELSE default
  /\ bound'   = IF "sources" \in files THEN [bound EXCEPT ![x.of] = x.kb] ELSE bound
  /\ mapped'  = IF "runtime" \in files THEN [mapped EXCEPT ![x.of] = x.kb] ELSE mapped

Loose(files) == {d \in Sources : "default" \in files /\ bound[d] = NoKB /\ mapped[d] = NoKB}

\* The end of a call: what it reports as synced; a sync replaces what was
\* reported before, an import adds to it.
Report(c) ==
  LET x == call[c]
      files == IF x.sync /\ x.persist THEN {"default", "sources", "runtime"} ELSE {}
  IN
  /\ x.pc = "upsert" /\ x.todo = {}
  /\ Bind(x, files)
  /\ reported' = [reported EXCEPT ![x.of] = IF x.sync THEN x.ok ELSE @ \cup x.ok]
  /\ call' = [call EXCEPT ![c] = Done]
  /\ disturbed' = disturbed \cup (Loose(files) \ {x.of})
                  \cup (IF x.sync /\ ~x.persist THEN {x.of} ELSE {})
  /\ UNCHANGED <<local, kb>>

\* The process is killed, perhaps between two of the three files.
Crash ==
  /\ \E c \in Calls : call[c].pc = "upsert"
  /\ \E c \in Calls : \E files \in {{}, {"default"}, {"default", "sources"}} :
       /\ call[c].pc = "upsert" /\ (files # {} => call[c].todo = {} /\ call[c].sync /\ call[c].persist)
       /\ Bind(call[c], files)
       /\ disturbed' = disturbed \cup Loose(files) \cup {call[b].of : b \in {a \in Calls : call[a].pc \notin {"idle", "done"}}}
  /\ call' = [c \in Calls |-> IF call[c] = Idle THEN Idle ELSE Done]
  /\ UNCHANGED <<local, kb, reported>>

RulNext ==
  \/ \E d \in Sources : \/ \E r \in Rules : Upsert(d, r)
                        \/ \E rs \in SUBSET Rules : Bootstrap(d, rs)
  \/ SaveSettings \/ Crash
  \/ \E c \in Calls : \/ \E d \in Sources, rs \in SUBSET Rules :
                           \/ \E recreate, persist \in BOOLEAN : Commit(c, d, rs, recreate, persist)
                           \/ Import(c, d, rs)
                      \/ TakeKB(c) \/ UpsertRule(c) \/ Report(c)

-----------------------------------------------------------------------------
(***************************************************************************)
(* What the last report on a data source called synced is found by a       *)
(* search of that data source, whatever calls on other data sources do,    *)
(* unless calls on it overlapped or crashed, or its KB is not bound to it; *)
(* also while a call is in progress on it.                                 *)
(***************************************************************************)
ReportedIsFound ==
  \A d \in Sources : d \notin disturbed => reported[d] \subseteq Found(d)
=============================================================================
