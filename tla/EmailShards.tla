------------------------------ MODULE EmailShards ------------------------------
(***************************************************************************)
(* The mailing list dataset of kernel-dataset-agent                        *)
(* (collectors/linux-email.mjs): parts of an archive, of which only the    *)
(* newest still grows, are copied page by page into numbered batches, each *)
(* with its pages, a manifest, the parts it finished and the pages that    *)
(* are gone upstream.  A round may die at any step; files stay.            *)
(***************************************************************************)
EXTENDS Integers, Sequences, FiniteSets, SequencesExt, FiniteSetsExt

CONSTANTS MaxParts,       \* bound: parts of the archive, numbered by age
          PartPages,      \* bound: pages of a part
          Batches,        \* bound: batch numbers 1..Batches
          MaxBatchFiles,  \* records after which a batch is full
          PartsPerCycle,
          Recent          \* the oldest part taken when nothing is on disk

ASSUME EmailAssumption == {MaxParts, PartPages, Batches, MaxBatchFiles, PartsPerCycle, Recent} \subseteq Nat \ {0}

Parts == 1..MaxParts
VARIABLES emUp,       \* part -> pages it has upstream, 0 while it does not exist
          emDisk,     \* batch -> what lies in its directory
          emState,    \* state.email of the dataset: [batch, files], 0 for none
          emRound,    \* the round under way, volatile
          emOrphans   \* history: pages written by a round that died before listing them
emVars == <<emUp, emDisk, emState, emRound, emOrphans>>

NoBatch == [made |-> FALSE, raw |-> {}, lines |-> {}, done |-> {}, failed |-> {}]
NoRound == [at |-> "idle", active |-> 0, files |-> 0, growing |-> 0, targets |-> {},
            owners |-> [p \in Parts |-> 0], index |-> {}, fresh |-> {}, known |-> {}, records |-> {}]
EmInit == /\ emUp = [p \in Parts |-> IF p = 1 THEN 1 ELSE 0]
          /\ emDisk = [b \in 1..Batches |-> NoBatch]
          /\ emState = [batch |-> 0, files |-> 0]
          /\ emRound = NoRound /\ emOrphans = {}

(* Mail goes to the newest part, until the next one is opened.               *)
Newest == Max({p \in Parts : emUp[p] > 0})
Mail == /\ emUp[Newest] < PartPages
        /\ emUp' = [emUp EXCEPT ![Newest] = @ + 1]
        /\ UNCHANGED <<emDisk, emState, emRound, emOrphans>>
OpenNextPart == /\ Newest < MaxParts
                /\ emUp' = [emUp EXCEPT ![Newest + 1] = 1]
                /\ UNCHANGED <<emDisk, emState, emRound, emOrphans>>

Made == {b \in 1..Batches : emDisk[b].made}
PartsOf(b) == {page[1] : page \in emDisk[b].raw}
OwnerOf(p) == Max({0} \cup {b \in Made : p \in PartsOf(b)})   \* the last batch listed wins
PagesOf(b, p) == IF b = 0 THEN {} ELSE {page \in emDisk[b].raw : page[1] = p}

(* The parts not on disk yet, and the newest; nothing older than the oldest  *)
(* part of the active batch, at most PartsPerCycle, the newest among them.   *)
(* They are visited from the oldest on.                                      *)
Targets(active, owners) ==
  LET covered == {p \in Parts : owners[p] # 0}
      here    == PartsOf(active)
      floor   == IF here # {} THEN Min(here) ELSE IF covered # {} THEN Max(covered) ELSE Recent
      wanted  == {p \in 1..Newest : (p \notin covered \/ p = Newest) /\ p >= floor}
      first   == {p \in wanted : Cardinality({q \in wanted : q < p}) < PartsPerCycle}
  IN  IF Newest \in first \/ Newest \notin wanted THEN first ELSE (first \ {Max(first)}) \cup {Newest}

Counted(n) == Min({n, MaxBatchFiles})   \* only "full or not" matters
StartCycle(reached) ==
  LET first  == IF Made = {} THEN [emDisk EXCEPT ![1].made = TRUE] ELSE emDisk
      active == IF emState.batch \in Made THEN emState.batch ELSE Max(Made \cup {1})
      owners == [p \in Parts |-> OwnerOf(p)]
  IN  /\ emRound.at = "idle"
      /\ emDisk' = first
      /\ emRound' = IF ~reached THEN NoRound
                    ELSE [NoRound EXCEPT !.at = "part", !.active = active, !.growing = Newest, !.owners = owners,
                            !.files = IF emState.batch = active THEN emState.files ELSE Counted(Cardinality(emDisk[active].lines)),
                            !.targets = Targets(active, owners)]
      /\ UNCHANGED <<emUp, emState, emOrphans>>

(* The index of the next part: which pages are there and which to fetch.     *)
NextPart == Min(emRound.targets)
Owner(p) == IF emRound.owners[p] = 0 THEN emRound.active ELSE emRound.owners[p]
OpenPart(reached) ==
  LET p == NextPart
      index == {<<p, n>> : n \in 1..emUp[p]}
      known == PagesOf(Owner(p), p) \cup {page \in emDisk[emRound.active].failed : page[1] = p}
  IN  /\ emRound.at = "part" /\ emRound.targets # {}
      /\ emRound' = IF ~reached THEN [emRound EXCEPT !.targets = @ \ {p}]
                    ELSE [emRound EXCEPT !.at = "page", !.index = index, !.known = known, !.records = {},
                            !.fresh = index \ known]
      /\ UNCHANGED <<emUp, emDisk, emState, emOrphans>>

FirstOf(pages) == CHOOSE page \in pages : \A other \in pages : page[2] <= other[2]
Fetched(page) == /\ emDisk' = [emDisk EXCEPT ![emRound.active].raw = @ \cup {page}]
                 /\ emRound' = [emRound EXCEPT !.fresh = @ \ {page}, !.known = @ \cup {page}, !.records = @ \cup {page}]
PageGone(page) == /\ emDisk' = [emDisk EXCEPT ![emRound.active].failed = @ \cup {page}]
                  /\ emRound' = [emRound EXCEPT !.fresh = @ \ {page}, !.known = @ \cup {page}]
\* mutant: a page that could not be fetched counts as had
PageLostKnown(page) == emRound' = [emRound EXCEPT !.fresh = @ \ {page}, !.known = @ \cup {page}] /\ UNCHANGED emDisk
PageLost(page) == emRound' = [emRound EXCEPT !.fresh = @ \ {page}] /\ UNCHANGED emDisk
FetchMail ==
  /\ emRound.at = "page" /\ emRound.fresh # {}
  /\ LET page == FirstOf(emRound.fresh) IN Fetched(page) \/ PageGone(page) \/ PageLost(page)
  /\ UNCHANGED <<emUp, emState, emOrphans>>

(* The part's records go to the manifest in one append; a whole part that no *)
(* longer grows is done, and a full batch then gives way to the next number. *)
Appended(d) == [d EXCEPT ![emRound.active].lines = @ \cup emRound.records]
ClosePart ==
  LET p     == NextPart
      files == Counted(emRound.files + Cardinality(emRound.records))
      done  == emRound.index \subseteq emRound.known /\ p # emRound.growing
      full  == done /\ files >= MaxBatchFiles
      next  == Max(Made) + 1
      disk  == IF done THEN [Appended(emDisk) EXCEPT ![emRound.active].done = @ \cup {p}] ELSE Appended(emDisk)
  IN  /\ emRound.at = "page" /\ emRound.fresh = {} /\ (full => next <= Batches)
      /\ emDisk' = IF full THEN [disk EXCEPT ![next].made = TRUE] ELSE disk
      /\ emRound' = [emRound EXCEPT !.at = "part", !.targets = @ \ {p}, !.index = {}, !.known = {}, !.records = {},
                       !.active = IF full THEN next ELSE @, !.files = IF full THEN 0 ELSE files]
      /\ UNCHANGED <<emUp, emState, emOrphans>>

EndCycle == /\ emRound.at = "part" /\ emRound.targets = {}
            /\ emState' = [batch |-> emRound.active, files |-> emRound.files]
            /\ emRound' = NoRound /\ UNCHANGED <<emUp, emDisk, emOrphans>>
CrashCycle == /\ emRound.at # "idle"
              /\ emOrphans' = emOrphans \cup emRound.records
              /\ emRound' = NoRound /\ UNCHANGED <<emUp, emDisk, emState>>

EmNext == \/ Mail \/ OpenNextPart \/ FetchMail \/ ClosePart \/ EndCycle \/ CrashCycle
          \/ \E reached \in BOOLEAN : StartCycle(reached) \/ OpenPart(reached)

(* done_parts tells the truth: every page a done part has upstream is on     *)
(* disk or recorded as gone, in whichever batch, although requests fail,     *)
(* rounds die, batches switch and the newest part grows meanwhile.           *)
DoneIsWhole == \A b \in Made : \A p \in emDisk[b].done : \A n \in 1..emUp[p] :
                 \E c \in Made : <<p, n>> \in emDisk[c].raw \cup emDisk[c].failed
(* Every page on disk has its manifest line, but for the part being fetched  *)
(* and for pages of a round that was killed before the append: no later      *)
(* round adds those.                                                         *)
PagesAreListed == \A b \in Made : emDisk[b].raw \ emDisk[b].lines \subseteq emRound.records \cup emOrphans
(* Both: what the batch records say of its files is so.                      *)
BatchesAreListed == DoneIsWhole /\ PagesAreListed
(* linux-email.mjs:10-11: batches switch only at a part boundary, so a part  *)
(* is never spread over two batches.                                         *)
PartInOneBatch == \A p \in Parts : Cardinality({b \in Made : p \in PartsOf(b)}) <= 1
=============================================================================
