----------------------------- MODULE CrashFeatures -----------------------------
(***************************************************************************)
(* What crash_matcher takes from the material of a crash: from a kernel    *)
(* log (parse_dmesg), from the stacks the crash utility prints             *)
(* (run_crash_analysis), and the analysis chain built from either          *)
(* (build_analysis_chain).                                                 *)
(*                                                                         *)
(* A log line has a kind and the number of the crash report it belongs to; *)
(* a report begins with its bug line.  A log may hold several reports (a   *)
(* warning, then the crash), reports may lack lines.  Windows are counted  *)
(* in lines, as in the code, with smaller numbers.                         *)
(***************************************************************************)
EXTENDS Integers, FiniteSets, Sequences, SequencesExt

CONSTANTS
  MaxLines,     \* lines of a log
  RipWindow,    \* lines after the bug line searched for RIP (10)
  TraceWindow,  \* lines after the bug line searched for the call trace (100)
  OomWindow,    \* lines before a bug line searched for the OOM killer (50)
  Back,         \* lines before the bug line in the substitute trace (2)
  CropMin,      \* lines the time window must leave (5)
  Functions,    \* names of kernel functions
  Freeing,      \* those of FREE_FUNCS
  Writing,      \* those with a name of _WRITE_HINTS
  Times,        \* time stamps
  MaxFrames     \* frames of a stack, events of a timeline

NoTime == 0 - 1
NoFunction == "none"

ASSUME FeaturesAssumption ==
  /\ {MaxLines, RipWindow, TraceWindow, OomWindow, Back, CropMin, MaxFrames} \subseteq Nat
  /\ Times \subseteq Nat /\ NoFunction \notin Functions

Kinds == {"oom", "bug", "rip", "user", "call", "frame", "text"}

VARIABLES
  cfAt,      \* what is being read, then what was extracted
  lines,     \* the log read so far, then its lines in the window
  feature,   \* what was extracted
  chain      \* the analysis chain

cfVars == <<cfAt, lines, feature, chain>>

NoFeature == [bug |-> 0, rip |-> 0, frames |-> {}, cpu |-> FALSE]
NoChain == [events |-> <<>>, timeline |-> <<>>, stack |-> <<>>,
            rip |-> NoFunction, null |-> FALSE, edges |-> <<>>, clues |-> <<>>]

CfInit ==
  /\ cfAt = "start" /\ lines = <<>>
  /\ feature = NoFeature /\ chain = NoChain

Reports == Cardinality({i \in DOMAIN lines : lines[i].kind = "bug"})

\* A kernel log, a stack listing of the crash utility, or the features of an
\* earlier call are given.
Given ==
  /\ cfAt = "start" /\ cfAt' \in {"log", "stacks", "features"}
  /\ UNCHANGED <<lines, feature, chain>>

ReadLine ==
  /\ cfAt = "log" /\ Len(lines) < MaxLines
  /\ \E k \in Kinds :
       lines' = Append(lines, [kind |-> k,
                               report |-> Reports + IF k = "bug" THEN 1 ELSE 0])
  /\ UNCHANGED <<cfAt, feature, chain>>

\* _crop_by_time: lines from cut on lie in the window; lines with no stamp
\* are lost with the older ones unless too few would stay.  A report begins
\* with a stamp, its other lines may have none.
WithLine(kept, in, i) == IF i \in in THEN Append(kept, lines[i]) ELSE kept
LinesIn(in) ==
  LET kept[i \in 0..Len(lines)] == IF i = 0 THEN <<>> ELSE WithLine(kept[i - 1], in, i)
  IN  kept[Len(lines)]
Cropped(cut, bare) ==
  LET in == {i \in DOMAIN lines : i >= cut /\ i \notin bare}
  IN  IF Cardinality(in) >= CropMin THEN LinesIn(in) ELSE lines

Crop ==
  /\ cfAt = "log" /\ lines # <<>> /\ cfAt' = "cropped"
  /\ \E cut \in DOMAIN lines, 
        bare \in {{}} \cup {{i} : i \in {i \in DOMAIN lines : lines[i].kind # "bug"}} :
       lines' = Cropped(cut, bare)
  /\ UNCHANGED <<feature, chain>>

-----------------------------------------------------------------------------
(* parse_dmesg                                                             *)

Of(i, kinds) == lines[i].kind \in kinds
FirstIn(from, to, kinds) ==
  LET S == {i \in DOMAIN lines : i >= from /\ i <= to /\ Of(i, kinds)}
  IN  IF S = {} THEN 0 ELSE CHOOSE i \in S : \A j \in S : i <= j

OomContext(i) == \E j \in DOMAIN lines : j >= i - OomWindow /\ j <= i /\ Of(j, {"oom"})

\* _find_bug_key
BugIndex ==
  LET S == {i \in DOMAIN lines : Of(i, {"bug"}) /\ ~OomContext(i)}
  IN  IF S = {} THEN 0 ELSE CHOOSE i \in S : \A j \in S : i <= j

\* A mutant: lines are searched from the beginning of the log.
StartTop == 1

\* Where RIP and the call trace are searched from.
Start == IF BugIndex = 0 THEN 1 ELSE BugIndex

\* _parse_rip: the first RIP line decides; one of user space ends the search.
RipIndex ==
  LET i == FirstIn(Start, Start + RipWindow - 1, {"rip", "user"})
  IN  IF i # 0 /\ Of(i, {"rip"}) THEN i ELSE 0

\* The lines of a call trace that begins at line i: those with an offset.
HasOffset(i) == Of(i, {"frame", "rip"})
Block(i) ==
  {j \in DOMAIN lines : j > i /\ \A k \in (i + 1)..j : HasOffset(k) \/ Of(k, {"call"})}

\* _parse_calltrace_text, else the substitute around the bug line, in which
\* parse_calltrace_functions looks for call traces of its own.
TraceLines ==
  LET i == FirstIn(Start, Start + TraceWindow - 1, {"call"})
      b == IF BugIndex = 0 THEN 1 ELSE BugIndex
      j == FirstIn(b - Back, b + TraceWindow, {"call"})
  IN  IF i # 0 THEN Block(i) ELSE IF j # 0 THEN Block(j) ELSE {}

Dmesg ==
  /\ cfAt = "cropped" /\ cfAt' = "dmesg"
  /\ feature' =
       [bug    |-> IF BugIndex = 0 THEN 0 ELSE lines[BugIndex].report,
        rip    |-> IF RipIndex = 0 THEN 0 ELSE lines[RipIndex].report,
        frames |-> {lines[j].report : j \in {j \in TraceLines : HasOffset(j)}},
        cpu    |-> FALSE]
  /\ UNCHANGED <<lines, chain>>

\* A hardware error anywhere in the log ends the analysis.
Hardware ==
  /\ cfAt = "log" /\ lines # <<>> /\ cfAt' = "hardware"
  /\ lines' = <<>>
  /\ UNCHANGED <<feature, chain>>

-----------------------------------------------------------------------------
(* run_crash_analysis.  Process 1 is the one that crashed.                 *)

\* Every exception frame of bt sets RIP: the last one stays.
ExceptionRip(rips) == IF rips = <<>> THEN 0 ELSE Last(rips)

\* _parse_bta: when bt gave no function, every frame of bt -a is taken; what
\* a process header skips is only the header.
StackFrames(bt, others) ==
  IF bt = "frames" THEN {1} ELSE others

\* The CPU is never read: crash_cpu is -1 at first, which is not "not set".
Stacks ==
  /\ cfAt = "stacks" /\ cfAt' = "vmcore"
  /\ \E bt \in {"empty", "quiet", "frames"}, others \in SUBSET {1, 2} :
     \E rips \in {<<>>, <<1>>, <<2, 1>>} :
       feature' = [bug    |-> 1,
                   rip    |-> IF bt = "empty" THEN 0 ELSE ExceptionRip(rips),
                   frames |-> StackFrames(bt, others),
                   cpu    |-> FALSE]
  /\ UNCHANGED <<lines, chain>>

-----------------------------------------------------------------------------
(* build_analysis_chain, of features that may come from elsewhere          *)

SeqsUpTo(S, n) == UNION {[1..m -> S] : m \in 0..n}

\* The stable sort by time: behind the events of its time and before the
\* later ones; an event without a time goes to the end.
Place(events, timeline, i) ==
  LET earlier == {j \in DOMAIN timeline :
                    \/ events[i] = NoTime
                    \/ events[timeline[j]] # NoTime /\ events[timeline[j]] <= events[i]}
  IN  InsertAt(timeline, Cardinality(earlier) + 1, i)

Sorted(events) ==
  LET sorted[n \in 0..Len(events)] ==
        IF n = 0 THEN <<>> ELSE Place(events, sorted[n - 1], n)
  IN  sorted[Len(events)]

\* _build_event_timeline: the crash, event 0, stays at the end.
Timeline(events) == Append(Sorted(events), 0)

\* _build_propagation_chain
EdgeType(from, to, rip, null) ==
  IF from \in Freeing THEN "uaf_free"
  ELSE IF to = rip /\ null THEN "null_deref"
  ELSE IF from \in Writing THEN "data_pollution" ELSE "call"

Edges(stack, rip, null) ==
  [i \in 1..(Len(stack) - 1) |->
     [from |-> stack[i], to |-> stack[i + 1],
      type |-> EdgeType(stack[i], stack[i + 1], rip, null)]]

\* The first occurrence of a function in the stack.
FirstSeen(stack, i) == \A j \in DOMAIN stack : j < i => stack[j] # stack[i]

\* _build_source_clues: every function once; RIP is marked, or put in front.
Clue(f, rip) == [function |-> f,
                 reason |-> IF f = rip THEN "crash_point" ELSE "call_trace"]
WithClue(seen, stack, rip, n) ==
  IF FirstSeen(stack, n) THEN Append(seen, Clue(stack[n], rip)) ELSE seen
StackClues(stack, rip) ==
  LET seen[n \in 0..Len(stack)] ==
        IF n = 0 THEN <<>> ELSE WithClue(seen[n - 1], stack, rip, n)
  IN  seen[Len(stack)]
Clues(stack, rip) ==
  LET all == StackClues(stack, rip)
  IN  IF rip = NoFunction \/ \E i \in DOMAIN all : all[i].function = rip
      THEN all ELSE <<Clue(rip, rip)>> \o all

BuildChain ==
  /\ cfAt = "features" /\ cfAt' = "chain"
  /\ \E events \in SeqsUpTo(Times \cup {NoTime}, MaxFrames),
       given \in SeqsUpTo(Functions, MaxFrames),
       rip \in Functions \cup {NoFunction}, null \in BOOLEAN :
       LET stack == IF given = <<>> /\ rip # NoFunction THEN <<rip>> ELSE given IN
       chain' = [events |-> events, timeline |-> Timeline(events),
                 stack |-> stack, rip |-> rip, null |-> null,
                 edges |-> Edges(stack, rip, null), clues |-> Clues(stack, rip)]
  /\ UNCHANGED <<lines, feature>>

CfNext ==
  Given \/ ReadLine \/ Crop \/ Dmesg \/ Hardware \/ Stacks \/ BuildChain

-----------------------------------------------------------------------------
\* Lines of report r, from its bug line on, that lie in a window.
OwnIn(r, window, kinds) ==
  \E b, i \in DOMAIN lines :
    /\ lines[b] = [kind |-> "bug", report |-> r]
    /\ i >= b /\ i < b + window
    /\ lines[i].report = r /\ Of(i, kinds)

\* When the report of the bug line names its RIP and its call trace where
\* they are looked for, neither is taken from another report of the log: the
\* signature, by which a crash is recognised, is that of one crash.
FeaturesOfOneReport ==
  cfAt = "dmesg" /\ feature.bug # 0 =>
    /\ OwnIn(feature.bug, RipWindow, {"rip"}) /\ ~OwnIn(feature.bug, RipWindow, {"user"}) =>
         feature.rip = feature.bug
    /\ OwnIn(feature.bug, TraceWindow, {"call"}) => feature.frames \subseteq {feature.bug}

\* The timeline holds every event once, in the order of their times, those of
\* one time and those without in the order they were found, the crash last.
TimelineInOrder ==
  LET t == chain.timeline
      e == chain.events
  IN  cfAt = "chain" =>
        /\ Len(t) = Len(e) + 1 /\ t[Len(t)] = 0
        /\ {t[i] : i \in 1..Len(e)} = DOMAIN e
        /\ \A i, j \in 1..Len(e) : i < j =>
             \/ e[t[i]] # NoTime /\ (e[t[j]] = NoTime \/ e[t[i]] < e[t[j]])
             \/ e[t[i]] = e[t[j]] /\ t[i] < t[j]

\* The clues name every function of the stack once, and exactly one of them
\* is the crash point when RIP is known.
OneCrashPoint ==
  LET c == chain.clues IN
  cfAt = "chain" =>
    /\ \A i, j \in DOMAIN c : c[i].function = c[j].function => i = j
    /\ Range(chain.stack) \subseteq {c[i].function : i \in DOMAIN c}
    /\ Cardinality({i \in DOMAIN c : c[i].reason = "crash_point"}) =
         IF chain.rip = NoFunction THEN 0 ELSE 1

\* All three: features, timeline and clues are of one crash, in order.
FeaturesAreSound == FeaturesOfOneReport /\ TimelineInOrder /\ OneCrashPoint

\* RIP is that of the report whose bug line was found.
RipOfReport ==
  cfAt = "dmesg" /\ feature.bug # 0 /\ feature.rip # 0 => feature.rip = feature.bug

\* "Find the stack section of the crashed process": no function of another
\* process is taken from bt -a.
OwnStack == cfAt = "vmcore" => feature.frames \subseteq {1}

\* "CPU / COMMAND from first line": the CPU is known when bt was printed.
CpuKnown == cfAt = "vmcore" /\ feature.rip # 0 => feature.cpu

\* A NULL dereference at the top of the stack is a step of the chain.
NullDerefSeen ==
  cfAt = "chain" /\ chain.null /\ chain.rip # NoFunction /\ Len(chain.stack) > 1 =>
    \E i \in DOMAIN chain.edges : chain.edges[i].type = "null_deref"
=============================================================================
