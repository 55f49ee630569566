------------------------------- MODULE LogScan -------------------------------
(***************************************************************************)
(* scan_file of buddy-log-analyzer: one pass over a log file that merges   *)
(* the lines of a stack trace into one event, reports each event once, and *)
(* counts how often it occurs.  A line is the set of the regular           *)
(* expressions it matches and its key, its first eighty characters; the    *)
(* first line of a stack is taken to be that long, so it is its key too.   *)
(***************************************************************************)
EXTENDS Naturals, Sequences, SequencesExt

CONSTANTS
  ScanKeys,      \* the keys of the lines
  ScanLines,     \* lines of a file, after --tail
  Frequent       \* occurrences that make a pattern (3)

(* What a line may match: "trace" (Traceback, Exception, Error, ...),        *)
(* "stack" (at x, File "), CRITICAL_PATTERNS and WARNING_PATTERNS.           *)
LineKinds ==
  {{"blank"}, {"code"}, {}, {"stack"}, {"stack", "trace"}, {"trace"},
   {"trace", "critical"}, {"trace", "critical", "warning"}, {"critical"}, {"warning"}}

VARIABLES
  scan,          \* the pass: line number, stack_buffer, seen_messages, events, counts
  opened         \* ghost: the keys of the stacks that were begun

lsVars == <<scan, opened>>

LsInit ==
  /\ scan = [at |-> 0, buffer |-> <<>>, start |-> 0, seen |-> {}, critical |-> <<>>,
             warnings |-> <<>>, count |-> [k \in ScanKeys |-> 0], patterns |-> {}, done |-> FALSE]
  /\ opened = {}

Triggered(s, level, k, line) ==
  [s EXCEPT !.count[k] = @ + 1,
            !.seen = @ \cup {k},
            ![level] = IF k \in s.seen THEN @ ELSE Append(@, [key |-> k, line |-> line])]

(* _flush_stack: the buffered lines become one event.                        *)
Flushed(s) ==
  IF s.buffer = <<>> THEN s
  ELSE [Triggered(s, "critical", s.buffer[1], s.start) EXCEPT !.buffer = <<>>]

Reads == ~scan.done /\ scan.at < ScanLines

Moved(s) == [s EXCEPT !.at = @ + 1]

(* A blank line, or one that looks like source code, ends the stack.         *)
SkipLine(kind) ==
  /\ Reads /\ kind \cap {"blank", "code"} # {}
  /\ scan' = Moved(Flushed(scan))
  /\ UNCHANGED opened

Joins(kind) == "stack" \in kind /\ (scan.buffer # <<>> \/ "trace" \in kind)
Opens(kind) == "trace" \in kind /\ scan.buffer = <<>> /\ ~Joins(kind)

(* A frame joins the stack; one that names an error itself begins it, and    *)
(* stack_start_line stays what it was.                                       *)
JoinStack(kind, k) ==
  /\ Reads /\ Joins(kind)
  /\ scan' = [Moved(scan) EXCEPT !.buffer = Append(@, k)]
  /\ opened' = IF scan.buffer = <<>> THEN opened \cup {k} ELSE opened

OpenStack(kind, k) ==
  /\ Reads /\ Opens(kind)
  /\ scan' = [Moved(scan) EXCEPT !.buffer = <<k>>, !.start = scan.at + 1]
  /\ opened' = opened \cup {k}

(* Any other line ends the stack and is looked up in the two tables; one     *)
(* that is in both counts twice.                                             *)
PlainLine(kind, k) ==
  LET flushed == Flushed(scan)
      found == {level \in {"critical", "warnings"} :
                  \/ level = "critical" /\ "critical" \in kind
                  \/ level = "warnings" /\ "warning" \in kind}
      hard == IF "critical" \in found THEN Triggered(flushed, "critical", k, scan.at + 1) ELSE flushed
  IN /\ Reads /\ kind \cap {"blank", "code"} = {} /\ ~Joins(kind) /\ ~Opens(kind)
     /\ scan' = Moved(IF "warnings" \in found THEN Triggered(hard, "warnings", k, scan.at + 1) ELSE hard)
     /\ UNCHANGED opened

(* Mutant: a stack at the end of the file is forgotten.                      *)
LastDropped(s) == s

(* What is left in the buffer at the end of the file.                        *)
LastFlush(s) == Flushed(s)

(* The end of the file: the last stack is flushed and the frequent keys kept. *)
EndScan ==
  /\ ~scan.done
  /\ LET last == LastFlush(scan)
     IN scan' = [last EXCEPT !.done = TRUE, !.patterns = {k \in ScanKeys : last.count[k] >= Frequent}]
  /\ UNCHANGED opened

LsNext ==
  \/ \E kind \in LineKinds : SkipLine(kind)
  \/ \E kind \in LineKinds, k \in ScanKeys : JoinStack(kind, k) \/ OpenStack(kind, k) \/ PlainLine(kind, k)
  \/ EndScan

Reported == {e.key : e \in Range(scan.critical) \cup Range(scan.warnings)}
-----------------------------------------------------------------------------
(* A stack that was begun is reported, wherever it ends: at a blank line, a  *)
(* line of code, another event or the end of the file.                       *)
StacksReported == scan.done => opened \subseteq Reported

(* Not so: an event is shown at the line it begins at.  A frame that names   *)
(* an error ("ERROR at startup") leaves stack_start_line as it was.          *)
StartIsKnown == \A e \in Range(scan.critical) : e.line > 0
=============================================================================
