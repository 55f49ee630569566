-------------------------------- MODULE LogParse --------------------------------
(***************************************************************************)
(* From a file to log blocks (witty-log-detection parser/parser.py): where *)
(* the lines come from, how the lines are put together, by the pattern of  *)
(* a header and its continuing lines or by size, and which blocks a time   *)
(* window keeps.  A line is a kind, a size and the time it carries.        *)
(***************************************************************************)
EXTENDS Integers, Sequences, SequencesExt

CONSTANTS FileKinds,               \* subset of {"text", "vmcore", "image", "other"}
          MaxLines, Times,         \* bounds
          ChunkSize,               \* in lines, here
          Delta                    \* the five minutes around the window

NoTime == -1
ASSUME ParseAssumption == MaxLines \in Nat /\ Times \subseteq Nat /\ {ChunkSize, Delta} \subseteq Nat

VARIABLES lpKind, lpRegex, lpWindow,   \* the file, need_split_by_regex, (time_start, time_end)
          lpAt, lpLines, lpNext,       \* "read", "split", "filter", "done", "error"; lines and place in them
          lpCurrent, lpOut             \* the block under way, the blocks: sequences of places
lpVars == <<lpKind, lpRegex, lpWindow, lpAt, lpLines, lpNext, lpCurrent, lpOut>>

Lines == [kind : {"head", "more", "plain"}, time : Times \cup {NoTime}] \cup {[kind |-> "blank", time |-> NoTime]}
LpInit == /\ lpKind = "none" /\ lpRegex = FALSE /\ lpWindow = <<NoTime, NoTime>>
          /\ lpAt = "read" /\ lpLines = <<>> /\ lpNext = 1 /\ lpCurrent = <<>> /\ lpOut = <<>>

(* vmcore: what the crash tool prints, else vmcore-dmesg.txt, else the file  *)
(* itself, all of them lines.  An image fails: its reader starts an event    *)
(* loop inside the running one.  Other files have no lines.                  *)
ReadFile == /\ lpAt = "read" /\ lpKind' \in FileKinds /\ lpRegex' \in BOOLEAN
            /\ lpWindow' \in (Times \cup {NoTime}) \X (Times \cup {NoTime})
            /\ lpLines' \in IF lpKind' \in {"text", "vmcore"} THEN SeqOf(Lines, MaxLines) ELSE {<<>>}
            /\ lpAt' = IF lpKind' = "image" THEN "error" ELSE "split"
            /\ UNCHANGED <<lpNext, lpCurrent, lpOut>>

(* A block of blank lines only is not kept.                                  *)
KeptBlock(out, block) == IF \A i \in 1..Len(block) : lpLines[block[i]].kind = "blank" THEN out ELSE Append(out, block)
Split(next, current, out) == /\ lpNext' = next /\ lpCurrent' = current /\ lpOut' = out
                             /\ UNCHANGED <<lpKind, lpRegex, lpWindow, lpLines>>
More(n) == n <= Len(lpLines) /\ lpLines[n].kind = "more"

(* By pattern: a header opens a block, which its continuing lines join while *)
(* there is room; every other line is a block of its own.                    *)
ByPattern ==
  /\ lpAt = "split" /\ lpRegex /\ UNCHANGED lpAt
  /\ \/ /\ lpCurrent = <<>> /\ lpNext <= Len(lpLines)
        /\ IF lpLines[lpNext].kind = "head" THEN Split(lpNext + 1, <<lpNext>>, lpOut)
                                            ELSE Split(lpNext + 1, <<>>, KeptBlock(lpOut, <<lpNext>>))
     \/ /\ lpCurrent # <<>>
        /\ IF More(lpNext) /\ Len(lpCurrent) < ChunkSize THEN Split(lpNext + 1, Append(lpCurrent, lpNext), lpOut)
                                                        ELSE Split(lpNext, <<>>, KeptBlock(lpOut, lpCurrent))
(* By size: a line that would make the block too large opens the next one.   *)
\* mutant: the line that does not fit is left out
BySizeLoses ==
  /\ lpAt = "split" /\ ~lpRegex /\ lpNext <= Len(lpLines) /\ UNCHANGED lpAt
  /\ IF Len(lpCurrent) + 1 > ChunkSize THEN Split(lpNext + 1, <<>>, KeptBlock(lpOut, lpCurrent))
                                      ELSE Split(lpNext + 1, Append(lpCurrent, lpNext), lpOut)
BySize ==
  /\ lpAt = "split" /\ ~lpRegex /\ lpNext <= Len(lpLines) /\ UNCHANGED lpAt
  /\ IF Len(lpCurrent) + 1 > ChunkSize THEN Split(lpNext + 1, <<lpNext>>, KeptBlock(lpOut, lpCurrent))
                                      ELSE Split(lpNext + 1, Append(lpCurrent, lpNext), lpOut)
LastBlock == /\ lpAt = "split" /\ lpNext > Len(lpLines) /\ (lpRegex => lpCurrent = <<>>)
             /\ lpAt' = "filter" /\ Split(lpNext, <<>>, KeptBlock(lpOut, lpCurrent))

(* The first time in a block is its start and its end; a window with both    *)
(* ends drops the block when that lies outside.  A vmcore has no window.     *)
FirstTime(block) == LET timed == SelectSeq(block, LAMBDA i : lpLines[i].time # NoTime)
                    IN IF timed = <<>> THEN NoTime ELSE lpLines[timed[1]].time
Bounded == lpKind # "vmcore" /\ NoTime \notin {lpWindow[1], lpWindow[2]}
Outside(t) == t # NoTime /\ (t > lpWindow[2] + Delta \/ t < lpWindow[1] - Delta)
Filter == /\ lpAt = "filter" /\ lpAt' = "done"
          /\ lpOut' = IF Bounded THEN SelectSeq(lpOut, LAMBDA b : ~Outside(FirstTime(b))) ELSE lpOut
          /\ UNCHANGED <<lpKind, lpRegex, lpWindow, lpLines, lpNext, lpCurrent>>

LpNext == ReadFile \/ ByPattern \/ BySize \/ LastBlock \/ Filter

(* The blocks hold the lines up to n in their order, each at most once, and  *)
(* every one that is not blank.                                              *)
Whole(blocks, n) ==
  /\ \A b \in DOMAIN blocks : Range(blocks[b]) \subseteq 1..n
  /\ \A b, c \in DOMAIN blocks : \A i \in DOMAIN blocks[b], j \in DOMAIN blocks[c] :
       b < c \/ (b = c /\ i < j) => blocks[b][i] < blocks[c][j]
  /\ \A i \in 1..n : lpLines[i].kind = "blank" \/ \E b \in DOMAIN blocks : i \in Range(blocks[b])
(* Both ways of splitting keep every line that is not blank, once and in its *)
(* order, until a window drops blocks whole.                                 *)
NothingLost ==
  /\ lpAt = "split" => Whole(Append(lpOut, lpCurrent), lpNext - 1)
  /\ lpAt = "filter" \/ (lpAt = "done" /\ ~Bounded) => Whole(lpOut, Len(lpLines))
(* parser.py:292 gets "the time of a log": a line whose own time lies in the *)
(* window is kept.                                                           *)
InWindowKept == lpAt = "done" /\ Bounded =>
  \A i \in 1..Len(lpLines) : lpLines[i].time \in lpWindow[1]..lpWindow[2] => \E b \in DOMAIN lpOut : i \in Range(lpOut[b])
=============================================================================
