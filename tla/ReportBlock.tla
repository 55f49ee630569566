------------------------------ MODULE ReportBlock ------------------------------
(***************************************************************************)
(* A quoted block of a crash report, read twice: validate_report.py warns  *)
(* of its highlights and comments, crash-report-viewer.html shows them.    *)
(* Keys of hl and ann are line numbers of the block, or of the file when   *)
(* the block says where it starts; both readers have to agree.             *)
(***************************************************************************)
EXTENDS Naturals, FiniteSets

CONSTANTS
  BlockLines,    \* lines of the block
  FirstLines,    \* values of first_line, 0 when the block has none
  MaxKeys        \* entries of hl and of ann

ASSUME ReportBlockAssumption == BlockLines \in Nat /\ FirstLines \subseteq Nat

(* A line is code, blank (or "..."), or code that ends in a comment of its   *)
(* own; a quoted block must comment its highlights, a list is shown apart.   *)
BlockKinds == {"quoted", "plain", "list"}
LineForms == {"code", "blank", "commented"}

VARIABLE block   \* the block, "none" before one is read

rbVars == <<block>>

RbInit == block = [kind |-> "none"]

Rel == 1 .. BlockLines
Abs(b) == IF b.first = 0 THEN {} ELSE b.first .. b.first + BlockLines - 1
KeyRange(first) == 1 .. first + BlockLines
SomeKeys(first) == {K \in SUBSET KeyRange(first) : Cardinality(K) <= MaxKeys}

ReadBlock ==
  /\ block.kind = "none"
  /\ \E kind \in BlockKinds, first \in FirstLines, form \in [Rel -> LineForms] :
       \E hl, ann \in SomeKeys(first) :
         block' = [kind |-> kind, first |-> first, form |-> form, hl |-> hl, ann |-> ann]

RbNext == ReadBlock
-----------------------------------------------------------------------------
(* validate_quality.                                                         *)

(* _rel_of: the line a key names, 0 for none (_key_ok).                      *)
RelOf(b, k) == IF k \in Rel THEN k ELSE IF k \in Abs(b) THEN k - b.first + 1 ELSE 0

(* A comment the validator finds for line r: by either key, or on the line.  *)
Noted(b, r) == r \in b.ann \/ (b.first # 0 /\ b.first + r - 1 \in b.ann) \/ b.form[r] = "commented"

(* The warnings of section 1f.                                               *)
Warnings(b) ==
  {<<"out of range", k>> : k \in {k \in b.hl \cup b.ann : RelOf(b, k) = 0}}
  \cup {<<"twice", r>> : r \in {r \in Rel : b.form[r] = "commented"
                                   /\ (r \in b.ann \/ (b.first # 0 /\ b.first + r - 1 \in b.ann))}}
  \cup {<<"list", r>> : r \in {r \in Rel : b.kind = "list" /\ b.form[r] = "commented"}}
  \cup {<<"blank", k>> : k \in {k \in b.hl : RelOf(b, k) # 0 /\ b.form[RelOf(b, k)] = "blank"}}
  \cup {<<"no comment", k>> : k \in {k \in b.hl : b.kind = "quoted" /\ RelOf(b, k) # 0 /\ ~Noted(b, RelOf(b, k))}}
-----------------------------------------------------------------------------
(* snippetLinesHTML and listItemsHTML.                                       *)

(* The keys the page looks up for line r.                                    *)
KeysOf(b, r) == {r} \cup (IF b.first # 0 /\ b.kind # "list" THEN {b.first + r - 1} ELSE {})

(* The lines shown highlighted, and those shown with a comment.              *)
Lit(b) == {r \in Rel : /\ b.form[r] # "blank"
                       /\ KeysOf(b, r) \cap b.hl # {} \/ (b.form[r] = "commented" /\ b.kind # "list")}
ShownNoted(b) == {r \in Rel : KeysOf(b, r) \cap b.ann # {} \/ b.form[r] = "commented"}
-----------------------------------------------------------------------------
(* No key can be read both ways.                                             *)
Unambiguous(b) == b.first = 0 \/ b.first = 1 \/ b.first > BlockLines

(* A block without warnings is shown as its author meant it: every line that *)
(* hl names is highlighted and no other, and every highlighted line of a     *)
(* quoted block has a comment beside it, which no key of ann misses.         *)
Agrees(b) ==
  /\ b.kind # "list" => {RelOf(b, k) : k \in b.hl} \subseteq Lit(b)
  /\ b.kind = "quoted" => Lit(b) \subseteq ShownNoted(b)
  /\ b.kind = "quoted" => {RelOf(b, k) : k \in b.ann} \subseteq ShownNoted(b)
  /\ Lit(b) \subseteq {RelOf(b, k) : k \in b.hl} \cup {r \in Rel : b.form[r] = "commented"}

WarnedOrShown ==
  block.kind # "none" => (Unambiguous(block) /\ Warnings(block) = {} => Agrees(block))

(* Not so for a block that starts within its own length (first_line 2 of a   *)
(* block of 3 lines): the page reads a key both ways, the validator one.     *)
AlwaysShown == block.kind # "none" => (Warnings(block) = {} => Agrees(block))
=============================================================================
