------------------------------ MODULE CrashReport ------------------------------
(***************************************************************************)
(* The crash report from its sections to the page: the model writes the    *)
(* sections one by one and corrects them, combine_report.py joins them,    *)
(* validate_report.py checks the result and may keep a validated copy, and *)
(* generate_report_html.py makes the page.  Each script is a process of    *)
(* its own that reads and writes files; a new report goes over the old.    *)
(***************************************************************************)
EXTENDS Naturals, FiniteSets

CONSTANTS
  SectionNames,  \* host_base_info, crash_feature_info, ...
  MaxWrites      \* sections written and corrected in a behaviour

(* A section satisfies the schema and the semantic checks, the schema only,  *)
(* or neither.                                                               *)
SectionGrades == {"sound", "odd", "broken"}
(* report_id.txt: absent, as the format asks, or otherwise.                  *)
Ids == {"absent", "dated", "other"}

VARIABLES
  sections,      \* the section files: [SectionNames -> SectionGrades \cup {"missing"}]
  reportId,
  report,        \* report.json: [parts, id], parts = <<>> before it is written
  validated,     \* the validated copy, likewise
  page,          \* the HTML page, likewise
  writes

crVars == <<sections, reportId, report, validated, page, writes>>

NoFile == [parts |-> [n \in SectionNames |-> "missing"], id |-> "absent"]

CrInit ==
  /\ sections = [n \in SectionNames |-> "missing"]
  /\ reportId = "absent"
  /\ report = NoFile /\ validated = NoFile /\ page = NoFile
  /\ writes = 0

WriteSection(n, grade) ==
  /\ writes < MaxWrites
  /\ sections' = [sections EXCEPT ![n] = grade]
  /\ writes' = writes + 1
  /\ UNCHANGED <<reportId, report, validated, page>>

WriteId(id) ==
  /\ writes < MaxWrites /\ id # "absent"
  /\ reportId' = id
  /\ writes' = writes + 1
  /\ UNCHANGED <<sections, report, validated, page>>

(* build_report gives a report without an id the name unknown-date-time.     *)
Built == [parts |-> sections, id |-> IF reportId = "absent" THEN "unknown" ELSE reportId]

SchemaErrors(r) == {n \in SectionNames : r.parts[n] = "broken"}

(* validate_semantics; of a time only six digits are written where the       *)
(* format asks for a date of eight.                                          *)
SemanticErrors(r) ==
  {n \in SectionNames : r.parts[n] # "sound"}
    \cup (IF r.id \in {"unknown", "other"} THEN {"report_id"} ELSE {})

Errors(r) == SchemaErrors(r) \cup SemanticErrors(r)

(* combine_report.py stops at a missing section; otherwise it writes the     *)
(* report and only then, with --validate, looks at the schema.               *)
Combine ==
  /\ \A n \in SectionNames : sections[n] # "missing"
  /\ report' = Built
  /\ UNCHANGED <<sections, reportId, validated, page, writes>>

(* Mutant: the copy is written before the checks, as combine_report.py does. *)
ValidateLate ==
  /\ report # NoFile
  /\ validated' = report
  /\ UNCHANGED <<sections, reportId, report, page, writes>>

(* validate_report.py --output, without --no-semantics: a report with errors  *)
(* leaves the earlier copy.                                                  *)
Validate ==
  /\ report # NoFile /\ Errors(report) = {}
  /\ validated' = report
  /\ UNCHANGED <<sections, reportId, report, page, writes>>

(* generate_report_html.py embeds whatever report it is given.               *)
Publish(r) ==
  /\ r # NoFile
  /\ page' = r
  /\ UNCHANGED <<sections, reportId, report, validated, writes>>

CrNext ==
  \/ \E n \in SectionNames, grade \in SectionGrades : WriteSection(n, grade)
  \/ \E id \in Ids : WriteId(id)
  \/ Combine \/ Validate \/ Publish(report) \/ Publish(validated)
-----------------------------------------------------------------------------
(* The validated copy has every section and no error, however often sections *)
(* are corrected and the report is combined again.                           *)
CopyIsSound == validated # NoFile => /\ \A n \in SectionNames : validated.parts[n] = "sound"
                                     /\ validated.id = "dated"

(* Not so: a report that got its id from combine_report.py passes the        *)
(* validator; the copy is of the report there is; the page is of a report    *)
(* without errors.                                                           *)
DefaultIdPasses == report.id # "unknown" \/ report = NoFile \/ "report_id" \notin Errors(report)
CopyIsCurrent == validated # NoFile => validated = report
PageIsSound == page # NoFile => Errors(page) = {}
=============================================================================
