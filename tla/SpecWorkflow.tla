----------------------------- MODULE SpecWorkflow -----------------------------
(***************************************************************************)
(* The workflow gates of one OpenSpec change and the loop around them      *)
(* (osdd.py): the autopilot scaffolds the change directory, runs the gates *)
(* one after the other and reports a stage; the assistant (Codex) and the  *)
(* human act on the report, or on an older one, while the next autopilot   *)
(* may already be reading; the CI gate judges the branch on a machine of   *)
(* its own.                                                                *)
(*                                                                         *)
(* A document counts as written when its content passes the checks of its  *)
(* gate; the command log that each gate reads is written with the          *)
(* documents of its stage, ui_level is declared in a frontmatter, and a    *)
(* UI / UX section in design.md declares "major" when nothing else does.   *)
(***************************************************************************)
EXTENDS Integers

CONSTANTS
  HasServers,   \* does the assistant's machine have the language servers?
  CiHasServers, \* and the machine that runs CI?
  MaxEdits      \* bound on the changes of mind of assistant and human

ASSUME WorkflowConstants ==
  /\ HasServers \in BOOLEAN /\ CiHasServers \in BOOLEAN /\ MaxEdits \in Nat

VARIABLES
  place,      \* the change directory, and what an archive made of it
  written,    \* documents that pass their checks
  declared,   \* ui_level of design-review.md or penpot.md
  prototype,  \* does prototype.html exist?
  penpot,     \* status of penpot.md
  review,     \* status of design-review.md
  findings,   \* code-review.md: its blocking findings, -1 without evidence
  changed,    \* kinds of files the branch changes besides openspec/
  pilot,      \* a running autopilot and what it has read so far
  report,     \* what the last autopilot said
  approvals,  \* history: how often the human approved the design
  edits

change == <<place, written, declared, prototype, penpot, review, findings, changed>>
bookkeeping == <<approvals, edits>>
workflowVars == <<change, pilot, report, bookkeeping>>

\* plan: proposal, design, tasks, delta specs and their audits.  ui section:
\* UI / UX Design and the design review task.  slices: implementation audit
\* and retrieval.  skip: the LSP skip reason.  applied: ticked tasks, test,
\* lint and typecheck evidence and the TDD audit.  visual: screenshots.
Documents == {"plan", "ui section", "slices", "skip", "applied", "visual"}
Levels == {"none", "minor", "major"}
UiLevels == {"minor", "major", "unknown"}
CodeFiles == {"business", "page"}      \* page: a file UI_HINT_RE recognises
PenpotStates == {"missing", "ready", "not applicable", "explained"}
ReviewStates == {"missing", "pending", "changes-requested", "approved"}
Stages == {"planning", "before-apply", "implementation", "ready"}

Idle == [step |-> "idle", requested |-> "none", hint |-> "none", planning |-> FALSE,
         before |-> FALSE, after |-> FALSE, quiet |-> FALSE]
NoReport == [stage |-> "none", human |-> FALSE, level |-> "none", quiet |-> FALSE]

WorkflowInit ==
  /\ place = "none" /\ written = {} /\ declared = "unset" /\ prototype = FALSE
  /\ penpot = "missing" /\ review = "missing" /\ findings = -1
  /\ changed \in SUBSET CodeFiles
  /\ pilot = Idle /\ report = NoReport
  /\ approvals = 0 /\ edits = 0

-----------------------------------------------------------------------------
(* The gates: what each one reads. *)

\* Slip: whatever the frontmatter says is the level.
UiLevelUnchecked(files) == declared

\* detect_ui_level: declared, or the text, or the artifacts that exist, or the
\* changed files where the caller looked at them.
UiLevel(files) ==
  IF declared # "unset" THEN declared
  ELSE IF "ui section" \in written \/ prototype \/ penpot # "missing" THEN "major"
  ELSE IF review # "missing" \/ "page" \in files THEN "unknown"
  ELSE "none"

\* The gates do not look at the changed files.
GateLevel == UiLevel({})

PlanningOk ==
  /\ place = "open" /\ "plan" \in written
  /\ GateLevel = "major" => /\ "ui section" \in written
                            /\ prototype /\ penpot # "missing" /\ review # "missing"

\* Slip: any decision of the reviewer counts as an approval.
BeforeApplyReviewed(servers) ==
  /\ PlanningOk
  /\ "slices" \in written
  /\ servers \/ "skip" \in written
  /\ GateLevel \in UiLevels => prototype /\ review \notin {"missing", "pending"}
  /\ GateLevel = "major" => penpot = "ready"
  /\ GateLevel = "minor" => penpot # "not applicable"

BeforeApplyOk(servers) ==
  /\ PlanningOk
  /\ "slices" \in written
  /\ servers \/ "skip" \in written
  /\ GateLevel \in UiLevels => prototype /\ review = "approved"
  /\ GateLevel = "major" => penpot = "ready"
  /\ GateLevel = "minor" => penpot # "not applicable"

AfterApplyOk ==
  /\ {"slices", "applied"} \subseteq written
  /\ GateLevel \in UiLevels => "visual" \in written
  /\ findings = 0

\* changed_open_spec_changes: the branch made this change, so it lists its
\* files; it is judged unless all of them moved to the archive.
Associated == place \in {"open", "torn"}

\* check_ci_gate over the changed files of the branch.
CiPasses ==
  IF Associated THEN BeforeApplyOk(CiHasServers) /\ AfterApplyOk
  ELSE changed = {}

-----------------------------------------------------------------------------
(* The tool. *)

\* Slip: the template overwrites what is there.
ScaffoldAnew(level) ==
  /\ place' = "open"
  /\ IF level \in {"minor", "major"}
     THEN prototype' = TRUE /\ penpot' = "ready" /\ review' = "pending"
     ELSE UNCHANGED <<prototype, penpot, review>>

\* scaffold_change: a template is copied where the file is missing.
Scaffold(level) ==
  /\ place' = "open"
  /\ IF level \in {"minor", "major"}
     THEN /\ prototype' = TRUE
          /\ penpot' = IF penpot = "missing" THEN "ready" ELSE penpot
          /\ review' = IF review = "missing" THEN "pending" ELSE review
     ELSE UNCHANGED <<prototype, penpot, review>>

\* A file changes under whoever is reading.
Disturb == /\ pilot' = [pilot EXCEPT !.quiet = FALSE]
           /\ report' = [report EXCEPT !.quiet = FALSE]

New(level) ==
  /\ place \in {"none", "open"}
  /\ Scaffold(level)
  /\ Disturb
  /\ UNCHANGED <<written, declared, findings, changed, bookkeeping>>

\* cmd_review: drafts of both reviews; the code review has no evidence yet.
Review ==
  /\ place = "open" /\ review = "missing"
  /\ review' = "pending"
  /\ Disturb
  /\ UNCHANGED <<place, written, declared, prototype, penpot, findings, changed, bookkeeping>>

\* autopilot_payload: scaffold, then level, then gate after gate, each of them
\* reading the files anew; then the report, which reads the review once more.
Launch(requested) ==
  /\ pilot.step = "idle" /\ place \in {"none", "open"}
  /\ Scaffold(requested)
  /\ pilot' = [Idle EXCEPT !.step = "detect", !.requested = requested, !.quiet = TRUE]
  /\ report' = [report EXCEPT !.quiet = FALSE]
  /\ UNCHANGED <<written, declared, findings, changed, bookkeeping>>

DetectLevel ==
  /\ pilot.step = "detect"
  /\ pilot' = [pilot EXCEPT !.step = "planning", !.hint = UiLevel(changed)]
  /\ UNCHANGED <<change, report, bookkeeping>>

RunPlanning ==
  /\ pilot.step = "planning"
  /\ pilot' = [pilot EXCEPT !.step = "before", !.planning = PlanningOk]
  /\ UNCHANGED <<change, report, bookkeeping>>

RunBefore ==
  /\ pilot.step = "before"
  /\ pilot' = [pilot EXCEPT !.step = "after", !.before = BeforeApplyOk(HasServers)]
  /\ UNCHANGED <<change, report, bookkeeping>>

RunAfter ==
  /\ pilot.step = "after"
  /\ pilot' = [pilot EXCEPT !.step = "report", !.after = AfterApplyOk]
  /\ UNCHANGED <<change, report, bookkeeping>>

\* Slips: the report forgets a gate, or asks only where a level was requested.
StageForgetful ==
  IF ~pilot.planning THEN "planning" ELSE IF ~pilot.before THEN "before-apply" ELSE "ready"

Stage ==
  IF ~pilot.planning THEN "planning"
  ELSE IF ~pilot.before THEN "before-apply"
  ELSE IF ~pilot.after THEN "implementation" ELSE "ready"

RequestedLevel == pilot.requested

ReportedLevel == IF pilot.requested # "none" THEN pilot.requested ELSE pilot.hint

Report ==
  /\ pilot.step = "report"
  /\ report' = [stage |-> Stage,
                human |-> /\ Stage = "before-apply"
                          /\ ReportedLevel \in UiLevels /\ review # "approved",
                level |-> ReportedLevel,
                quiet |-> pilot.quiet]
  /\ pilot' = Idle
  /\ UNCHANGED <<change, bookkeeping>>

-----------------------------------------------------------------------------
(* The assistant and the human, at any time. *)

Write(documents) ==
  /\ place = "open"
  /\ written' = written \cup documents
  /\ Disturb
  /\ UNCHANGED <<place, declared, prototype, penpot, review, findings, changed, bookkeeping>>

\* What the assistant does for the stage it was told: the documents the stage
\* lists and whatever blocked_by names.
Author ==
  /\ report.stage = "planning"
  /\ \/ "plan" \notin written /\ (Write({"plan"}) \/ Write({"plan", "ui section"}))
     \/ GateLevel = "major" /\ "ui section" \notin written /\ Write({"ui section"})

Sketch ==
  /\ place = "open"
  /\ report.stage \in {"planning", "before-apply"} /\ GateLevel \in UiLevels
  /\ ~prototype \/ penpot = "missing" \/ review = "missing"
  /\ Scaffold("major")
  /\ Disturb
  /\ UNCHANGED <<written, declared, findings, changed, bookkeeping>>

Prepare ==
  /\ report.stage = "before-apply"
  /\ \/ "slices" \notin written /\ Write({"slices"})
     \/ ~HasServers /\ "skip" \notin written /\ Write({"skip"})

HandOver ==
  /\ place = "open"
  /\ report.stage = "before-apply"
  /\ \/ GateLevel = "major" /\ penpot \in {"not applicable", "explained"} /\ penpot' = "ready"
     \/ GateLevel = "minor" /\ penpot = "not applicable" /\ penpot' = "explained"
  /\ Disturb
  /\ UNCHANGED <<place, written, declared, prototype, review, findings, changed, bookkeeping>>

Implement ==
  /\ place = "open"
  /\ report.stage = "implementation"
  /\ "applied" \notin written \/ (GateLevel \in UiLevels /\ "visual" \notin written)
  /\ written' = written \cup {"applied"}
                  \cup (IF GateLevel \in UiLevels THEN {"visual"} ELSE {})
  /\ changed' \in {changed \cup {file} : file \in CodeFiles}
  /\ Disturb
  /\ UNCHANGED <<place, declared, prototype, penpot, review, findings, bookkeeping>>

\* code-review-and-quality finds something, or nothing, or what it found is fixed.
Inspect ==
  /\ place = "open"
  /\ report.stage = "implementation" /\ findings # 0
  /\ findings' \in IF findings = -1 THEN {0, 1} ELSE {0}
  /\ Disturb
  /\ UNCHANGED <<place, written, declared, prototype, penpot, review, changed, bookkeeping>>

\* Changes of mind: a level is declared, a handoff is called off, a plan is
\* reworked, a later review finds something.
Rethink ==
  /\ edits < MaxEdits /\ place = "open"
  /\ edits' = edits + 1
  /\ \/ /\ penpot # "missing" \/ review # "missing"
        /\ declared' \in Levels
        /\ UNCHANGED <<written, penpot, findings>>
     \/ /\ penpot \in {"ready", "explained"} /\ penpot' = "not applicable"
        /\ UNCHANGED <<written, declared, findings>>
     \/ /\ \E document \in written : written' = written \ {document}
        /\ UNCHANGED <<declared, penpot, findings>>
     \/ /\ findings = 0 /\ findings' = 1
        /\ UNCHANGED <<written, declared, penpot>>
  /\ Disturb
  /\ UNCHANGED <<place, prototype, review, changed, approvals>>

\* Only the human approves; whoever is asked decides in the end.
Approve ==
  /\ place = "open"
  /\ review \in {"pending", "changes-requested"}
  /\ review' = "approved"
  /\ approvals' = approvals + 1
  /\ Disturb
  /\ UNCHANGED <<place, written, declared, prototype, penpot, findings, changed, edits>>

Reject ==
  /\ place = "open"
  /\ review \in {"pending", "approved"} /\ edits < MaxEdits
  /\ review' = "changes-requested"
  /\ edits' = edits + 1
  /\ Disturb
  /\ UNCHANGED <<place, written, declared, prototype, penpot, findings, changed, approvals>>

\* /opsx:archive moves the directory; an interrupted move leaves files behind.
Archive ==
  /\ place = "open" /\ report.stage = "ready"
  /\ place' \in {"archived", "torn"}
  /\ changed' \in {changed, {}}
  /\ Disturb
  /\ UNCHANGED <<written, declared, prototype, penpot, review, findings, bookkeeping>>

-----------------------------------------------------------------------------
Assistant == Author \/ Sketch \/ Prepare \/ HandOver \/ Implement \/ Inspect
Autopilot == \/ \E requested \in Levels : Launch(requested)
             \/ DetectLevel \/ RunPlanning \/ RunBefore \/ RunAfter \/ Report

WorkflowNext == \/ Autopilot \/ Assistant
                \/ \E level \in Levels : New(level)
                \/ Review \/ Rethink \/ Approve \/ Reject \/ Archive

\* Codex reruns the autopilot, does what the stage lists, and the human answers
\* when asked.
Diligence ==
  /\ WF_workflowVars(Autopilot)
  /\ WF_workflowVars(Author) /\ WF_workflowVars(Sketch) /\ WF_workflowVars(Prepare)
  /\ WF_workflowVars(HandOver) /\ WF_workflowVars(Implement) /\ WF_workflowVars(Inspect)
  /\ WF_workflowVars(report.human /\ Approve)

WorkflowSpec == WorkflowInit /\ [][WorkflowNext]_workflowVars /\ Diligence

-----------------------------------------------------------------------------
(* What the loop promises. *)

WorkflowTypeOK ==
  /\ place \in {"none", "open", "archived", "torn"}
  /\ written \subseteq Documents /\ declared \in Levels \cup {"unset"}
  /\ prototype \in BOOLEAN /\ penpot \in PenpotStates /\ review \in ReviewStates
  /\ findings \in -1 .. 1 /\ changed \subseteq CodeFiles
  /\ report.stage \in Stages \cup {"none"} /\ report.level \in UiLevels \cup {"none"}
  /\ approvals \in 0 .. MaxEdits + 1 /\ edits \in 0 .. MaxEdits

\* A change whose UI level was asked for, or is given away by a document or an
\* artifact, is sent on to implementation only after a human approved its
\* design: whoever writes meanwhile, while nobody takes back anything; and, if
\* the files stood still under the gates, also after changes of mind, unless a
\* frontmatter declares that there is no UI.  Scaffold, level and gates are read
\* at different moments, and no template or document stands for the approval.
ImplementationNeedsHuman ==
  report.stage \in {"implementation", "ready"} /\ report.level \in {"minor", "major"} =>
    /\ edits = 0 => approvals > 0
    /\ report.quiet => declared = "none" \/ review = "approved"

\* Running the tool again, at any moment, leaves what the reviewer decided.
DecisionsAreKept ==
  [][review' # review /\ review \in {"approved", "changes-requested"}
       => approvals' > approvals \/ edits' > edits]_workflowVars

\* What the autopilot calls ready passes the CI gate, where nobody touched the
\* files since it began to read them and CI has the same language servers.
ReadyPassesCi ==
  report.stage = "ready" /\ report.quiet /\ (CiHasServers \/ ~HasServers) => CiPasses

\* The documentation of the before-apply gate: the design-review.md of a UI
\* change must be approved by a human.
UiFilesNeedApproval == CiPasses /\ "page" \in changed => review = "approved"

\* The loop ends: whatever level was requested, declared or given away by an
\* artifact, the documents the report asks for and the approval it asks for are
\* all that is needed to be ready, after the last change of mind.
LoopReachesReady == <>[](report.stage = "ready" \/ place \in {"archived", "torn"})
=============================================================================
