---------------------------- MODULE WorkflowProofs ----------------------------
(***************************************************************************)
(* Safety of the autopilot's loop, for any number of changes of mind and   *)
(* whichever machine has the language servers.                             *)
(*                                                                         *)
(* The autopilot reads the files gate by gate while assistant and human    *)
(* change them.  What it found is true only of an undisturbed run          *)
(* (StillTrue).  Of a disturbed one, what only grows is left: artifacts    *)
(* are never removed and approvals never uncounted, so that the level the  *)
(* report names and the level the gates judge by, which are read at        *)
(* different moments, agree until somebody takes something back (Levelled, *)
(* Approved).                                                              *)
(***************************************************************************)
EXTENDS SpecWorkflow, TLAPS

PilotSteps == {"idle", "detect", "planning", "before", "after", "report"}

\* What the autopilot has read, and what it said.
Pilots == [step : PilotSteps, requested : Levels, hint : UiLevels \cup {"none"},
           planning : BOOLEAN, before : BOOLEAN, after : BOOLEAN, quiet : BOOLEAN]
Reports == [stage : Stages \cup {"none"}, human : BOOLEAN,
            level : UiLevels \cup {"none"}, quiet : BOOLEAN]

\* Every approval but the one that stands was taken back.
ApprovalsCounted ==
  /\ approvals <= edits + 1
  /\ review # "approved" => approvals <= edits
  /\ review = "approved" => approvals > 0

\* A level that was asked for left its artifacts, and while nobody took back
\* anything, so did a level that was found.
Asked == {"minor", "major"}
GivenAway == "ui section" \in written \/ prototype \/ penpot # "missing"
Levelled ==
  /\ pilot.requested \in Asked => prototype
  /\ edits = 0 => declared = "unset"
  /\ edits = 0 /\ pilot.hint \in Asked => GivenAway

\* A gate that passed on a UI change saw an approved review.
Approved ==
  /\ pilot.before => pilot.step \in {"after", "report"}
  /\ pilot.before /\ edits = 0 /\ ReportedLevel \in Asked => approvals > 0
  /\ ImplementationNeedsHuman

\* What an undisturbed autopilot found, and what it reported, still holds.
StillTrue ==
  /\ pilot.quiet =>
       /\ pilot.step \in {"planning", "before", "after", "report"} => pilot.hint = UiLevel(changed)
       /\ pilot.planning => PlanningOk
       /\ pilot.before => BeforeApplyOk(HasServers)
       /\ pilot.after => AfterApplyOk
  /\ report.quiet /\ report.stage = "ready" => BeforeApplyOk(HasServers) /\ AfterApplyOk

WorkflowInv ==
  /\ WorkflowTypeOK
  /\ pilot \in Pilots /\ report \in Reports
  /\ ApprovalsCounted
  /\ Levelled
  /\ Approved
  /\ StillTrue

-----------------------------------------------------------------------------
(* Facts about the gates. *)

\* The gates know four levels, and BeforeApply covers Planning.
LEMMA GateLevels ==
  ASSUME WorkflowTypeOK, NEW files
  PROVE  UiLevel(files) \in UiLevels \cup {"none"}
BY DEF UiLevel, WorkflowTypeOK, Levels, UiLevels

\* Artifacts and documents give a UI change away to the gates as well, unless a
\* frontmatter says that it is none.
LEMMA GatesSeeLevel ==
  ASSUME WorkflowTypeOK, declared # "none", GivenAway \/ UiLevel(changed) \in Asked
  PROVE  GateLevel \in UiLevels
BY DEF GateLevel, UiLevel, GivenAway, Asked, WorkflowTypeOK, Levels, UiLevels

\* A before-apply gate that lets a UI change through has seen an approval.
LEMMA GateSawApproval ==
  ASSUME BeforeApplyOk(HasServers), GateLevel \in UiLevels
  PROVE  review = "approved"
BY DEF BeforeApplyOk

\* CI needs language servers, or the reason why there are none, only where the
\* assistant's machine needed them too.
LEMMA GateOnCi ==
  ASSUME BeforeApplyOk(HasServers), CiHasServers \/ ~HasServers
  PROVE  BeforeApplyOk(CiHasServers)
BY DEF BeforeApplyOk

-----------------------------------------------------------------------------
(* The invariant is inductive. *)

\* Initially nothing was read, said or approved.
LEMMA WorkflowInitial ==
  ASSUME WorkflowConstants, WorkflowInit
  PROVE  WorkflowInv
<1> USE DEF WorkflowConstants, WorkflowInit, Idle, NoReport
<1>1. WorkflowTypeOK
  <2>1. approvals \in 0 .. MaxEdits + 1 /\ edits \in 0 .. MaxEdits /\ findings \in -1 .. 1
    OBVIOUS
  <2>2. penpot \in PenpotStates /\ review \in ReviewStates
    BY DEF PenpotStates, ReviewStates
  <2>3. QED
    BY <2>1, <2>2 DEF WorkflowTypeOK
<1>2. pilot \in Pilots /\ report \in Reports
  BY DEF Pilots, Reports, PilotSteps, Levels, UiLevels
<1>3. ApprovalsCounted /\ Levelled /\ Approved /\ StillTrue
  BY DEF ApprovalsCounted, Levelled, Asked, Approved, ImplementationNeedsHuman, StillTrue
<1>4. QED
  BY <1>1, <1>2, <1>3 DEF WorkflowInv

\* Whoever changes a file makes what was read, and what was said, a matter of
\* the past; approvals and changes of mind are never forgotten.
LEMMA DisturbedReading ==
  ASSUME WorkflowInv, Disturb, approvals' \in Nat, approvals' >= approvals,
         edits' = 0 => edits = 0
  PROVE  /\ pilot' \in Pilots /\ report' \in Reports
         /\ report'.stage = report.stage /\ report'.level = report.level
         /\ pilot'.requested = pilot.requested /\ pilot'.hint = pilot.hint
         /\ Approved' /\ StillTrue'
<1>1. /\ pilot' \in Pilots
      /\ pilot'.before = pilot.before /\ pilot'.step = pilot.step
      /\ pilot'.requested = pilot.requested /\ pilot'.hint = pilot.hint
      /\ pilot'.quiet = FALSE
  BY DEF WorkflowInv, Disturb, Pilots
<1>2. /\ report' \in Reports
      /\ report'.stage = report.stage /\ report'.level = report.level
      /\ report'.quiet = FALSE
  BY DEF WorkflowInv, Disturb, Reports
<1>3. approvals \in Nat /\ ReportedLevel' = ReportedLevel
  BY <1>1 DEF WorkflowInv, WorkflowTypeOK, WorkflowConstants, ReportedLevel
<1>4. Approved'
  BY <1>1, <1>2, <1>3 DEF WorkflowInv, Approved, ImplementationNeedsHuman
<1>5. StillTrue'
  BY <1>1, <1>2 DEF StillTrue
<1>6. QED
  BY <1>1, <1>2, <1>4, <1>5

\* The files keep their types, whoever writes them, and every approval is
\* counted.
LEMMA DisturbingStep ==
  ASSUME WorkflowConstants, WorkflowInv,
         \/ Assistant \/ Review \/ Rethink \/ Approve \/ Reject \/ Archive
         \/ \E level \in Levels : New(level)
  PROVE  WorkflowInv'
<1> DEFINE Files ==
      /\ place' \in {"none", "open", "archived", "torn"}
      /\ written' \subseteq Documents /\ declared' \in Levels \cup {"unset"}
      /\ prototype' \in BOOLEAN /\ penpot' \in PenpotStates /\ review' \in ReviewStates
      /\ findings' \in -1 .. 1 /\ changed' \subseteq CodeFiles
<1>t. /\ WorkflowTypeOK /\ ApprovalsCounted /\ Levelled
      /\ approvals \in Nat /\ edits \in Nat /\ MaxEdits \in Nat
  BY DEF WorkflowInv, WorkflowTypeOK, WorkflowConstants
<1>1. Disturb
  BY DEF Assistant, Author, Write, Sketch, Prepare, HandOver, Implement, Inspect, Review,
         Rethink, Approve, Reject, Archive, New
<1>2. Files
  <2>1. CASE Author \/ Prepare
    BY <1>t, <2>1 DEF Author, Prepare, Write, WorkflowTypeOK, Documents
  <2>2. CASE Sketch \/ \E level \in Levels : New(level)
    BY <1>t, <2>2 DEF Sketch, New, Scaffold, WorkflowTypeOK, PenpotStates, ReviewStates
  <2>3. CASE HandOver
    BY <1>t, <2>3 DEF HandOver, WorkflowTypeOK, PenpotStates
  <2>4. CASE Inspect
    <3>1. findings' \in {0, 1}
      BY <2>4 DEF Inspect
    <3>2. findings' \in -1 .. 1
      BY <3>1
    <3>3. QED
      BY <1>t, <2>4, <3>2 DEF Inspect, WorkflowTypeOK
  <2>5. CASE Implement
    BY <1>t, <2>5 DEF Implement, WorkflowTypeOK, Documents, CodeFiles
  <2>6. CASE Rethink
    <3>1. /\ declared' = declared \/ declared' \in Levels
          /\ penpot' = penpot \/ penpot' = "not applicable"
          /\ written' \subseteq written
          /\ findings' = findings \/ findings' = 1
          /\ UNCHANGED <<place, prototype, review, changed>>
      BY <2>6 DEF Rethink
    <3>2. findings' \in -1 .. 1
      <4>1. findings \in -1 .. 1
        BY <1>t DEF WorkflowTypeOK
      <4>2. 1 \in -1 .. 1
        OBVIOUS
      <4>3. QED
        BY <3>1, <4>1, <4>2, Zenon
    <3>3. penpot' \in PenpotStates
      BY <1>t, <3>1 DEF WorkflowTypeOK, PenpotStates
    <3>4. QED
      BY <1>t, <3>1, <3>2, <3>3 DEF WorkflowTypeOK
  <2>7. CASE Review \/ Approve \/ Reject \/ Archive
    BY <1>t, <2>7 DEF Review, Approve, Reject, Archive, WorkflowTypeOK, ReviewStates
  <2>8. QED
    BY <2>1, <2>2, <2>3, <2>4, <2>5, <2>6, <2>7 DEF Assistant
<1>3. /\ approvals' \in 0 .. MaxEdits + 1 /\ edits' \in 0 .. MaxEdits
      /\ approvals' >= approvals /\ (edits' = 0 => edits = 0)
      /\ ApprovalsCounted'
  <2> USE DEF WorkflowTypeOK, ApprovalsCounted
  <2>1. CASE Assistant \/ Review \/ Archive \/ \E level \in Levels : New(level)
    <3>1. UNCHANGED bookkeeping
      BY <2>1 DEF Assistant, Author, Write, Sketch, Prepare, HandOver, Implement, Inspect,
                  Review, Archive, New
    <3>2. review' = "approved" <=> review = "approved"
      BY <2>1 DEF Assistant, Author, Write, Sketch, Prepare, HandOver, Implement, Inspect,
                  Review, Archive, New, Scaffold
    <3>3. QED
      BY <1>t, <3>1, <3>2 DEF bookkeeping
  <2>2. CASE Rethink \/ Reject
    <3>1. /\ approvals' = approvals /\ edits' = edits + 1 /\ edits < MaxEdits
          /\ review' = review \/ review' = "changes-requested"
      BY <2>2 DEF Rethink, Reject
    <3>2. QED
      BY <1>t, <3>1
  <2>3. CASE Approve
    BY <1>t, <2>3 DEF Approve
  <2>4. QED
    BY <2>1, <2>2, <2>3
<1>4. /\ pilot' \in Pilots /\ report' \in Reports
      /\ report'.stage = report.stage /\ report'.level = report.level
      /\ pilot'.requested = pilot.requested /\ pilot'.hint = pilot.hint
      /\ Approved' /\ StillTrue'
  BY <1>1, <1>3, DisturbedReading
<1>5. WorkflowTypeOK'
  BY <1>2, <1>3, <1>4 DEF WorkflowInv, WorkflowTypeOK
<1>6. Levelled'
  <2>1. prototype => prototype'
    BY DEF Assistant, Author, Write, Sketch, Prepare, HandOver, Implement, Inspect, Review,
           Rethink, Approve, Reject, Archive, New, Scaffold
  <2>2. CASE Rethink \/ Reject
    <3>1. edits' = edits + 1
      BY <2>2 DEF Rethink, Reject
    <3>2. edits' # 0
      BY <1>t, <3>1
    <3>3. QED
      BY <1>t, <1>4, <2>1, <3>2 DEF Levelled
  <2>3. CASE Assistant \/ Review \/ Approve \/ Archive \/ \E level \in Levels : New(level)
    <3>1. /\ declared' = declared /\ edits' = edits
          /\ written \subseteq written'
          /\ penpot # "missing" => penpot' # "missing"
      BY <2>3 DEF Assistant, Author, Write, Sketch, Prepare, HandOver, Implement, Inspect,
                  Review, Approve, Archive, New, Scaffold, bookkeeping
    <3>2. GivenAway => GivenAway'
      BY <2>1, <3>1 DEF GivenAway
    <3>3. QED
      BY <1>t, <1>4, <2>1, <3>1, <3>2 DEF Levelled
  <2>4. QED
    BY <2>2, <2>3
<1>7. QED
  BY <1>3, <1>4, <1>5, <1>6 DEF WorkflowInv

\* The autopilot keeps the invariant: it records what each gate says at the
\* moment it reads the files.
LEMMA AutopilotStep ==
  ASSUME WorkflowConstants, WorkflowInv, Autopilot
  PROVE  WorkflowInv'
<1>t. /\ WorkflowTypeOK /\ pilot \in Pilots /\ report \in Reports
      /\ ApprovalsCounted /\ Levelled /\ Approved /\ StillTrue
  BY DEF WorkflowInv
<1>1. ASSUME NEW requested \in Levels, Launch(requested)
      PROVE  WorkflowInv'
  <2>1. pilot' \in Pilots /\ pilot'.planning = FALSE /\ pilot'.before = FALSE
        /\ pilot'.after = FALSE /\ pilot'.step = "detect" /\ pilot'.hint = "none"
        /\ pilot'.requested = requested
    BY <1>1 DEF Launch, Idle, Pilots, PilotSteps, Levels, UiLevels
  <2>2. report' \in Reports /\ report'.stage = report.stage
        /\ report'.level = report.level /\ report'.quiet = FALSE
    BY <1>t, <1>1 DEF Launch, Reports
  <2>3. /\ UNCHANGED <<written, declared, findings, changed, approvals, edits>>
        /\ place' = "open" /\ prototype' \in BOOLEAN
        /\ penpot' \in PenpotStates /\ review' \in ReviewStates
        /\ review' = "approved" <=> review = "approved"
        /\ requested \in Asked => prototype'
    BY <1>t, <1>1 DEF Launch, Scaffold, bookkeeping, WorkflowTypeOK, PenpotStates,
                      ReviewStates, Asked
  <2>4. WorkflowTypeOK' /\ ApprovalsCounted'
    BY <1>t, <2>2, <2>3 DEF WorkflowTypeOK, ApprovalsCounted
  <2>5. Approved' /\ StillTrue'
    BY <1>t, <2>1, <2>2, <2>3 DEF Approved, ImplementationNeedsHuman, StillTrue
  <2>6. Levelled'
    BY <1>t, <2>1, <2>3 DEF Levelled, Asked
  <2>7. QED
    BY <2>1, <2>2, <2>4, <2>5, <2>6 DEF WorkflowInv
<1>2. ASSUME UNCHANGED <<change, bookkeeping>>, pilot' \in Pilots, report' \in Reports,
             Levelled', Approved', StillTrue'
      PROVE  WorkflowInv'
  <2>1. WorkflowTypeOK' /\ ApprovalsCounted'
    BY <1>t, <1>2 DEF WorkflowTypeOK, ApprovalsCounted, change, bookkeeping, Reports
  <2>2. QED
    BY <1>2, <2>1 DEF WorkflowInv
<1>g. ASSUME UNCHANGED <<change, bookkeeping>>
      PROVE  /\ PlanningOk' = PlanningOk /\ AfterApplyOk' = AfterApplyOk
             /\ BeforeApplyOk(HasServers)' = BeforeApplyOk(HasServers)
             /\ UiLevel(changed)' = UiLevel(changed) /\ GivenAway' = GivenAway
             /\ UNCHANGED <<approvals, edits, declared, review, prototype>>
  BY <1>g DEF change, bookkeeping, PlanningOk, AfterApplyOk, BeforeApplyOk, GateLevel, UiLevel,
              GivenAway
<1>l. ASSUME UNCHANGED <<change, bookkeeping>>, pilot'.requested = pilot.requested,
             pilot'.hint = pilot.hint
      PROVE  Levelled' /\ ReportedLevel' = ReportedLevel
  BY <1>t, <1>g, <1>l DEF Levelled, ReportedLevel
<1>3. CASE DetectLevel
  <2>1. UiLevel(changed) \in UiLevels \cup {"none"}
    BY <1>t, GateLevels
  <2>2. /\ pilot' \in Pilots /\ pilot'.planning = pilot.planning
        /\ pilot'.before = pilot.before /\ pilot'.after = pilot.after
        /\ pilot'.quiet = pilot.quiet /\ pilot'.requested = pilot.requested
        /\ pilot'.hint = UiLevel(changed)
        /\ pilot.step = "detect" /\ pilot'.step = "planning"
    BY <1>t, <1>3, <2>1 DEF DetectLevel, Pilots, PilotSteps
  <2>3. UNCHANGED <<change, bookkeeping, report>>
    BY <1>3 DEF DetectLevel
  <2>4. ~pilot.before /\ ~pilot'.before
    BY <1>t, <2>2 DEF Approved, Pilots
  <2>5. edits = 0 /\ UiLevel(changed) \in Asked => GivenAway
    BY <1>t DEF Levelled, UiLevel, Asked, GivenAway
  <2>6. Levelled'
    BY <1>t, <1>g, <2>2, <2>3, <2>5 DEF Levelled
  <2>7. Approved' /\ StillTrue'
    BY <1>t, <1>g, <2>2, <2>3, <2>4 DEF Approved, ImplementationNeedsHuman, StillTrue
  <2>8. QED
    BY <1>t, <1>2, <2>2, <2>3, <2>6, <2>7
<1>4. CASE RunPlanning
  <2>1. /\ pilot' \in Pilots /\ pilot'.planning = PlanningOk
        /\ pilot'.before = pilot.before /\ pilot'.after = pilot.after
        /\ pilot'.quiet = pilot.quiet /\ pilot'.requested = pilot.requested
        /\ pilot'.hint = pilot.hint /\ pilot.step = "planning" /\ pilot'.step = "before"
    BY <1>t, <1>4 DEF RunPlanning, Pilots, PilotSteps, PlanningOk
  <2>2. UNCHANGED <<change, bookkeeping, report>>
    BY <1>4 DEF RunPlanning
  <2>3. Approved' /\ StillTrue'
    BY <1>t, <1>g, <1>l, <2>1, <2>2 DEF Approved, ImplementationNeedsHuman, StillTrue
  <2>4. QED
    BY <1>t, <1>2, <1>l, <2>1, <2>2, <2>3
<1>5. CASE RunBefore
  <2>1. /\ pilot' \in Pilots /\ pilot'.planning = pilot.planning
        /\ pilot'.before = BeforeApplyOk(HasServers) /\ pilot'.after = pilot.after
        /\ pilot'.quiet = pilot.quiet /\ pilot'.requested = pilot.requested
        /\ pilot'.hint = pilot.hint /\ pilot.step = "before" /\ pilot'.step = "after"
    BY <1>t, <1>5 DEF RunBefore, Pilots, PilotSteps, BeforeApplyOk
  <2>2. UNCHANGED <<change, bookkeeping, report>>
    BY <1>5 DEF RunBefore
  <2>3. pilot'.before /\ edits = 0 /\ ReportedLevel \in Asked => approvals > 0
    <3>1. SUFFICES ASSUME BeforeApplyOk(HasServers), edits = 0, ReportedLevel \in Asked
                   PROVE  approvals > 0
      BY <2>1
    <3>2. declared = "unset" /\ GivenAway
      BY <1>t, <3>1 DEF Levelled, ReportedLevel, GivenAway
    <3>3. review = "approved"
      BY <1>t, <3>1, <3>2, GatesSeeLevel, GateSawApproval
    <3>4. QED
      BY <1>t, <3>3 DEF ApprovalsCounted
  <2>4. Approved' /\ StillTrue'
    BY <1>t, <1>g, <1>l, <2>1, <2>2, <2>3 DEF Approved, ImplementationNeedsHuman, StillTrue
  <2>5. QED
    BY <1>t, <1>2, <1>l, <2>1, <2>2, <2>4
<1>6. CASE RunAfter
  <2>1. /\ pilot' \in Pilots /\ pilot'.planning = pilot.planning
        /\ pilot'.before = pilot.before /\ pilot'.after = AfterApplyOk
        /\ pilot'.quiet = pilot.quiet /\ pilot'.requested = pilot.requested
        /\ pilot'.hint = pilot.hint /\ pilot.step = "after" /\ pilot'.step = "report"
    BY <1>t, <1>6 DEF RunAfter, Pilots, PilotSteps, AfterApplyOk
  <2>2. UNCHANGED <<change, bookkeeping, report>>
    BY <1>6 DEF RunAfter
  <2>3. Approved' /\ StillTrue'
    BY <1>t, <1>g, <1>l, <2>1, <2>2 DEF Approved, ImplementationNeedsHuman, StillTrue
  <2>4. QED
    BY <1>t, <1>2, <1>l, <2>1, <2>2, <2>3
<1>7. CASE Report
  <2>1. /\ pilot' \in Pilots /\ pilot'.before = FALSE /\ pilot'.planning = FALSE
        /\ pilot'.after = FALSE /\ pilot'.step = "idle"
        /\ pilot'.requested = "none" /\ pilot'.hint = "none"
    BY <1>7 DEF Report, Idle, Pilots, PilotSteps, Levels, UiLevels
  <2>2. /\ report' \in Reports /\ report'.stage = Stage /\ report'.level = ReportedLevel
        /\ report'.quiet = pilot.quiet /\ pilot.step = "report"
        /\ UNCHANGED <<change, bookkeeping>>
    <3>1. ReportedLevel \in UiLevels \cup {"none"}
      BY <1>t DEF ReportedLevel, Pilots, Levels, UiLevels
    <3>2. QED
      BY <1>t, <1>7, <3>1 DEF Report, Reports, Pilots, Stage, Stages
  <2>3. /\ Stage \in {"implementation", "ready"} => pilot.before
        /\ Stage = "ready" => pilot.after
    BY DEF Stage
  <2>4. ImplementationNeedsHuman'
    <3>1. SUFFICES ASSUME pilot.before, ReportedLevel \in Asked
                   PROVE  /\ edits = 0 => approvals > 0
                          /\ pilot.quiet => declared = "none" \/ review = "approved"
      BY <1>g, <2>2, <2>3 DEF ImplementationNeedsHuman, Asked
    <3>2. ASSUME pilot.quiet, declared # "none" PROVE review = "approved"
      <4>1. BeforeApplyOk(HasServers) /\ pilot.hint = UiLevel(changed)
        BY <1>t, <2>2, <3>1, <3>2 DEF StillTrue
      <4>2. GivenAway \/ UiLevel(changed) \in Asked
        BY <1>t, <3>1, <4>1 DEF ReportedLevel, Levelled, GivenAway
      <4>3. QED
        BY <1>t, <3>2, <4>1, <4>2, GatesSeeLevel, GateSawApproval
    <3>3. QED
      BY <1>t, <3>1, <3>2 DEF Approved
  <2>5. Approved'
    BY <2>1, <2>4 DEF Approved
  <2>6. StillTrue'
    BY <1>t, <1>g, <2>1, <2>2, <2>3 DEF StillTrue
  <2>7. Levelled'
    BY <1>t, <1>g, <2>1, <2>2 DEF Levelled, Asked
  <2>8. QED
    BY <1>2, <2>1, <2>2, <2>5, <2>6, <2>7
<1>8. QED
  BY <1>1, <1>3, <1>4, <1>5, <1>6, <1>7 DEF Autopilot

\* WorkflowInv holds throughout.
LEMMA WorkflowInvariant == WorkflowSpec => []WorkflowInv
<1> USE WorkflowConstants
<1>1. WorkflowInit => WorkflowInv
  BY WorkflowInitial
<1>2. WorkflowInv /\ [WorkflowNext]_workflowVars => WorkflowInv'
  <2> SUFFICES ASSUME WorkflowInv, [WorkflowNext]_workflowVars
               PROVE  WorkflowInv'
    OBVIOUS
  <2>1. CASE UNCHANGED workflowVars
    <3>1. /\ UNCHANGED <<place, written, declared, prototype, penpot, review, findings, changed>>
          /\ UNCHANGED <<pilot, report, approvals, edits>>
      BY <2>1 DEF workflowVars, change, bookkeeping
    <3>2. WorkflowTypeOK' /\ ApprovalsCounted' /\ Levelled' /\ Approved'
      BY <3>1 DEF WorkflowInv, WorkflowTypeOK, ApprovalsCounted, Levelled, GivenAway, Approved,
                  ReportedLevel, ImplementationNeedsHuman
    <3>3. StillTrue'
      BY <3>1 DEF WorkflowInv, StillTrue, PlanningOk, BeforeApplyOk, AfterApplyOk,
                  GateLevel, UiLevel
    <3>4. QED
      BY <3>1, <3>2, <3>3 DEF WorkflowInv
  <2>2. CASE WorkflowNext
    BY <2>2, DisturbingStep, AutopilotStep DEF WorkflowNext
  <2>3. QED
    BY <2>1, <2>2
<1>3. QED
  BY <1>1, <1>2, PTL DEF WorkflowSpec

-----------------------------------------------------------------------------
(* What the loop promises. *)

\* Every file has one of its contents and every report one of its forms; there
\* is one approval more than changes of mind, at most.
THEOREM WorkflowTypeCorrect == WorkflowSpec => []WorkflowTypeOK
<1>1. WorkflowInv => WorkflowTypeOK
  BY DEF WorkflowInv
<1>2. QED
  BY <1>1, WorkflowInvariant, PTL

\* autopilot sends a change whose UI level was asked for or given away by its
\* files on to implementation only after a human approved the design: whoever
\* writes meanwhile, until somebody takes something back or declares otherwise.
THEOREM HumansDecide == WorkflowSpec => []ImplementationNeedsHuman
<1>1. WorkflowInv => ImplementationNeedsHuman
  BY DEF WorkflowInv, Approved
<1>2. QED
  BY <1>1, WorkflowInvariant, PTL

\* A change that an undisturbed autopilot calls ready passes check_ci_gate.
THEOREM ReadyChangesPass == WorkflowSpec => []ReadyPassesCi
<1>1. WorkflowInv => ReadyPassesCi
  <2> SUFFICES ASSUME WorkflowInv, report.stage = "ready", report.quiet,
                      CiHasServers \/ ~HasServers
               PROVE  CiPasses
    BY DEF ReadyPassesCi
  <2>1. BeforeApplyOk(HasServers) /\ AfterApplyOk
    BY DEF WorkflowInv, StillTrue
  <2>2. BeforeApplyOk(CiHasServers) /\ place = "open"
    BY <2>1, GateOnCi DEF BeforeApplyOk, PlanningOk
  <2>3. QED
    BY <2>1, <2>2 DEF CiPasses, Associated
<1>2. QED
  BY <1>1, WorkflowInvariant, PTL

\* No run of the tool, and nothing the assistant writes, replaces a decision of
\* the reviewer: scaffold_change copies a template only where there is no file.
THEOREM ReviewersAreHeard == WorkflowSpec => DecisionsAreKept
<1> DEFINE Kept == review' # review /\ review \in {"approved", "changes-requested"}
                     => approvals' > approvals \/ edits' > edits
<1>1. WorkflowInv /\ [WorkflowNext]_workflowVars => [Kept]_workflowVars
  <2> SUFFICES ASSUME WorkflowInv, WorkflowNext
               PROVE  Kept
    OBVIOUS
  <2>1. approvals \in Nat /\ edits \in Nat
    BY DEF WorkflowInv, WorkflowTypeOK
  <2>2. CASE Approve \/ Reject
    BY <2>1, <2>2 DEF Approve, Reject
  <2>3. CASE Review \/ Archive \/ Rethink \/ Assistant \/ \E level \in Levels : New(level)
    BY <2>3 DEF Review, Archive, Rethink, Assistant, Author, Write, Sketch, Prepare,
                HandOver, Implement, Inspect, New, Scaffold
  <2>4. CASE Autopilot
    BY <2>4 DEF Autopilot, Launch, Scaffold, DetectLevel, RunPlanning, RunBefore,
                RunAfter, Report, change
  <2>5. QED
    BY <2>2, <2>3, <2>4 DEF WorkflowNext
<1>2. QED
  BY <1>1, WorkflowInvariant, PTL DEF WorkflowSpec, DecisionsAreKept
=============================================================================
