------------------------------ MODULE EmsPlan ------------------------------
(***************************************************************************)
(* A private EMS configuration on its way to the device: the point table   *)
(* (point_table.py), the scenario plan (ems_test_plan.py), the offline     *)
(* preflight over both (preflight.py), and the control scenario that the   *)
(* supplied pytest template runs (examples/pytest_ems).                    *)
(*                                                                         *)
(* The documents are data the loaders accept or reject; the device's       *)
(* feedback value moves on its own and after a command, or fails to move,  *)
(* and a rerun plugin may start the same test again in one process.        *)
(* Capability identifiers are abstracted to the roles they play; numbers   *)
(* to small integers, whose tolerance arithmetic is exact; false and true  *)
(* to 0 and 1, told from numbers by the kind of an expectation or a point. *)
(***************************************************************************)
EXTENDS Integers, Sequences, FiniteSets

CONSTANTS Documents,    \* the configurations explored
          Numbers,      \* what a numeric feedback point can read
          MaxAttempts   \* bound: how often the control test is started

\* The expectations of a control, as _expectation parses them; the postcondition is a
\* required field.  Feedback of a numeric point is a number.
Expectation == [kind : {"absent", "boolean", "number"}, value : Int, tol : Int]

ASSUME PlanAssumption ==
    /\ Numbers \subseteq Int
    /\ \A d \in Documents :
          /\ {d.control.before, d.control.after, d.control.restored} \subseteq Expectation
          /\ d.control.after.kind # "absent"

VARIABLES doc,        \* the configuration, fixed
          planPc,     \* "load", "preflight", "select", the test's steps, "idle"
          verdict,    \* the preflight verdict
          feedback,   \* what the device's feedback point reads now
          attempts,   \* starts of the control test
          attempted,  \* the scenario is in _ATTEMPTED_CONTROL_SCENARIOS
          sent,       \* commands sent: how many operates, how many restores
          seen,       \* the values the test accepted, in order
          result      \* the latest test's outcome

planVars == <<doc, planPc, verdict, feedback, attempts, attempted, sent, seen, result>>

PlanStart ==
    /\ planPc = "load"
    /\ verdict = FALSE
    /\ feedback = 0
    /\ attempts = 0 /\ attempted = FALSE
    /\ sent = [operate |-> 0, restore |-> 0]
    /\ seen = <<>>
    /\ result = "none"

PlanInit == doc \in Documents /\ PlanStart
-----------------------------------------------------------------------------
(***************************************************************************)
(* Expectations: [kind, value, tol], kind "absent", "boolean" or "number". *)
(***************************************************************************)
Distance(a, b) == IF a < b THEN b - a ELSE a - b

\* ValueExpectation.matches; FitsPoint makes the kinds agree, and a read returns
\* only measurements of the point's type (matching_measurements).
Matches(e, observed) ==
    IF e.kind = "boolean" THEN observed = e.value
    ELSE Distance(observed, e.value) <= e.tol

\* Defect: two ranges that meet in one value are taken for disjoint.
Overlaps_Open(a, b) ==
    IF a.kind # b.kind THEN FALSE
    ELSE IF a.kind = "boolean" THEN a.value = b.value
    ELSE Distance(a.value, b.value) < a.tol + b.tol

\* ValueExpectation.overlaps: a distance close to the sum of tolerances overlaps.
Overlaps(a, b) ==
    IF a.kind # b.kind THEN FALSE
    ELSE IF a.kind = "boolean" THEN a.value = b.value
    ELSE Distance(a.value, b.value) <= a.tol + b.tol

Present(e) == e.kind # "absent"
WellFormed(e) == e.kind = "boolean" => e.tol = 0
-----------------------------------------------------------------------------
(***************************************************************************)
(* The point table.                                                        *)
(***************************************************************************)
\* The static group and variation are the point type's.
ObjectsMatch(row) == row.objects = "match"

\* Event group, variation and class: all of them, of the type's event object, or none.
EventComplete(row) == row.event \in {"none", "complete"}

\* A range8 read cannot address an index above 255.
QualifierFits(row) == row.qualifier = "range8" => row.index <= 255

\* Engineering limits come in pairs, in order, and only on numeric points.
LimitsFit(row) ==
    \/ row.range = "none"
    \/ row.range = "both" /\ row.type = "number" /\ row.min <= row.max

\* _point_from_row: the cross-field rules of one row.
RowAccepted(row) ==
    ObjectsMatch(row) /\ EventComplete(row) /\ QualifierFits(row) /\ LimitsFit(row)

\* load_point_table: ids differ after case folding, and one row per address.
TableAccepted(rows) ==
    /\ Len(rows) > 0
    /\ \A i \in DOMAIN rows : RowAccepted(rows[i])
    /\ \A i, j \in DOMAIN rows : i # j =>
         /\ rows[i].folded # rows[j].folded
         /\ <<rows[i].type, rows[i].index>> # <<rows[j].type, rows[j].index>>

Rows == {doc.rows[i] : i \in DOMAIN doc.rows}
EnabledRows == {row \in Rows : row.enabled}
ById(id) == CHOOSE row \in Rows : row.id = id
Refers(id) == \E row \in Rows : row.id = id /\ row.enabled

\* _validate_expectation_for_point: the type, and the whole tolerance in range.
FitsPoint(e, row) ==
    /\ e.kind = row.type
    /\ row.range = "both" =>
         e.value - e.tol >= row.min /\ e.value + e.tol <= row.max
-----------------------------------------------------------------------------
(***************************************************************************)
(* The plan: one poll, one unsolicited and one control scenario.           *)
(***************************************************************************)
Lab == doc.environment = "LAB"
Poll == doc.poll
Unsolicited == doc.unsolicited
Control == doc.control
Restores == Present(Control.restored)

\* _classes: at least one, no duplicates.
ClassesAccepted(classes) == classes # {}

\* _poll_scenario
PollAccepted ==
    /\ IF Poll.type = "integrity" THEN Poll.classes = {} ELSE ClassesAccepted(Poll.classes)
    /\ Poll.minimum <= Poll.maximum

\* _unsolicited_scenario
UnsolicitedAccepted ==
    ClassesAccepted(Unsolicited.classes) /\ WellFormed(Unsolicited.expected)

\* _control_command: EMS scenarios send no null operation.
CommandAccepted == Control.operation # "null"

\* Defect: a disabled control's placeholder is never looked at again.
AuthorizationAccepted_Any == TRUE
\* Enabled LAB controls carry a real authorization reference.
AuthorizationAccepted ==
    Lab => /\ Control.authorization # "absent"
           /\ Control.enabled => Control.authorization = "approved"

\* The restore command addresses what the command did, and a LAB one differs from it.
RestoreAccepted ==
    /\ Restores = Control.restoreCommand
    /\ Restores => Control.sameTarget
    /\ Lab => Restores /\ ~Control.sameCommand

\* A LAB scenario restores its exact baseline, which its effect cannot be taken for.
BaselineAccepted ==
    Lab => /\ Control.restored = Control.before
           /\ ~Overlaps(Control.before, Control.after)

Expectations == {Control.before, Control.after, Control.restored}

\* _control_scenario
ControlAccepted ==
    /\ AuthorizationAccepted
    /\ CommandAccepted
    /\ RestoreAccepted
    /\ \A e \in Expectations : WellFormed(e)
    /\ BaselineAccepted
    /\ Control.interval <= Control.timeout

\* The point of the scenario reports events of one of the requested classes.
Requested(id, classes) == ById(id).event = "complete" /\ ById(id).class \in classes

\* _validate_point_references
ReferencesAccepted ==
    /\ Refers(Poll.point)
    /\ Poll.type = "class" => Requested(Poll.point, Poll.classes)
    /\ Refers(Unsolicited.point)
    /\ Requested(Unsolicited.point, Unsolicited.classes)
    /\ FitsPoint(Unsolicited.expected, ById(Unsolicited.point))
    /\ Refers(Control.point)
    /\ \A e \in Expectations : Present(e) => FitsPoint(e, ById(Control.point))

\* load_point_table, then load_ems_test_plan against it.
Load ==
    /\ planPc = "load"
    /\ planPc' = IF /\ TableAccepted(doc.rows)
                    /\ PollAccepted /\ UnsolicitedAccepted /\ ControlAccepted
                    /\ ReferencesAccepted
                 THEN "preflight" ELSE "rejected"
    /\ UNCHANGED <<doc, verdict, feedback, attempts, attempted, sent, seen, result>>
-----------------------------------------------------------------------------
(***************************************************************************)
(* Preflight and the capabilities the generated tests will declare.        *)
(***************************************************************************)
ObjectCap == "object"
QualifierCap(row) == IF row.qualifier = "range8" THEN "Q00" ELSE "Q01"
StaticCaps(row) == {ObjectCap, QualifierCap(row)}
EventCaps(row) == IF row.event = "none" THEN {} ELSE {"eventObject"}
\* Group 60: variation 1 stands for static data, 2 to 4 for the event classes.
ClassObject == <<"G60.V2", "G60.V3", "G60.V4">>
ClassCaps(classes) == {ClassObject[k] : k \in classes}
PollCaps ==
    {"READ", "CLASS", "Q06"}
    \cup (IF Poll.type = "integrity" THEN {"G60.V1"} \cup ClassCaps(1..3)
          ELSE ClassCaps(Poll.classes))
UnsolicitedCaps ==
    {"UNSOLICITED", "ENABLE", "DISABLE", "UNSOLICITED_RESPONSE", "Q06"}
    \cup ClassCaps(Unsolicited.classes) \cup EventCaps(ById(Unsolicited.point))
CommandCaps == {"command", IF Control.index <= 255 THEN "Q17" ELSE "Q28"}
ControlCaps == {"COMMAND_STATUS", Control.mode, "READ"}
                 \cup CommandCaps \cup StaticCaps(ById(Control.point))

\* Defect: preflight forgets what reading the points needs.
Required_NoPoints ==
    {"TCP", "READ"}
    \cup (IF Poll.enabled THEN PollCaps ELSE {})
    \cup (IF Unsolicited.enabled THEN UnsolicitedCaps ELSE {})
    \cup (IF Control.enabled THEN ControlCaps ELSE {})

\* _required_capabilities
Required ==
    {"TCP", "READ"}
    \cup (UNION {StaticCaps(row) : row \in EnabledRows})
    \cup (IF Poll.enabled
            THEN PollCaps \cup (IF Poll.type = "class" THEN EventCaps(ById(Poll.point))
                                ELSE {ObjectCap})
            ELSE {})
    \cup (IF Unsolicited.enabled THEN UnsolicitedCaps ELSE {})
    \cup (IF Control.enabled THEN ControlCaps ELSE {})

Supported(cap) == cap \notin doc.unsupported
FrameworkReady(cap) == cap \notin doc.unready

\* _load_capability_matrix, and load_ems_profile, which refuses a PICS ("foreign")
\* that names a capability the matrix does not have.
MatrixAccepted == doc.matrix = "good"
PicsAccepted == doc.pics = "good"

\* _contains_placeholder: the device identity was never filled in.
Placeholder == doc.placeholder

\* build_preflight_report: ready when nothing blocks.
Preflight ==
    /\ planPc = "preflight"
    /\ IF MatrixAccepted /\ PicsAccepted
          THEN /\ verdict' = (/\ ~Placeholder
                              /\ EnabledRows # {}
                              /\ Poll.enabled \/ Unsolicited.enabled \/ Control.enabled
                              /\ \A cap \in Required :
                                   Supported(cap) /\ FrameworkReady(cap))
               /\ planPc' = "select"
          ELSE planPc' = "rejected" /\ UNCHANGED verdict
    /\ UNCHANGED <<doc, feedback, attempts, attempted, sent, seen, result>>

\* pytest_generate_tests: the capability markers of each generated DUT test.
GeneratedTests ==
    {{"READ"} \cup StaticCaps(row) : row \in EnabledRows}
    \cup (IF Poll.enabled THEN {{"READ"} \cup PollCaps} ELSE {})
    \cup (IF Unsolicited.enabled THEN {{"UNSOLICITED"} \cup UnsolicitedCaps} ELSE {})
    \cup (IF Control.enabled THEN {{"COMMAND_STATUS"} \cup ControlCaps} ELSE {})
-----------------------------------------------------------------------------
(***************************************************************************)
(* The control test.                                                       *)
(***************************************************************************)
Fail == planPc' = "idle" /\ result' = "failed"

\* pytest_configure: a control is run only when enabled, and a SIMULATOR plan only
\* over a simulator connection.
Select ==
    /\ planPc = "select"
    /\ planPc' = IF Control.enabled /\ (Lab \/ doc.simulator)
                 THEN "idle" ELSE "notSelected"
    /\ UNCHANGED <<doc, verdict, feedback, attempts, attempted, sent, seen, result>>

\* The test begins, for the first time or because a plugin reruns it.
Start ==
    /\ planPc = "idle" /\ attempts < MaxAttempts
    /\ attempts' = attempts + 1
    /\ seen' = <<>>
    /\ IF ~doc.simulator /\ attempted
          THEN Fail /\ UNCHANGED attempted
          ELSE /\ attempted' = (attempted \/ ~doc.simulator)
               /\ planPc' = IF Present(Control.before) THEN "baseline" ELSE "operate"
               /\ result' = "running"
    /\ UNCHANGED <<doc, verdict, feedback, sent>>

\* The baseline read; without the precondition nothing is sent.
Baseline ==
    /\ planPc = "baseline"
    /\ \/ /\ Matches(Control.before, feedback)
          /\ seen' = Append(seen, feedback)
          /\ planPc' = "operate" /\ UNCHANGED result
       \/ Fail /\ UNCHANGED seen           \* a mismatch, or the read failed
    /\ UNCHANGED <<doc, verdict, feedback, attempts, attempted, sent>>

\* One command; only a certain single success goes on.
Execute(step, command, next) ==
    /\ planPc = step
    /\ sent' = [sent EXCEPT ![command] = @ + 1]
    /\ \/ planPc' = next /\ UNCHANGED result
       \/ Fail
    /\ UNCHANGED <<doc, verdict, feedback, attempts, attempted, seen>>

Operate == Execute("operate", "operate", "waitAfter")
Restore == Execute("restore", "restore", "waitRestored")

\* wait_for_static_value: one read of the loop, or its end without a match.
Await(step, expectation, next) ==
    /\ planPc = step
    /\ \/ /\ Matches(expectation, feedback)
          /\ seen' = Append(seen, feedback)
          /\ planPc' = next
          /\ result' = IF next = "idle" THEN "passed" ELSE result
       \/ Fail /\ UNCHANGED seen
    /\ UNCHANGED <<doc, verdict, feedback, attempts, attempted, sent>>

AwaitAfter == Await("waitAfter", Control.after, IF Restores THEN "restore" ELSE "idle")
AwaitRestored == Await("waitRestored", Control.restored, "idle")

\* The device moves, whether because of a command or not.
DeviceMoves ==
    /\ planPc \in {"baseline", "operate", "waitAfter", "restore", "waitRestored"}
    /\ feedback' \in (IF ById(Control.point).type = "boolean" THEN {0, 1} ELSE Numbers)
    /\ UNCHANGED <<doc, planPc, verdict, attempts, attempted, sent, seen, result>>

PlanNext ==
    \/ Load \/ Preflight \/ Select
    \/ Start \/ Baseline \/ Operate \/ AwaitAfter \/ Restore \/ AwaitRestored
    \/ DeviceMoves

PlanSpec == PlanInit /\ [][PlanNext]_planVars
-----------------------------------------------------------------------------
\* A LAB control test that passed saw the device leave its baseline and come back:
\* the operated value differs from both the baseline and the restored one.  No single
\* value a device is stuck at satisfies the plan (_control_scenario refuses ranges
\* that overlap), so a dead output cannot pass.
PassMeansMoved ==
    result = "passed" /\ Lab =>
        /\ Len(seen) = 3
        /\ seen[2] # seen[1] /\ seen[2] # seen[3]

\* Whatever was sent under a LAB plan had an approved authorization reference: the
\* loader checks it only on enabled scenarios and the plugin selects only those.  And
\* over a LAB connection a scenario is operated at most once, and restored only after
\* that, however often a plugin reruns the test (_ATTEMPTED_CONTROL_SCENARIOS).
SentIsApproved ==
    /\ Lab /\ sent.operate > 0 => Control.authorization = "approved"
    /\ ~doc.simulator => sent.operate <= 1 /\ sent.restore <= sent.operate

\* A configuration that preflight calls ready declares no test that the collection gate
\* would skip: every capability of every generated test is SUPPORTED in the PICS and
\* ready in the framework.
ReadyMeansRun ==
    verdict => \A caps \in GeneratedTests : \A cap \in caps :
               Supported(cap) /\ FrameworkReady(cap)
=============================================================================
