---------------------------- MODULE Pytest_proofs ----------------------------
(***************************************************************************)
(* Proofs about the pytest side, for every command line, every collection  *)
(* and every document: what a session of the plugin leaves behind and what *)
(* its control tests are entitled to (PytestSession), and what a control   *)
(* scenario that passed has shown (EmsPlan).                               *)
(***************************************************************************)
EXTENDS PytestSession, EmsPlan, TLAPS

----------------------------------------------------------------------------
(* The plan: its documents, what was sent and what was seen.               *)

BeforeTest == {"load", "preflight", "select", "rejected", "notSelected"}
TestSteps == {"baseline", "operate", "waitAfter", "restore", "waitRestored"}

PlanTyped ==
    /\ doc \in Documents /\ planPc \in BeforeTest \cup TestSteps \cup {"idle"}
    /\ feedback \in Int /\ attempts \in Nat
    /\ sent \in [operate : Nat, restore : Nat] /\ seen \in Seq(Int)

(* Only an accepted plan gets past its loader, only an enabled control to  *)
(* its test, and before the test nothing is sent.                          *)
PlanAccepted ==
    /\ planPc \notin {"load", "rejected"} => ControlAccepted /\ ReferencesAccepted
    /\ planPc \notin BeforeTest => Control.enabled
    /\ planPc \in BeforeTest => sent.operate = 0 /\ sent.restore = 0 /\ ~attempted

(* Over a LAB connection the scenario is attempted once.                   *)
SentOnce ==
    ~doc.simulator =>
        /\ ~attempted => sent.operate = 0 /\ sent.restore = 0
        /\ planPc \in TestSteps => attempted
        /\ planPc \in {"baseline", "operate"} => sent.operate = 0 /\ sent.restore = 0
        /\ planPc \in {"waitAfter", "restore"} => sent.operate = 1 /\ sent.restore = 0
        /\ sent.operate <= 1 /\ sent.restore <= sent.operate

(* What the test has accepted so far.                                      *)
Saw(e, n) == Matches(e, seen[n])
Trail ==
    Lab =>
        /\ planPc = "baseline" => Len(seen) = 0
        /\ planPc \in {"operate", "waitAfter"} => Len(seen) = 1 /\ Saw(Control.before, 1)
        /\ planPc \in {"restore", "waitRestored"} =>
              Len(seen) = 2 /\ Saw(Control.before, 1) /\ Saw(Control.after, 2)
        /\ result = "passed" =>
              /\ planPc = "idle" /\ Len(seen) = 3
              /\ Saw(Control.before, 1) /\ Saw(Control.after, 2) /\ Saw(Control.restored, 3)

PreflightTrue == verdict => \A cap \in Required : Supported(cap) /\ FrameworkReady(cap)

PlanInv == PlanTyped /\ PlanAccepted /\ SentOnce /\ Trail /\ PreflightTrue

(* Values that match two expectations of one kind that do not overlap are  *)
(* different (ValueExpectation.matches and overlaps).                      *)
LEMMA ApartValuesDiffer ==
  ASSUME NEW a \in Expectation, NEW b \in Expectation, a.kind = b.kind, ~Overlaps(a, b),
         NEW x \in Int, NEW y \in Int, Matches(a, x), Matches(b, y)
  PROVE  x # y
  BY DEF Expectation, Overlaps, Matches, Distance

(* The invariant holds before a document is loaded.                        *)
LEMMA PlanInitial == PlanInit => PlanInv
  <1> SUFFICES ASSUME PlanInit PROVE PlanInv
    OBVIOUS
  <1> USE DEF PlanInit, PlanStart
  <1>1. PlanTyped
    BY DEF PlanTyped, BeforeTest
  <1>2. PlanAccepted /\ PreflightTrue
    BY DEF PlanAccepted, BeforeTest, PreflightTrue
  <1>3. SentOnce
    BY DEF SentOnce, TestSteps
  <1>4. Trail
    BY DEF Trail
  <1> QED
    BY <1>1, <1>2, <1>3, <1>4 DEF PlanInv

(* What is computed from the document alone stays.                         *)
LEMMA DocumentStays ==
  ASSUME doc' = doc
  PROVE  /\ Control' = Control /\ Lab' = Lab /\ Required' = Required
         /\ (ControlAccepted' <=> ControlAccepted)
         /\ (ReferencesAccepted' <=> ReferencesAccepted)
         /\ \A cap : (Supported(cap)' <=> Supported(cap))
                       /\ (FrameworkReady(cap)' <=> FrameworkReady(cap))
  <1>1. Control' = Control /\ Lab' = Lab /\ Poll' = Poll /\ Unsolicited' = Unsolicited
    BY DEF Control, Lab, Poll, Unsolicited
  <1>2. Rows' = Rows
    BY DEF Rows
  <1>3. \A id : ById(id)' = ById(id) /\ (Refers(id)' <=> Refers(id))
    BY <1>2 DEF ById, Refers
  <1>4. ControlAccepted' <=> ControlAccepted
    BY <1>1 DEF ControlAccepted, AuthorizationAccepted, CommandAccepted, RestoreAccepted, Restores,
                BaselineAccepted, Expectations
  <1>5. ReferencesAccepted' <=> ReferencesAccepted
    BY <1>1, <1>3 DEF ReferencesAccepted, Requested, Expectations
  <1>6. Required' = Required
    <2>1. EnabledRows' = EnabledRows
      BY <1>2 DEF EnabledRows
    <2>2. UnsolicitedCaps' = UnsolicitedCaps
      BY <1>1, <1>3 DEF UnsolicitedCaps
    <2>3. ControlCaps' = ControlCaps
      BY <1>1, <1>3 DEF ControlCaps, CommandCaps
    <2>4. PollCaps' = PollCaps
      BY <1>1 DEF PollCaps
    <2> QED
      BY <1>1, <1>3, <2>1, <2>2, <2>3, <2>4 DEF Required
  <1>7. \A cap : (Supported(cap)' <=> Supported(cap))
                   /\ (FrameworkReady(cap)' <=> FrameworkReady(cap))
    BY DEF Supported, FrameworkReady
  <1> QED
    BY <1>1, <1>4, <1>5, <1>6, <1>7

(* The steps of the loader, the preflight and the test keep the types.     *)
LEMMA PlanTypes ==
  PlanTyped /\ [PlanNext]_planVars => PlanTyped'
  <1> SUFFICES ASSUME PlanTyped, [PlanNext]_planVars PROVE PlanTyped'
    OBVIOUS
  <1> USE DEF PlanTyped, BeforeTest, TestSteps
  <1>a. Append(seen, feedback) \in Seq(Int)
    OBVIOUS
  <1>e. <<>> \in Seq(Int)
    OBVIOUS
  <1>n. /\ [sent EXCEPT !["operate"] = @ + 1] \in [operate : Nat, restore : Nat]
        /\ [sent EXCEPT !["restore"] = @ + 1] \in [operate : Nat, restore : Nat]
    OBVIOUS
  <1>1. CASE Load
    BY <1>1 DEF Load
  <1>2. CASE Preflight
    BY <1>2 DEF Preflight
  <1>3. CASE Select
    BY <1>3 DEF Select
  <1>4. CASE Start
    <2>1. seen' \in Seq(Int)
      BY <1>4, <1>e DEF Start
    <2>2. planPc' \in {"idle", "baseline", "operate"} /\ attempts' \in Nat
      BY <1>4 DEF Start, Fail
    <2> QED
      BY <1>4, <2>1, <2>2 DEF Start
  <1>5. CASE Baseline
    BY <1>5, <1>a DEF Baseline, Fail
  <1>6. CASE Operate
    <2>1. sent' \in [operate : Nat, restore : Nat]
      BY <1>6, <1>n DEF Operate, Execute
    <2> QED
      BY <1>6, <2>1 DEF Operate, Execute, Fail
  <1>7. CASE AwaitAfter
    BY <1>7, <1>a DEF AwaitAfter, Await, Fail
  <1>8. CASE Restore
    <2>1. sent' \in [operate : Nat, restore : Nat]
      BY <1>8, <1>n DEF Restore, Execute
    <2> QED
      BY <1>8, <2>1 DEF Restore, Execute, Fail
  <1>9. CASE AwaitRestored
    BY <1>9, <1>a DEF AwaitRestored, Await, Fail
  <1>10. CASE DeviceMoves
    <2>1. feedback' \in {0, 1} \/ feedback' \in Numbers
      BY <1>10 DEF DeviceMoves
    <2>2. feedback' \in Int
      <3>1. Numbers \subseteq Int
        BY PlanAssumption, Zenon
      <3>2. CASE feedback' \in {0, 1}
        BY <3>2
      <3>3. CASE feedback' \in Numbers
        BY <3>1, <3>3, Zenon
      <3> QED
        BY <2>1, <3>2, <3>3
    <2> QED
      BY <1>10, <2>2 DEF DeviceMoves
  <1>11. CASE UNCHANGED planVars
    BY <1>11 DEF planVars
  <1> QED
    BY <1>1, <1>2, <1>3, <1>4, <1>5, <1>6, <1>7, <1>8, <1>9, <1>10, <1>11 DEF PlanNext

(* They keep the record of what was sent.                                  *)
LEMMA PlanSends ==
  PlanTyped /\ PlanAccepted /\ SentOnce /\ [PlanNext]_planVars => PlanAccepted' /\ SentOnce'
  <1> SUFFICES ASSUME PlanTyped, PlanAccepted, SentOnce, [PlanNext]_planVars
               PROVE  PlanAccepted' /\ SentOnce'
    OBVIOUS
  <1>d. doc' = doc
    BY DEF PlanNext, Load, Preflight, Select, Start, Baseline, Operate, Restore, Execute, AwaitAfter,
           AwaitRestored, Await, DeviceMoves, planVars
  <1>s. /\ Control' = Control /\ (ControlAccepted' <=> ControlAccepted)
        /\ (ReferencesAccepted' <=> ReferencesAccepted)
    BY <1>d, DocumentStays
  <1>t. sent.operate \in Nat /\ sent.restore \in Nat /\ sent \in [operate : Nat, restore : Nat]
    BY DEF PlanTyped
  <1> USE <1>d, <1>s DEF PlanAccepted, SentOnce, BeforeTest, TestSteps
  <1>1. CASE Load
    BY <1>1 DEF Load
  <1>2. CASE Preflight
    BY <1>2 DEF Preflight
  <1>3. CASE Select
    BY <1>3 DEF Select
  <1>4. CASE Start
    BY <1>4 DEF Start, Fail
  <1>5. CASE Baseline
    BY <1>5 DEF Baseline, Fail
  <1>6. CASE Operate
    <2>1. sent'.operate = sent.operate + 1 /\ sent'.restore = sent.restore
      BY <1>6, <1>t DEF Operate, Execute
    <2>2. /\ planPc = "operate" /\ planPc' \in {"waitAfter", "idle"}
          /\ UNCHANGED <<attempted>>
      BY <1>6 DEF Operate, Execute, Fail
    <2>3. PlanAccepted'
      BY <2>2
    <2>4. ~doc.simulator => sent'.operate = 1 /\ sent'.restore = 0 /\ attempted
      BY <2>1, <2>2
    <2> QED
      BY <2>2, <2>3, <2>4
  <1>7. CASE AwaitAfter
    BY <1>7 DEF AwaitAfter, Await, Fail
  <1>8. CASE Restore
    <2>1. sent'.operate = sent.operate /\ sent'.restore = sent.restore + 1
      BY <1>8, <1>t DEF Restore, Execute
    <2>2. /\ planPc = "restore" /\ planPc' \in {"waitRestored", "idle"}
          /\ UNCHANGED <<attempted>>
      BY <1>8 DEF Restore, Execute, Fail
    <2>3. PlanAccepted'
      BY <2>2
    <2>4. ~doc.simulator => sent'.operate = 1 /\ sent'.restore = 1 /\ attempted
      BY <2>1, <2>2
    <2> QED
      BY <2>2, <2>3, <2>4
  <1>9. CASE AwaitRestored
    BY <1>9 DEF AwaitRestored, Await, Fail
  <1>10. CASE DeviceMoves
    BY <1>10 DEF DeviceMoves
  <1>11. CASE UNCHANGED planVars
    BY <1>11 DEF planVars
  <1> QED
    BY <1>1, <1>2, <1>3, <1>4, <1>5, <1>6, <1>7, <1>8, <1>9, <1>10, <1>11 DEF PlanNext

(* They keep the trail of accepted values.                                 *)
LEMMA PlanSees ==
  PlanTyped /\ PlanAccepted /\ Trail /\ [PlanNext]_planVars => Trail'
  <1> SUFFICES ASSUME PlanTyped, PlanAccepted, Trail, [PlanNext]_planVars
               PROVE  Trail'
    OBVIOUS
  <1>d. doc' = doc
    BY DEF PlanNext, Load, Preflight, Select, Start, Baseline, Operate, Restore, Execute, AwaitAfter,
           AwaitRestored, Await, DeviceMoves, planVars
  <1>0. Control' = Control /\ Lab' = Lab
    BY <1>d, DocumentStays
  <1> SUFFICES ASSUME Lab PROVE Trail'
    BY <1>0 DEF Trail
  <1>s. Control' = Control /\ Lab'
    BY <1>0
  <1>a. /\ Len(Append(seen, feedback)) = Len(seen) + 1 /\ Len(seen) \in Nat
        /\ \A i \in 1..Len(seen) : Append(seen, feedback)[i] = seen[i]
        /\ Append(seen, feedback)[Len(seen) + 1] = feedback
    BY DEF PlanTyped
  <1>r. planPc \notin BeforeTest => Restores /\ Present(Control.before)
    BY DEF PlanAccepted, ControlAccepted, RestoreAccepted, BaselineAccepted, BeforeTest, Restores,
           Present
  <1> USE <1>s DEF Trail, Saw
  <1>1. CASE Load
    BY <1>1 DEF Load
  <1>2. CASE Preflight
    BY <1>2 DEF Preflight
  <1>3. CASE Select
    BY <1>3 DEF Select
  <1>4. CASE Start
    BY <1>4, <1>r DEF Start, Fail, BeforeTest
  <1>f. ASSUME Fail PROVE Trail'
    BY <1>f DEF Fail
  <1>5. CASE Baseline
    <2>1. CASE /\ Matches(Control.before, feedback) /\ seen' = Append(seen, feedback)
               /\ planPc' = "operate" /\ UNCHANGED result
      <3>1. Len(seen) = 0 /\ result # "passed"
        BY <1>5 DEF Baseline
      <3>2. Len(seen') = 1 /\ seen'[1] = feedback
        BY <1>a, <2>1, <3>1
      <3> QED
        BY <2>1, <3>1, <3>2
    <2> QED
      BY <1>5, <1>f, <2>1 DEF Baseline
  <1>6. CASE Operate
    BY <1>6 DEF Operate, Execute, Fail
  <1>7. CASE AwaitAfter
    <2>0. planPc = "waitAfter" /\ Restores
      BY <1>7, <1>r DEF AwaitAfter, Await, BeforeTest
    <2>1. CASE /\ Matches(Control.after, feedback) /\ seen' = Append(seen, feedback)
               /\ planPc' = "restore" /\ UNCHANGED result
      <3>1. Len(seen) = 1 /\ Matches(Control.before, seen[1]) /\ result # "passed"
        BY <2>0
      <3>2. Len(seen') = 2 /\ seen'[1] = seen[1] /\ seen'[2] = feedback
        BY <1>a, <2>1, <3>1
      <3> QED
        BY <2>1, <3>1, <3>2
    <2> QED
      BY <1>7, <1>f, <2>0, <2>1 DEF AwaitAfter, Await
  <1>8. CASE Restore
    BY <1>8 DEF Restore, Execute, Fail
  <1>9. CASE AwaitRestored
    <2>1. CASE /\ Matches(Control.restored, feedback) /\ seen' = Append(seen, feedback)
               /\ planPc' = "idle"
      <3>1. /\ Len(seen) = 2 /\ Matches(Control.before, seen[1])
            /\ Matches(Control.after, seen[2])
        BY <1>9 DEF AwaitRestored, Await
      <3>2. /\ Len(seen') = 3 /\ seen'[1] = seen[1] /\ seen'[2] = seen[2]
            /\ seen'[3] = feedback
        BY <1>a, <2>1, <3>1
      <3> QED
        BY <2>1, <3>1, <3>2
    <2> QED
      BY <1>9, <1>f, <2>1 DEF AwaitRestored, Await
  <1>10. CASE DeviceMoves
    BY <1>10 DEF DeviceMoves
  <1>11. CASE UNCHANGED planVars
    BY <1>11 DEF planVars
  <1> QED
    BY <1>1, <1>2, <1>3, <1>4, <1>5, <1>6, <1>7, <1>8, <1>9, <1>10, <1>11 DEF PlanNext

(* The preflight's verdict is about a document that does not change.       *)
LEMMA PlanVerdict ==
  PreflightTrue /\ [PlanNext]_planVars => PreflightTrue'
  <1> SUFFICES ASSUME PreflightTrue, [PlanNext]_planVars PROVE PreflightTrue'
    OBVIOUS
  <1>d. doc' = doc
    BY DEF PlanNext, Load, Preflight, Select, Start, Baseline, Operate, Restore, Execute, AwaitAfter,
           AwaitRestored, Await, DeviceMoves, planVars
  <1>s. /\ Required' = Required
        /\ \A cap : (Supported(cap)' <=> Supported(cap))
                      /\ (FrameworkReady(cap)' <=> FrameworkReady(cap))
    BY <1>d, DocumentStays
  <1>1. CASE Preflight /\ verdict' # verdict
    <2>1. verdict' = (/\ ~Placeholder
                      /\ EnabledRows # {}
                      /\ Poll.enabled \/ Unsolicited.enabled \/ Control.enabled
                      /\ \A cap \in Required : Supported(cap) /\ FrameworkReady(cap))
      BY <1>1 DEF Preflight
    <2> QED
      BY <1>s, <2>1, Zenon DEF PreflightTrue
  <1>2. CASE verdict' = verdict
    BY <1>2, <1>s DEF PreflightTrue
  <1> QED
    BY <1>1, <1>2 DEF PlanNext, Load, Preflight, Select, Start, Baseline, Operate, Restore, Execute,
                      AwaitAfter, AwaitRestored, Await, DeviceMoves, planVars

(* Every behaviour of a plan satisfies the invariant.                      *)
THEOREM PlanInvariant == PlanSpec => []PlanInv
  <1>1. PlanInv /\ [PlanNext]_planVars => PlanInv'
    BY PlanTypes, PlanSends, PlanSees, PlanVerdict DEF PlanInv
  <1> QED
    BY PlanInitial, <1>1, PTL DEF PlanSpec

(* A LAB control test that passed has seen its output move and come back,  *)
(* whatever the ranges and tolerances of an accepted plan are and whatever *)
(* the device does: _control_scenario refuses ranges that overlap, and     *)
(* _validate_point_references makes their kinds agree.                     *)
THEOREM PassedControlMoved == PlanSpec => []PassMeansMoved
  <1>1. ASSUME PlanInv, result = "passed", Lab
        PROVE  Len(seen) = 3 /\ seen[2] # seen[1] /\ seen[2] # seen[3]
    <2>1. /\ Len(seen) = 3 /\ planPc = "idle"
          /\ Matches(Control.before, seen[1]) /\ Matches(Control.after, seen[2])
          /\ Matches(Control.restored, seen[3])
      BY <1>1 DEF PlanInv, Trail, Saw
    <2>2. ControlAccepted /\ ReferencesAccepted
      BY <1>1, <2>1 DEF PlanInv, PlanAccepted
    <2>3. /\ Control.restored = Control.before /\ ~Overlaps(Control.before, Control.after)
          /\ Present(Control.before)
      BY <1>1, <2>2 DEF ControlAccepted, BaselineAccepted, RestoreAccepted, Restores
    <2>4. /\ Control.before \in Expectation /\ Control.after \in Expectation
          /\ Present(Control.after)
      BY <1>1, PlanAssumption DEF PlanInv, PlanTyped, Control, Present
    <2>5. Control.before.kind = Control.after.kind
      BY <2>2, <2>3, <2>4 DEF ReferencesAccepted, Expectations, FitsPoint
    <2>6. seen[1] \in Int /\ seen[2] \in Int /\ seen[3] \in Int
      <3>1. seen \in Seq(Int)
        BY <1>1 DEF PlanInv, PlanTyped
      <3>2. Len(seen) = 3
        BY <2>1
      <3>3. \A i \in 1..Len(seen) : seen[i] \in Int
        BY <3>1
      <3> QED
        BY <3>2, <3>3
    <2> QED
      BY <2>1, <2>3, <2>4, <2>5, <2>6, ApartValuesDiffer
  <1>2. PlanInv => PassMeansMoved
    BY <1>1 DEF PassMeansMoved
  <1> QED
    BY PlanInvariant, <1>2, PTL

(* Whatever a LAB plan sends is authorised, and over a LAB connection a    *)
(* scenario is operated at most once and restored only after that, however *)
(* often the test is rerun (_ATTEMPTED_CONTROL_SCENARIOS).                 *)
THEOREM SentControlsAreApproved == PlanSpec => []SentIsApproved
  <1>1. PlanInv => SentIsApproved
    <2> SUFFICES ASSUME PlanInv PROVE SentIsApproved
      OBVIOUS
    <2>1. Lab /\ sent.operate > 0 => Control.authorization = "approved"
      <3>1. sent.operate > 0 => planPc \notin BeforeTest
        BY DEF PlanInv, PlanAccepted
      <3> QED
        BY <3>1 DEF PlanInv, PlanAccepted, ControlAccepted, AuthorizationAccepted, BeforeTest
    <2>2. ~doc.simulator => sent.operate <= 1 /\ sent.restore <= sent.operate
      BY DEF PlanInv, SentOnce
    <2> QED
      BY <2>1, <2>2 DEF SentIsApproved
  <1> QED
    BY PlanInvariant, <1>1, PTL

(* A plan that preflight calls ready generates no test that the collection *)
(* gate would skip for a capability: _required_capabilities covers what    *)
(* pytest_generate_tests declares, for every table and plan.               *)
THEOREM ReadyPlanRuns == PlanSpec => []ReadyMeansRun
  <1>0. /\ Poll.enabled => PollCaps \subseteq Required
        /\ Unsolicited.enabled => UnsolicitedCaps \subseteq Required
        /\ Control.enabled => ControlCaps \subseteq Required
    <2> DEFINE base == {"TCP", "READ"} \cup (UNION {StaticCaps(row) : row \in EnabledRows})
               more == IF Poll.type = "class" THEN EventCaps(ById(Poll.point)) ELSE {ObjectCap}
               polls == IF Poll.enabled THEN PollCaps \cup more ELSE {}
               reports == IF Unsolicited.enabled THEN UnsolicitedCaps ELSE {}
               controls == IF Control.enabled THEN ControlCaps ELSE {}
    <2>1. Required = base \cup polls \cup reports \cup controls
      BY DEF Required
    <2> HIDE DEF base, more
    <2> QED
      BY <2>1
  <1>1. ASSUME NEW caps \in GeneratedTests, NEW cap \in caps PROVE cap \in Required
    <2>1. CASE caps \in {{"READ"} \cup StaticCaps(row) : row \in EnabledRows}
      BY <2>1 DEF Required
    <2>2. CASE Poll.enabled /\ caps = {"READ"} \cup PollCaps
      BY <2>2, <1>0 DEF PollCaps
    <2>3. CASE Unsolicited.enabled /\ caps = {"UNSOLICITED"} \cup UnsolicitedCaps
      BY <2>3, <1>0 DEF UnsolicitedCaps
    <2>4. CASE Control.enabled /\ caps = {"COMMAND_STATUS"} \cup ControlCaps
      BY <2>4, <1>0 DEF ControlCaps
    <2> QED
      BY <2>1, <2>2, <2>3, <2>4 DEF GeneratedTests
  <1>2. PlanInv => ReadyMeansRun
    BY <1>1 DEF PlanInv, PreflightTrue, ReadyMeansRun
  <1> QED
    BY PlanInvariant, <1>2, PTL

----------------------------------------------------------------------------
(* The session: what was validated, where the test is, what is recorded.   *)

FixtureSteps == {"config", "host", "connect", "status", "disconnect", "closeOwned"}
Running == FixtureSteps \cup {"next", "call", "teardownReport"}
Ending == {"finish", "manifest", "finalize", "done"}
Cleanup == {"status", "disconnect", "closeOwned"}

SessionTyped ==
    /\ c \in Configs /\ items \in Collections
    /\ pc \in {"configure", "refused", "collect", "killed"} \cup Running \cup Ending
    /\ cur \in 1..Len(items) + 1
    /\ host \in {"none", "running", "dead", "failed"} /\ outcome \in {"passed", "failed"}
    /\ mine \subseteq Tests /\ stop \in {"no", "collection", "fail", "interrupt", "body"}
    /\ pc \in {"configure", "collect"} => cur = 1

(* Why the tests end early, and where: a Ctrl+C inside connected_master    *)
(* still runs its finally clauses.                                         *)
Stopped ==
    /\ pc \in {"configure", "collect", "config", "host", "connect", "call"} => stop = "no"
    /\ stop = "interrupt" => pc \in Cleanup \cup Ending \cup {"killed"}
    /\ stop \in {"collection", "body"} => pc \in Ending \cup {"killed"}
    /\ pc \in Ending /\ stop = "no" => cur \notin Tests

(* A test runs in a session whose configuration and collection were        *)
(* accepted, under the mark that the gate gave it.                         *)
Gated ==
    /\ pc \notin {"configure", "refused", "killed"} => ~ConfigurationError
    /\ pc \in Running =>
          /\ ~PolicyError /\ ~XdistError
          /\ \A i \in Tests : ~CollectionError(i) /\ mark[i] = Gate(i)
    /\ pc \in Running \ {"next"} => cur \in mine
    /\ pc \in FixtureSteps \cup {"call"} => mark[cur] = "run"
    /\ pc \in FixtureSteps => items[cur].connected

(* Which client and which session are at hand.                             *)
Clients ==
    /\ host # "running" => session = "none"
    /\ pc \in {"configure", "collect", "refused", "killed"} => host = "none"
    /\ Simulator =>
          /\ pc \in {"next", "config", "host", "teardownReport"} => host = "none"
          /\ pc \in Ending /\ (stop # "body" \/ pc = "done") => host = "none"
          /\ pc = "call" /\ ~items[cur].connected => host = "none"
          /\ pc = "connect" => host = "running" /\ session = "none"
    /\ pc = "call" /\ items[cur].connected => session = Mode /\ token = (session # "read")
    /\ pc \in {"next"} \cup Ending /\ stop = "no" /\ (\A i \in mine : i < cur)
          => host \in {"none", "failed"}
    /\ pc = "done" => host \in {"none", "failed"}

(* The reports of a test that is about to report its teardown.             *)
Half(r) == Len(r) \in {1, 2} /\ r[1][1] = "setup" /\ (Len(r) = 2 <=> r[1][2] = "passed")

Phase == {"setup", "call", "teardown"}
Outcome == {"passed", "failed", "skipped"}
Report == Phase \X Outcome

Written ==
    /\ pc = "configure" => manifest = NoManifest
    /\ c.evidence = Absent => manifest.state = Absent
    /\ manifest.state = "COMPLETED" =>
          /\ pc \in {"finalize", "done", "killed"}
          /\ manifest.results = results /\ results = <<phases>>
          /\ manifest.exit = 0 => cur \notin Tests
    /\ pc = "manifest" /\ manifest.state # Absent => results = <<phases>>

Recorded ==
    c.evidence # Absent =>
        /\ pc # "refused" =>
              /\ \A i \in Tests : i \in mine /\ i < cur => Whole(phases[i])
              /\ \A i \in Tests : i \notin mine \/ i > cur => phases[i] = <<>>
              /\ cur \in Tests => Begun(phases[cur])
        /\ pc \in {"configure", "collect", "next", "config", "host", "connect"} /\ cur \in Tests
              => phases[cur] = <<>>
        /\ pc = "call" => Len(phases[cur]) = 1 /\ phases[cur][1] = <<"setup", "passed">>
        /\ pc = "teardownReport" \/ (pc \in Cleanup /\ stop # "interrupt") => Half(phases[cur])

SessionInv ==
    /\ SessionTyped /\ Stopped /\ Gated /\ Clients
    /\ phases \in [Tests -> Seq(Report)] /\ Written /\ Recorded

(* The configuration and the collection stay as they are.                  *)
LEMMA SessionFixed == [Next]_vars => c' = c /\ items' = items /\ mine' = mine
  BY DEF Next, Configure, Collect, Elsewhere, Skipped, Setup, ConnectionConfig, HostFixture, Connect,
         Call, Status, Disconnect, CloseOwned, TeardownReport, TestsEnd, WriteResults, WriteManifest,
         Finalize, Interrupted, Killed, fixed, vars

(* So does what is computed from them.                                     *)
LEMMA FixedStays ==
  ASSUME c' = c, items' = items
  PROVE  /\ Tests' = Tests /\ (Simulator' <=> Simulator)
         /\ (ConfigurationError' <=> ConfigurationError)
         /\ (PolicyError' <=> PolicyError) /\ (XdistError' <=> XdistError)
         /\ \A i : (CollectionError(i)' <=> CollectionError(i)) /\ Gate(i)' = Gate(i)
  <1>1. Tests' = Tests /\ (Simulator' <=> Simulator) /\ (Authorized' <=> Authorized)
    BY DEF Tests, Simulator, Authorized
  <1>2. (Settings' <=> Settings) /\ (MatrixPresent' <=> MatrixPresent)
    BY DEF Settings, MatrixPresent
  <1>3. ConfigurationError' <=> ConfigurationError
    BY <1>1, <1>2 DEF ConfigurationError, SimulatorError, SettingsError, MatrixError, PicsError,
       PointsError, PlanError, ScenarioError, PerformanceError, LocalEventsError, EvidenceError
  <1>4. (PolicyError' <=> PolicyError) /\ (XdistError' <=> XdistError)
    BY <1>1 DEF PolicyError, XdistError
  <1>5. ASSUME NEW i
        PROVE  NotReady(i)' = NotReady(i) /\ (Unknown(i)' <=> Unknown(i))
               /\ Having(i, "NOT_SUPPORTED")' = Having(i, "NOT_SUPPORTED")
    BY <1>1, <1>2 DEF NotReady, Unknown, Having, StatusOf
  <1>6. ASSUME NEW i PROVE CollectionError(i)' <=> CollectionError(i)
    BY <1>1, <1>5 DEF CollectionError, MissingIds, Known
  <1>7. ASSUME NEW i PROVE Gate(i)' = Gate(i)
    BY <1>1, <1>5 DEF Gate
  <1> QED
    BY <1>1, <1>3, <1>4, <1>6, <1>7

(* The session's first state.                                              *)
LEMMA SessionInitial == Init => SessionInv
  <1> SUFFICES ASSUME Init PROVE SessionInv
    OBVIOUS
  <1> USE DEF Init, SessionStart
  <1>0. Len(items) \in Nat
    BY SessionAssumption
  <1>m. mine \subseteq Tests /\ Tests = 1..Len(items)
    BY SessionAssumption DEF Shares, Tests
  <1>1. SessionTyped
    BY <1>0, <1>m DEF SessionTyped
  <1>2. Stopped /\ Gated /\ Clients
    BY DEF Stopped, Gated, Clients, Running, FixtureSteps, Ending
  <1>3. phases \in [Tests -> Seq(Report)]
    <2>1. <<>> \in Seq(Report)
      OBVIOUS
    <2> QED
      BY <2>1
  <1>4. Written
    BY DEF Written, Absent, NoManifest
  <1>5. Begun(<<>>)
    BY DEF Begun
  <1>6. Recorded
    BY <1>0, <1>m, <1>5 DEF Recorded, Cleanup
  <1> QED
    BY <1>1, <1>2, <1>3, <1>4, <1>6 DEF SessionInv

(* The steps of the session keep the types, and the gate.                  *)
LEMMA SessionTypes ==
  SessionTyped /\ Stopped /\ Gated /\ [Next]_vars => SessionTyped' /\ Stopped' /\ Gated'
  <1> SUFFICES ASSUME SessionTyped, Stopped, Gated, [Next]_vars
               PROVE  SessionTyped' /\ Stopped' /\ Gated'
    OBVIOUS
  <1>f. c' = c /\ items' = items /\ mine' = mine
    BY SessionFixed
  <1>s. /\ Tests' = Tests /\ (ConfigurationError' <=> ConfigurationError)
        /\ (PolicyError' <=> PolicyError) /\ (XdistError' <=> XdistError)
        /\ \A i : (CollectionError(i)' <=> CollectionError(i)) /\ Gate(i)' = Gate(i)
    BY <1>f, FixedStays
  <1>n. Len(items) \in Nat /\ Tests = 1..Len(items)
    BY SessionAssumption DEF SessionTyped, Tests
  <1> USE <1>f, <1>s DEF SessionTyped, Stopped, Gated, Running, FixtureSteps, Ending, Cleanup,
                       records, evidence, client
  <1>1. CASE Configure
    BY <1>1 DEF Configure
  <1>2. CASE Collect
    BY <1>2 DEF Collect
  <1>3. CASE Skipped
    BY <1>3 DEF Skipped, Record
  <1>4. CASE Setup
    BY <1>4 DEF Setup, Record
  <1>5. CASE ConnectionConfig
    BY <1>5 DEF ConnectionConfig, SetupEnds, Record
  <1>6. CASE HostFixture
    BY <1>6 DEF HostFixture, SetupEnds, Record
  <1>7. CASE Connect
    BY <1>7 DEF Connect, ConnectFails, HostLost, Record
  <1>8. CASE Call
    BY <1>8 DEF Call, HostLost, Record
  <1>9. CASE Status
    BY <1>9 DEF Status, HostLost, AfterCleanup, PhaseEnd
  <1>10. CASE Disconnect
    BY <1>10 DEF Disconnect, HostLost, AfterCleanup, PhaseEnd
  <1>11. CASE CloseOwned
    BY <1>11 DEF CloseOwned, PhaseEnd
  <1>12. CASE TeardownReport
    <2>1. cur' \in 1..Len(items) + 1
      BY <1>12, <1>n DEF TeardownReport
    <2> QED
      BY <1>12, <2>1 DEF TeardownReport, Record
  <1>13. CASE TestsEnd
    BY <1>13 DEF TestsEnd
  <1>14. CASE WriteResults
    BY <1>14 DEF WriteResults
  <1>15. CASE WriteManifest
    BY <1>15 DEF WriteManifest
  <1>16. CASE Killed
    BY <1>16 DEF Killed
  <1>17. CASE UNCHANGED vars
    BY <1>17 DEF vars
  <1>18. CASE Elsewhere
    BY <1>18, <1>n DEF Elsewhere
  <1>19. CASE Finalize
    BY <1>19 DEF Finalize
  <1>20. CASE Interrupted
    BY <1>20 DEF Interrupted, RequestCut, HostLost
  <1> QED
    BY <1>1, <1>2, <1>3, <1>4, <1>5, <1>6, <1>7, <1>8, <1>9, <1>10, <1>11, <1>12, <1>13, <1>14,
       <1>15, <1>16, <1>17, <1>18, <1>19, <1>20 DEF Next

(* They keep the account of the client: a simulator test gets one of its   *)
(* own, and the one the LAB tests share is closed after the last.          *)
LEMMA SessionClients ==
  SessionTyped /\ Stopped /\ Gated /\ Clients /\ [Next]_vars => Clients'
  <1> SUFFICES ASSUME SessionTyped, Stopped, Gated, Clients, [Next]_vars PROVE Clients'
    OBVIOUS
  <1>f. c' = c /\ items' = items /\ mine' = mine
    BY SessionFixed
  <1>s. Tests' = Tests /\ (Simulator' <=> Simulator)
    BY <1>f, FixedStays
  <1>m. cur' = cur => Mode' = Mode
    BY <1>f, <1>s DEF Mode, Authorized
  <1>n. Len(items) \in Nat /\ Tests = 1..Len(items)
    BY SessionAssumption DEF SessionTyped, Tests
  <1> USE <1>f, <1>s DEF SessionTyped, Stopped, Gated, Clients, Running, FixtureSteps, Ending,
                       Cleanup, records, evidence
  <1>1. CASE Configure
    BY <1>1 DEF Configure, client
  <1>2. CASE Collect
    BY <1>2 DEF Collect, client
  <1>3. CASE Skipped
    BY <1>3 DEF Skipped, client
  <1>4. CASE Setup
    BY <1>4 DEF Setup, client
  <1>5. CASE ConnectionConfig
    BY <1>5 DEF ConnectionConfig, SetupEnds, client
  <1>6. CASE HostFixture
    BY <1>6 DEF HostFixture, SetupEnds, Owned, client
  <1>7. CASE Connect
    <2>1. CASE host = "running" /\ session = "none" /\ session' = Mode
               /\ token' = (Mode # "read") /\ pc' = "call" /\ UNCHANGED host
      <3>1. cur' = cur /\ Mode' = Mode
        BY <1>7, <1>m DEF Connect
      <3>2. session' = Mode' /\ token' = (session' # "read")
        BY <2>1, <3>1, Zenon
      <3>3. items[cur].connected
        BY <1>7 DEF Connect
      <3> QED
        BY <2>1, <3>1, <3>2, <3>3
    <2>2. CASE ConnectFails /\ UNCHANGED client
      BY <1>7, <2>2 DEF Connect, ConnectFails, client
    <2>3. CASE ConnectFails /\ HostLost
      BY <1>7, <2>3 DEF Connect, ConnectFails, HostLost
    <2> QED
      BY <1>7, <2>1, <2>2, <2>3 DEF Connect
  <1>8. CASE Call
    BY <1>8 DEF Call, HostLost, client
  <1>9. CASE Status
    BY <1>9 DEF Status, HostLost, AfterCleanup, PhaseEnd, Owned, client
  <1>10. CASE Disconnect
    BY <1>10 DEF Disconnect, HostLost, AfterCleanup, PhaseEnd, Owned, client
  <1>11. CASE CloseOwned
    BY <1>11 DEF CloseOwned, PhaseEnd
  <1>12. CASE TeardownReport
    <2>1. pc' = "next" /\ cur' = cur + 1 /\ cur \in mine
      BY <1>12 DEF TeardownReport
    <2>2. (\A i \in mine : i < cur') => LastTest
      BY <1>n, <2>1 DEF LastTest
    <2>3. CASE host' = "none" /\ session' = "none"
      BY <2>1, <2>3
    <2>4. CASE UNCHANGED client /\ ~(Shared /\ LastTest)
      BY <1>12, <2>1, <2>2, <2>4 DEF client, Owned, Shared, TeardownReport
    <2> QED
      BY <1>12, <2>3, <2>4 DEF TeardownReport
  <1>13. CASE TestsEnd
    BY <1>13 DEF TestsEnd, client
  <1>14. CASE WriteResults
    BY <1>14 DEF WriteResults, client
  <1>15. CASE WriteManifest
    BY <1>15 DEF WriteManifest, client
  <1>16. CASE Killed
    BY <1>16 DEF Killed
  <1>17. CASE UNCHANGED vars
    BY <1>17, <1>m DEF vars
  <1>18. CASE Elsewhere
    BY <1>18, <1>n DEF Elsewhere, client
  <1>19. CASE Finalize
    BY <1>19 DEF Finalize, Owned, client
  <1>20. CASE Interrupted
    BY <1>20 DEF Interrupted, RequestCut, HostLost, Owned, client
  <1> QED
    BY <1>1, <1>2, <1>3, <1>4, <1>5, <1>6, <1>7, <1>8, <1>9, <1>10, <1>11, <1>12, <1>13, <1>14,
       <1>15, <1>16, <1>17, <1>18, <1>19, <1>20 DEF Next

(* The reports of one test, as they are added.                             *)
LEMMA ReportsAdded ==
  ASSUME NEW s \in Seq(Report), NEW ph \in Phase, NEW out \in Outcome
  PROVE  /\ Append(s, <<ph, out>>) \in Seq(Report)
         /\ s = <<>> => /\ Len(Append(s, <<ph, out>>)) = 1
                        /\ Append(s, <<ph, out>>)[1] = <<ph, out>>
         /\ s = <<>> /\ ph = "setup" /\ out # "passed" => Half(Append(s, <<ph, out>>))
         /\ Len(s) = 1 /\ s[1] = <<"setup", "passed">> => Half(Append(s, <<ph, out>>))
         /\ Half(s) /\ ph = "teardown" => Whole(Append(s, <<ph, out>>))
  <1> DEFINE e == <<ph, out>>
             t == Append(s, e)
  <1>1. e \in Report /\ e[1] = ph /\ e[2] = out
    BY DEF Report
  <1> HIDE DEF e
  <1>2. /\ t \in Seq(Report) /\ Len(t) = Len(s) + 1 /\ Len(s) \in Nat
        /\ \A i \in 1..Len(s) : t[i] = s[i]
        /\ t[Len(s) + 1] = e
    BY <1>1
  <1> HIDE DEF t
  <1>3. s = <<>> => Len(t) = 1 /\ t[1] = e
    BY <1>2
  <1>4. s = <<>> /\ ph = "setup" /\ out # "passed" => Half(t)
    BY <1>1, <1>3 DEF Half
  <1>5. Len(s) = 1 /\ s[1] = <<"setup", "passed">> => Half(t)
    <2> SUFFICES ASSUME Len(s) = 1, s[1] = <<"setup", "passed">> PROVE Half(t)
      OBVIOUS
    <2>1. Len(t) = 2 /\ t[1] = s[1]
      BY <1>2
    <2>2. s[1][1] = "setup" /\ s[1][2] = "passed"
      OBVIOUS
    <2> QED
      BY <2>1, <2>2 DEF Half
  <1>6. Half(s) /\ ph = "teardown" => Whole(t)
    <2> SUFFICES ASSUME Half(s), ph = "teardown" PROVE Whole(t)
      OBVIOUS
    <2>1. Len(t) \in {2, 3} /\ t[1] = s[1] /\ t[Len(t)] = e /\ (Len(t) = 3 <=> Len(s) = 2)
      BY <1>2 DEF Half
    <2> QED
      BY <1>1, <2>1 DEF Half, Whole
  <1> QED
    BY <1>2, <1>3, <1>4, <1>5, <1>6 DEF e, t

(* record_phase adds to the reports of the test under way only.            *)
LEMMA RecordAdds ==
  ASSUME phases \in [Tests -> Seq(Report)], cur \in Tests, NEW ph \in Phase, NEW out \in Outcome,
         Record(ph, out)
  PROVE  /\ phases' \in [Tests -> Seq(Report)]
         /\ c.evidence # Absent => phases'[cur] = Append(phases[cur], <<ph, out>>)
         /\ \A i \in Tests : i # cur => phases'[i] = phases[i]
  <1>1. Append(phases[cur], <<ph, out>>) \in Seq(Report)
    BY ReportsAdded
  <1>2. CASE c.evidence = Absent
    BY <1>2 DEF Record
  <1>3. CASE c.evidence # Absent
    BY <1>1, <1>3 DEF Record, RecordPhase
  <1> QED
    BY <1>2, <1>3

(* A report that is added in the order of pytest_runtest_makereport: the   *)
(* reports of the other tests stay, those of this one match its new place. *)
LEMMA ReportStep ==
  ASSUME SessionTyped, Gated, phases \in [Tests -> Seq(Report)], Recorded, c' = c, items' = items,
         mine' = mine, cur' = cur, cur \in mine, pc \in Running, NEW ph \in Phase, NEW out \in Outcome,
         Record(ph, out),
         \/ /\ pc \in {"next", "config", "host", "connect"} /\ ph = "setup"
            /\ \/ pc' \in {"status", "teardownReport"} /\ out # "passed"
               \/ pc' = "call" /\ out = "passed"
         \/ pc = "call" /\ pc' \in {"status", "teardownReport"}
  PROVE  phases' \in [Tests' -> Seq(Report)] /\ Recorded'
  <1>s. Tests' = Tests
    BY FixedStays
  <1>t. cur \in Tests /\ mine \subseteq Tests
    BY DEF SessionTyped
  <1>1. /\ phases' \in [Tests -> Seq(Report)]
        /\ c.evidence # Absent => phases'[cur] = Append(phases[cur], <<ph, out>>)
        /\ \A i \in Tests : i # cur => phases'[i] = phases[i]
    BY <1>t, RecordAdds
  <1>n. cur \in Nat /\ \A i \in Tests : i \in Nat
    <2>1. Len(items) \in Nat /\ Tests = 1..Len(items) /\ mine \subseteq Tests
      BY SessionAssumption DEF SessionTyped, Tests
    <2> QED
      BY <2>1
  <1> SUFFICES ASSUME c.evidence # Absent PROVE Recorded'
    BY <1>s, <1>1 DEF Recorded
  <1>p. pc # "refused"
    BY DEF Running, FixtureSteps
  <1>2. /\ \A i \in Tests : i \in mine /\ i < cur => Whole(phases'[i])
        /\ \A i \in Tests : i \notin mine \/ i > cur => phases'[i] = <<>>
    BY <1>1, <1>n, <1>p DEF Recorded
  <1>3. phases[cur] \in Seq(Report)
    BY <1>t
  <1>4. CASE pc \in {"next", "config", "host", "connect"} /\ ph = "setup"
    <2>1. phases[cur] = <<>>
      BY <1>4, <1>t DEF Recorded
    <2>2. CASE pc' \in {"status", "teardownReport"} /\ out # "passed"
      <3>1. Half(phases'[cur])
        BY <1>1, <1>3, <1>4, <2>1, <2>2, ReportsAdded
      <3>2. Begun(phases'[cur])
        BY <3>1 DEF Half, Begun
      <3> QED
        BY <1>2, <1>s, <2>2, <3>1, <3>2 DEF Recorded, Cleanup
    <2>3. CASE pc' = "call" /\ out = "passed"
      <3>0. /\ Len(Append(phases[cur], <<ph, out>>)) = 1
            /\ Append(phases[cur], <<ph, out>>)[1] = <<ph, out>>
        BY <1>3, <2>1, ReportsAdded
      <3>1. Len(phases'[cur]) = 1 /\ phases'[cur][1] = <<ph, out>>
        BY <1>1, <3>0
      <3>2. phases'[cur][1] = <<"setup", "passed">>
        BY <1>4, <2>3, <3>1
      <3>3. Begun(phases'[cur])
        BY <3>1, <3>2 DEF Begun
      <3> QED
        BY <1>2, <1>s, <2>3, <3>1, <3>2, <3>3 DEF Recorded, Cleanup
    <2> QED
      BY <1>4, <2>2, <2>3
  <1>5. CASE pc = "call" /\ pc' \in {"status", "teardownReport"}
    <2>1. Half(phases'[cur])
      BY <1>1, <1>3, <1>5, ReportsAdded DEF Recorded
    <2>2. Begun(phases'[cur])
      BY <2>1 DEF Half, Begun
    <2> QED
      BY <1>2, <1>s, <1>5, <2>1, <2>2 DEF Recorded, Cleanup
  <1> QED
    BY <1>4, <1>5

(* A step that adds no report and starts no test: the reports stay what    *)
(* they are wherever the session goes without them.                        *)
LEMMA ReportsStay ==
  ASSUME SessionTyped, Stopped, phases \in [Tests -> Seq(Report)], Recorded, UNCHANGED fixed,
         UNCHANGED <<cur, phases>>, pc # "refused", pc' # "call",
         pc' \in {"configure", "collect", "next", "config", "host", "connect"} =>
             pc \in {"configure", "collect", "next", "config", "host", "connect"},
         pc' = "teardownReport" \/ (pc' \in Cleanup /\ stop' # "interrupt") =>
             pc \in Cleanup /\ stop # "interrupt"
  PROVE  phases' \in [Tests' -> Seq(Report)] /\ Recorded'
  BY FixedStays DEF Recorded, fixed

(* Every step keeps the reports in their order.                            *)
LEMMA SessionRecords ==
  ASSUME SessionTyped, Stopped, Gated, phases \in [Tests -> Seq(Report)], Recorded, [Next]_vars
  PROVE  phases' \in [Tests' -> Seq(Report)] /\ Recorded'
  <1>f. c' = c /\ items' = items /\ mine' = mine
    BY SessionFixed
  <1>s. Tests' = Tests
    BY <1>f, FixedStays
  <1>n. /\ Len(items) \in Nat /\ Tests = 1..Len(items) /\ cur \in 1..Len(items) + 1
        /\ mine \subseteq Tests
    BY SessionAssumption DEF SessionTyped, Tests
  <1>r. /\ "setup" \in Phase /\ "call" \in Phase /\ "teardown" \in Phase
        /\ "passed" \in Outcome /\ "failed" \in Outcome /\ "skipped" \in Outcome
    BY DEF Phase, Outcome
  <1>1. CASE Configure \/ Collect \/ TestsEnd \/ WriteResults \/ WriteManifest \/ Finalize \/ Killed
    <2>1. UNCHANGED fixed /\ UNCHANGED <<cur, phases>> /\ pc # "refused"
      BY <1>1 DEF Configure, Collect, TestsEnd, WriteResults, WriteManifest, Finalize, Killed,
                  records, evidence
    <2>2. /\ pc' \in {"refused", "collect", "finish", "next", "manifest", "finalize", "done", "killed"}
          /\ pc' \in {"collect", "next"} => pc \in {"configure", "collect"}
      BY <1>1 DEF Configure, Collect, TestsEnd, WriteResults, WriteManifest, Finalize, Killed
    <2> QED
      BY <2>1, <2>2, ReportsStay DEF Cleanup
  <1>2. CASE Interrupted
    <2>1. UNCHANGED fixed /\ UNCHANGED <<cur, phases>> /\ pc # "refused" /\ pc' # "call"
      BY <1>2 DEF Interrupted
    <2>2. /\ pc' \in {"finish", "status", "closeOwned"}
          /\ pc' # "finish" => stop' = "interrupt"
      BY <1>2 DEF Interrupted
    <2> QED
      BY <2>1, <2>2, ReportsStay DEF Cleanup
  <1>3. CASE Elsewhere
    <2>1. /\ pc = "next" /\ pc' = "next" /\ cur' = cur + 1 /\ cur \in Tests \ mine
          /\ UNCHANGED <<phases, stop>>
      BY <1>3 DEF Elsewhere, records, evidence
    <2>2. \A i \in mine : i < cur + 1 => i < cur
      BY <1>n, <2>1
    <2>3. \A i \in Tests : i > cur + 1 \/ i = cur + 1 => i > cur
      BY <1>n
    <2>4. Begun(<<>>)
      BY DEF Begun
    <2>5. \A i \in Tests : i = cur + 1 => i > cur
      BY <2>3
    <2> QED
      BY <1>f, <1>s, <2>1, <2>2, <2>3, <2>4, <2>5 DEF Recorded, Cleanup
  <1>4. CASE Skipped
    <2>1. /\ Record("setup", "skipped") /\ cur' = cur /\ cur \in mine /\ pc = "next"
          /\ pc' = "teardownReport"
      BY <1>4 DEF Skipped
    <2> QED
      BY <1>f, <1>r, <2>1, ReportStep DEF Running
  <1>5. CASE Setup
    <2>1. CASE items[cur].connected
      <3>1. UNCHANGED fixed /\ UNCHANGED <<cur, phases>> /\ pc = "next" /\ pc' = "config"
        BY <1>5, <2>1 DEF Setup, records
      <3> QED
        BY <3>1, ReportsStay DEF Cleanup
    <2>2. CASE ~items[cur].connected
      <3>1. /\ Record("setup", "passed") /\ cur' = cur /\ cur \in mine /\ pc = "next"
            /\ pc' = "call"
        BY <1>5, <2>2 DEF Setup
      <3> QED
        BY <1>f, <1>r, <3>1, ReportStep DEF Running
    <2> QED
      BY <2>1, <2>2
  <1>e. ASSUME NEW out \in {"skipped", "failed"}, SetupEnds(out), cur' = cur,
               pc \in {"config", "host"}
        PROVE  phases' \in [Tests' -> Seq(Report)] /\ Recorded'
    <2>1. cur \in mine
      BY <1>e DEF Gated, Running, FixtureSteps
    <2>2. Record("setup", out) /\ pc' = "teardownReport" /\ out # "passed" /\ out \in Outcome
      BY <1>e, <1>r DEF SetupEnds
    <2> QED
      BY <1>e, <1>f, <1>r, <2>1, <2>2, ReportStep DEF Running, FixtureSteps
  <1>6. CASE ConnectionConfig
    <2>1. CASE pc' = "host" /\ UNCHANGED records
      <3>1. UNCHANGED fixed /\ UNCHANGED <<cur, phases>> /\ pc = "config"
        BY <1>6, <2>1 DEF ConnectionConfig, records
      <3> QED
        BY <2>1, <3>1, ReportsStay DEF Cleanup
    <2> QED
      BY <1>6, <1>e, <2>1 DEF ConnectionConfig
  <1>7. CASE HostFixture
    <2>1. CASE pc' = "connect" /\ UNCHANGED records
      <3>1. UNCHANGED fixed /\ UNCHANGED <<cur, phases>> /\ pc = "host"
        BY <1>7, <2>1 DEF HostFixture, records
      <3> QED
        BY <2>1, <3>1, ReportsStay DEF Cleanup
    <2> QED
      BY <1>7, <1>e, <2>1 DEF HostFixture
  <1>8. CASE Connect
    <2>1. cur \in mine /\ pc = "connect" /\ cur' = cur
      BY <1>8 DEF Connect, Gated, Running, FixtureSteps
    <2>2. CASE ConnectFails
      BY <1>f, <1>r, <2>1, <2>2, ReportStep DEF ConnectFails, Running, FixtureSteps
    <2>3. CASE Record("setup", "passed") /\ pc' = "call"
      BY <1>f, <1>r, <2>1, <2>3, ReportStep DEF Running, FixtureSteps
    <2> QED
      BY <1>8, <2>2, <2>3 DEF Connect
  <1>9. CASE Call
    <2>1. cur \in mine /\ pc = "call" /\ cur' = cur /\ pc' \in {"status", "teardownReport"}
      BY <1>9 DEF Call, Gated, Running
    <2>2. PICK out \in {"passed", "failed"} : Record("call", out)
      BY <1>9 DEF Call
    <2> QED
      BY <1>f, <1>r, <2>1, <2>2, ReportStep DEF Running
  <1>10. CASE Status \/ Disconnect \/ CloseOwned
    <2>1. /\ pc \in Cleanup /\ UNCHANGED fixed /\ UNCHANGED <<cur, phases, stop>>
          /\ pc' \in {"disconnect", "closeOwned", "teardownReport", "finish"}
          /\ pc' = "teardownReport" => stop # "interrupt"
      BY <1>10 DEF Status, Disconnect, CloseOwned, AfterCleanup, PhaseEnd, evidence, records, Cleanup
    <2> QED
      BY <2>1, ReportsStay DEF Cleanup
  <1>11. CASE TeardownReport
    <2>1. cur \in mine /\ cur \in Tests /\ pc = "teardownReport" /\ cur' = cur + 1 /\ pc' = "next"
      BY <1>11, <1>n DEF TeardownReport, Gated, Running
    <2>2. PICK out \in {"passed", "failed"} : Record("teardown", out)
      BY <1>11 DEF TeardownReport, SessionTyped
    <2>o. out \in Outcome
      BY <1>r, <2>2
    <2>3. /\ phases' \in [Tests -> Seq(Report)]
          /\ c.evidence # Absent => phases'[cur] = Append(phases[cur], <<"teardown", out>>)
          /\ \A i \in Tests : i # cur => phases'[i] = phases[i]
      BY <1>r, <2>o, <2>1, <2>2, RecordAdds
    <2>4. ASSUME c.evidence # Absent PROVE Recorded'
      <3>1. Half(phases[cur]) /\ phases[cur] \in Seq(Report)
        BY <2>1, <2>4 DEF Recorded
      <3>0. Whole(Append(phases[cur], <<"teardown", out>>))
        BY <1>r, <2>o, <3>1, ReportsAdded
      <3>2. Whole(phases'[cur])
        BY <2>3, <2>4, <3>0
      <3>3. /\ \A i \in Tests : i \in mine /\ i < cur => Whole(phases[i])
            /\ \A i \in Tests : i \notin mine \/ i > cur => phases[i] = <<>>
        BY <2>1, <2>4 DEF Recorded
      <3>4. \A i \in Tests : i \in mine /\ i < cur + 1 => Whole(phases'[i])
        BY <1>n, <2>1, <2>3, <3>2, <3>3
      <3>5. \A i \in Tests : i \notin mine \/ i >= cur + 1 => phases'[i] = <<>>
        BY <1>n, <2>1, <2>3, <3>3
      <3>6. Begun(<<>>)
        BY DEF Begun
      <3>7. cur + 1 \in Tests => phases'[cur + 1] = <<>>
        BY <1>n, <3>5
      <3>8. \A i \in Tests : i > cur + 1 => i >= cur + 1
        BY <1>n
      <3> QED
        BY <1>f, <1>s, <2>1, <3>4, <3>5, <3>6, <3>7, <3>8 DEF Recorded, Cleanup
    <2>5. c.evidence = Absent => Recorded'
      BY <1>f DEF Recorded
    <2> QED
      BY <1>s, <2>3, <2>4, <2>5
  <1>12. CASE UNCHANGED vars
    BY <1>12, <1>s DEF vars, Recorded
  <1> QED
    BY <1>1, <1>2, <1>3, <1>4, <1>5, <1>6, <1>7, <1>8, <1>9, <1>10, <1>11, <1>12 DEF Next

(* The manifest is completed last, over the results on disk.               *)
LEMMA SessionWrites ==
  ASSUME SessionTyped, Stopped, Written, [Next]_vars
  PROVE  Written'
  <1>f. c' = c /\ Tests' = Tests
    BY SessionFixed DEF Tests
  <1> USE DEF Written, Absent
  <1>1. CASE Configure
    <2>1. manifest = NoManifest /\ pc' \in {"refused", "collect"}
      BY <1>1 DEF Configure
    <2>2. \/ manifest' = manifest
          \/ c.evidence # Absent /\ manifest' = [manifest EXCEPT !.state = "RUNNING"]
      BY <1>1 DEF Configure, StartEvidence
    <2>3. manifest' = manifest => manifest'.state = "absent"
      BY <2>1 DEF NoManifest
    <2>4. manifest' = [manifest EXCEPT !.state = "RUNNING"] => manifest'.state = "RUNNING"
      BY <2>1 DEF NoManifest
    <2> QED
      BY <1>f, <2>1, <2>2, <2>3, <2>4
  <1>2. CASE WriteResults
    BY <1>2, <1>f DEF WriteResults, records
  <1>3. CASE WriteManifest
    <2>1. manifest.state # Absent =>
            /\ manifest'.state = "COMPLETED" /\ manifest'.exit = ExitStatus
            /\ manifest'.results = results /\ results = <<phases>>
      BY <1>3 DEF WriteManifest
    <2>2. ExitStatus = 0 => stop = "no"
      BY DEF ExitStatus, SessionTyped
    <2>3. ExitStatus = 0 => cur \notin Tests
      BY <1>3, <2>2 DEF WriteManifest, Stopped, Ending
    <2>4. manifest.state = Absent => manifest' = manifest
      BY <1>3 DEF WriteManifest
    <2>5. pc' = "finalize" /\ UNCHANGED <<cur, phases, results>>
      BY <1>3 DEF WriteManifest, records
    <2> QED
      BY <1>f, <2>1, <2>3, <2>4, <2>5
  <1>4. CASE Killed \/ Finalize
    <2>1. pc' \in {"done", "killed"} /\ UNCHANGED <<cur, phases, manifest, results>>
      BY <1>4 DEF Killed, Finalize, evidence, records
    <2>2. pc' = "done" => pc = "finalize"
      BY <1>4 DEF Killed, Finalize
    <2> QED
      BY <1>f, <2>1, <2>2
  <1>5. CASE UNCHANGED vars
    BY <1>5, <1>f DEF vars
  <1>6. CASE \/ Collect \/ Elsewhere \/ Skipped \/ Setup \/ ConnectionConfig \/ HostFixture \/ Connect
             \/ Call \/ Status \/ Disconnect \/ CloseOwned \/ TeardownReport \/ TestsEnd \/ Interrupted
    <2>1. UNCHANGED <<manifest, results>>
      BY <1>6 DEF Collect, Elsewhere, Skipped, Setup, ConnectionConfig, HostFixture, Connect, Call,
                  Status, Disconnect, CloseOwned, TeardownReport, TestsEnd, Interrupted, evidence
    <2>2. /\ pc \notin {"finalize", "done", "killed"}
          /\ pc' \notin {"configure", "manifest", "finalize", "done", "killed"}
      BY <1>6 DEF Collect, Elsewhere, Skipped, Setup, ConnectionConfig, HostFixture, Connect, Call,
                  Status, Disconnect, CloseOwned, TeardownReport, TestsEnd, Interrupted, SetupEnds,
                  ConnectFails, AfterCleanup, PhaseEnd
    <2> QED
      BY <1>f, <2>1, <2>2
  <1> QED
    BY <1>1, <1>2, <1>3, <1>4, <1>5, <1>6 DEF Next

----------------------------------------------------------------------------
(* Every behaviour of a session satisfies the invariant.                   *)
THEOREM SessionInvariant == Spec => []SessionInv
  <1>1. SessionInv /\ [Next]_vars => SessionInv'
    BY SessionTypes, SessionClients, SessionRecords, SessionWrites DEF SessionInv
  <1> QED
    BY SessionInitial, <1>1, PTL DEF Spec

(* A test whose body finds a control session was marked, gated and         *)
(* authorised for it, whatever was collected before it and however the     *)
(* teardowns before it ended (pytest_collection_modifyitems and            *)
(* connected_master).                                                      *)
THEOREM ControlSessionsAreEarned == Spec => []ControlIsEarned
  <1>1. ASSUME SessionInv, pc = "call", items[cur].connected
        PROVE  /\ token = (session # "read")
               /\ session = "control" =>
                    /\ items[cur].stateChanging /\ items[cur].dut
                    /\ c.allow /\ c.ids /\ ~c.xdist /\ ~Simulator
                    /\ items[cur].caps # {}
                    /\ \A cap \in items[cur].caps :
                         cap \in Ready /\ c.pics = "good" /\ Pics[cap] # "UNKNOWN"
                    /\ \A i \in Tests : items[i].stateChanging => items[i].dut
    <2>1. /\ cur \in Tests /\ mark[cur] = "run" /\ Gate(cur) = "run"
          /\ ~ConfigurationError /\ ~XdistError /\ \A i \in Tests : ~CollectionError(i)
      BY <1>1 DEF SessionInv, SessionTyped, Gated, Running
    <2>2. session = Mode /\ token = (session # "read")
      BY <1>1 DEF SessionInv, Clients
    <2> SUFFICES ASSUME session = "control"
                 PROVE  /\ items[cur].stateChanging /\ items[cur].dut
                        /\ c.allow /\ c.ids /\ ~c.xdist /\ ~Simulator
                        /\ items[cur].caps # {}
                        /\ \A cap \in items[cur].caps :
                             cap \in Ready /\ c.pics = "good" /\ Pics[cap] # "UNKNOWN"
                        /\ \A i \in Tests : items[i].stateChanging => items[i].dut
      BY <2>2
    <2>3. ~Simulator /\ items[cur].stateChanging /\ Authorized
      BY <2>2 DEF Mode
    <2>4. \A i \in Tests : items[i].stateChanging => items[i].dut
      BY <2>1 DEF CollectionError
    <2>5. c.allow /\ c.ids /\ ~c.xdist /\ items[cur].dut /\ items[cur].caps # {}
      BY <2>1, <2>3, <2>4 DEF CollectionError, MissingIds, Authorized, XdistError
    <2>6. c.policy # "run" /\ c.pics \in {"absent", "bad", "good"}
      BY <1>1, SessionAssumption DEF SessionInv, SessionTyped
    <2>7. NotReady(cur) = {} /\ ~Unknown(cur)
      BY <2>1, <2>3, <2>5, <2>6 DEF Gate
    <2>8. \A cap \in items[cur].caps : cap \in Ready /\ StatusOf(cap) # "UNKNOWN"
      BY <2>3, <2>7 DEF NotReady, Unknown, Having
    <2>9. c.pics # "bad"
      BY <2>1 DEF ConfigurationError, PicsError
    <2> QED
      BY <2>3, <2>4, <2>5, <2>6, <2>8, <2>9 DEF StatusOf, Absent
  <1>2. SessionInv => ControlIsEarned
    BY <1>1 DEF ControlIsEarned
  <1> QED
    BY SessionInvariant, <1>2, PTL

(* Every simulator test connects through a running host of its own that    *)
(* has no session, whatever the tests before it did (connected_master).    *)
THEOREM NoTestPoisonsAnother == Spec => []NoPoison
  <1>1. SessionInv => NoPoison
    BY DEF SessionInv, Clients, NoPoison
  <1> QED
    BY SessionInvariant, <1>1, PTL

(* No host process outlives the session, whichever teardown failed and     *)
(* wherever Ctrl+C came (connected_master, host_process and the            *)
(* finalizers of pytest_sessionfinish).                                    *)
THEOREM NoHostIsLeft == Spec => []NothingLeftRunning
  <1>1. ASSUME SessionInv PROVE NothingLeftRunning
    <2>1. Len(items) \in Nat /\ Tests = 1..Len(items) /\ cur \in 1..Len(items) + 1
          /\ mine \subseteq Tests
      BY <1>1, SessionAssumption DEF SessionInv, SessionTyped, Tests
    <2>2. pc \in Ending /\ stop = "no" => \A i \in mine : i < cur
      BY <1>1, <2>1 DEF SessionInv, Stopped
    <2> QED
      BY <1>1, <2>2 DEF SessionInv, Clients, NothingLeftRunning, Ending
  <1> QED
    BY SessionInvariant, <1>1, PTL

(* A COMPLETED manifest stands for results on disk that hold the reports   *)
(* of the tests up to the one at which the session ended, and with exit    *)
(* status 0 of all the process was given (EvidenceRecorder.finalize under  *)
(* pytest_sessionfinish).                                                  *)
THEOREM CompletedEvidenceIsWhole == Spec => []EvidenceIsWhole
  <1>1. ASSUME SessionInv, manifest.state = "COMPLETED" PROVE EvidenceIsWhole
    <2>1. /\ pc # "refused" /\ manifest.results = results /\ results = <<phases>>
          /\ c.evidence # Absent
          /\ manifest.exit = 0 => cur \notin Tests
      BY <1>1 DEF SessionInv, Written, Absent
    <2>2. Len(results) = 1 /\ results[1] = phases
      BY <2>1
    <2>3. /\ \A i \in Tests : i \in mine /\ i < cur => Whole(phases[i])
          /\ \A i \in Tests : i \notin mine \/ i > cur => phases[i] = <<>>
          /\ cur \in Tests => Begun(phases[cur])
      BY <1>1, <2>1 DEF SessionInv, Recorded
    <2>4. Len(items) \in Nat /\ Tests = 1..Len(items) /\ cur \in 1..Len(items) + 1
          /\ mine \subseteq Tests
      BY <1>1, SessionAssumption DEF SessionInv, SessionTyped, Tests
    <2>5. cur \notin Tests => \A i \in mine : i \in Tests /\ i < cur
      BY <2>4
    <2>6. manifest.exit = 0 => \A i \in mine : Whole(phases[i])
      BY <2>1, <2>3, <2>5
    <2>7. \A i \in Tests : i = cur => Begun(phases[i])
      BY <2>3
    <2> QED
      BY <2>1, <2>2, <2>3, <2>6, <2>7 DEF EvidenceIsWhole
  <1>2. SessionInv => EvidenceIsWhole
    BY <1>1 DEF EvidenceIsWhole
  <1> QED
    BY SessionInvariant, <1>2, PTL
=============================================================================
