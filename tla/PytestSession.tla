--------------------------- MODULE PytestSession ---------------------------
(***************************************************************************)
(* One pytest session of the plugin (pytest_plugin.py) with its evidence   *)
(* recorder (evidence.py): the configuration is validated, the collected   *)
(* tests are gated, and each test that is left runs setup, call and        *)
(* teardown of the connected_master fixture against a native host.  The    *)
(* host, the outstation and the test's own code answer in every way the    *)
(* fixture distinguishes.  A session may end before its last test: a       *)
(* failed report may reach --maxfail, Ctrl+C may come once in any phase,   *)
(* and a process under pytest-xdist runs only its share of the tests.      *)
(* pytest_sessionfinish completes the evidence of each of these.  The      *)
(* process may also be killed at any point.                                *)
(*                                                                         *)
(* Files are abstracted to absent, bad (their loader raises) or good; a    *)
(* capability carries its framework status in the matrix and its PICS      *)
(* status.                                                                 *)
(***************************************************************************)
EXTENDS Naturals, Sequences, FiniteSets

CONSTANTS Configs,      \* the command lines and environments explored
          Collections,  \* the sequences of collected tests explored
          Ready,        \* the capabilities whose framework status is ready
          Pics          \* capability -> "SUPPORTED" | "NOT_SUPPORTED" | "UNKNOWN"

\* A collection is a list; what a file or the policy for unknown capabilities can be.
ASSUME SessionAssumption ==
    /\ \A s \in Collections : Len(s) \in Nat /\ DOMAIN s = 1..Len(s)
    /\ \A k \in Configs : /\ k.policy \in {"xfail", "skip", "error", "bad"}
                          /\ k.pics \in {"absent", "bad", "good"}

VARIABLES c,         \* the configuration, fixed
          items,     \* the collected tests, fixed
          mine,      \* the tests that this process is given to run, fixed
          pc,        \* where the session is
          mark,      \* test -> what collection decided: "run", "skip" or "xfail"
          cur,       \* the test under way, or the one to start next
          host,      \* the client at hand: "none", "running" or "dead"
          session,   \* the host's DNP3 session: "none", "read", "control", "simulator"
          token,     \* the client holds a safety token
          outcome,   \* the outcome of the pytest phase under way
          stop,      \* why the tests end early: "no", "collection", "fail", "interrupt",
                     \* or "body" for a Ctrl+C that left connected_master at its yield
          phases,    \* recorder._results: test -> the recorded phases
          manifest,  \* manifest.json: its state, the exit status and the results it names
          results    \* pytest-results.json: <<>>, or its one content

vars == <<c, items, mine, pc, mark, cur, host, session, token, outcome, stop, phases,
          manifest, results>>
fixed == <<c, items, mine>>
client == <<host, session, token>>
records == <<stop, phases>>
evidence == <<records, manifest, results>>

Absent == "absent"
Tests == DOMAIN items

\* pytest-xdist hands out the tests, and its controller runs none of them.
Shares == IF c.xdist THEN SUBSET Tests ELSE {Tests}

NoManifest == [state |-> Absent, exit |-> 0, results |-> <<>>]

SessionStart ==
    /\ mine \in Shares
    /\ pc = "configure"
    /\ mark = [i \in Tests |-> "run"]
    /\ cur = 1
    /\ host = "none" /\ session = "none" /\ token = FALSE
    /\ outcome = "passed" /\ stop = "no"
    /\ phases = [i \in Tests |-> <<>>]
    /\ manifest = NoManifest /\ results = <<>>

Init == c \in Configs /\ items \in Collections /\ SessionStart
-----------------------------------------------------------------------------
(***************************************************************************)
(* Configuration.                                                          *)
(***************************************************************************)
\* Command line before environment before ini file, resolved once.
Simulator ==
    \/ c.simulatorOption
    \/ IF c.simulatorEnv = Absent THEN c.simulatorIni ELSE c.simulatorEnv = "true"

\* Whether state-changing tests are unlocked.
Authorized == Simulator \/ c.allow

\* The simulator settings bring their own runtime, matrix and connection.
Settings == c.settings = "good"
MatrixPresent == Settings \/ c.matrix # Absent

\* DNP3_SIMULATOR is neither a true nor a false word.
SimulatorError == ~c.simulatorOption /\ c.simulatorEnv = "bad"

\* Settings belong to a simulator run and exclude connection and host options.
SettingsError ==
    c.settings # Absent /\ (~Simulator \/ c.conflicting \/ c.settings = "bad")

\* _load_capability_ids and _load_framework_statuses.
MatrixError ==
    IF Settings THEN c.otherMatrix ELSE c.matrix = "bad"

\* _load_pics_capabilities; a PICS is checked against the matrix.
PicsError == c.pics = "bad" \/ (c.pics # Absent /\ ~MatrixPresent)

PointsError == c.points = "bad"

\* A plan needs its points, and a SIMULATOR plan a simulator.
PlanError ==
    \/ c.plan # Absent /\ (c.points = Absent \/ c.plan = "bad")
    \/ c.plan = "SIMULATOR" /\ ~Simulator

\* The selected control is one of the plan's enabled scenarios.
ScenarioError == c.scenario # Absent /\ (c.plan = Absent \/ c.scenario # "enabled")

PerformanceError == c.performance = "bad"
LocalEventsError == c.localEvents = "bad"
EvidenceError == c.evidence = "bad"

\* What pytest_configure refuses.
ConfigurationError ==
    \/ SimulatorError \/ SettingsError \/ MatrixError \/ PicsError
    \/ PointsError \/ PlanError \/ ScenarioError
    \/ PerformanceError \/ LocalEventsError \/ EvidenceError

\* EvidenceRecorder: a directory of the run's own, with a RUNNING manifest.
StartEvidence ==
    manifest' = IF c.evidence = Absent THEN manifest
                ELSE [manifest EXCEPT !.state = "RUNNING"]

\* pytest_configure; the evidence directory is the last thing it makes.
Configure ==
    /\ pc = "configure"
    /\ IF ConfigurationError
          THEN pc' = "refused" /\ UNCHANGED manifest
          ELSE pc' = "collect" /\ StartEvidence
    /\ UNCHANGED <<fixed, mark, cur, client, outcome, records, results>>
-----------------------------------------------------------------------------
(***************************************************************************)
(* Collection.                                                             *)
(***************************************************************************)
Known(i) == items[i].marker = "ok"
StatusOf(cap) == IF c.pics = Absent THEN "UNKNOWN" ELSE Pics[cap]
Having(i, status) == {cap \in items[i].caps : StatusOf(cap) = status}
NotReady(i) == {cap \in items[i].caps : ~MatrixPresent \/ cap \notin Ready}
Unknown(i) == ~Simulator /\ Having(i, "UNKNOWN") # {}

\* Defect: an authorised test may run without its operator and DUT ids.
MissingIds_Never(i) == FALSE
MissingIds(i) ==
    items[i].stateChanging /\ Authorized /\ ~Simulator /\ ~c.ids

\* The reasons for which one test aborts the whole collection.
CollectionError(i) ==
    \/ items[i].stateChanging /\ ~items[i].dut
    \/ MissingIds(i)
    \/ items[i].dut /\ ~(Known(i) /\ items[i].caps # {})
    \/ items[i].dut /\ NotReady(i) = {} /\ Unknown(i) /\ c.policy = "error"

\* A test the gate neither skips nor marks keeps "run".
Gate(i) ==
    LET it == items[i]
        locked == it.stateChanging /\ ~Authorized
        inapplicable == \/ Having(i, "NOT_SUPPORTED") # {} /\ ~it.unsupported
                        \/ Having(i, "NOT_SUPPORTED") = {} /\ it.unsupported
    IN CASE locked -> "skip"
         [] ~locked /\ ~it.dut -> "run"
         [] ~locked /\ it.dut /\ NotReady(i) # {} -> "skip"
         [] ~locked /\ it.dut /\ NotReady(i) = {} /\ Unknown(i) -> c.policy
         [] ~locked /\ it.dut /\ NotReady(i) = {} /\ ~Unknown(i) ->
              IF inapplicable THEN "skip" ELSE "run"

\* _unknown_policy
PolicyError == c.policy = "bad"

\* Authorised control tests are refused under pytest-xdist.
XdistError ==
    /\ Authorized /\ ~Simulator /\ c.xdist
    /\ \E i \in Tests : items[i].stateChanging

\* pytest_collection_modifyitems: any error aborts before a test runs.
Collect ==
    /\ pc = "collect"
    /\ IF PolicyError \/ XdistError \/ \E i \in Tests : CollectionError(i)
          THEN pc' = "finish" /\ stop' = "collection" /\ UNCHANGED mark
          ELSE pc' = "next" /\ mark' = [i \in Tests |-> Gate(i)] /\ UNCHANGED stop
    /\ UNCHANGED <<fixed, cur, client, outcome, phases, manifest, results>>
-----------------------------------------------------------------------------
(***************************************************************************)
(* The phases of one test.                                                 *)
(***************************************************************************)
\* record_phase: one more phase of the test under way.
RecordPhase(phase, result) == [phases EXCEPT ![cur] = Append(@, <<phase, result>>)]

\* pytest_runtest_makereport; with --maxfail a failed report may be the last allowed.
Record(phase, result) ==
    /\ phases' = IF c.evidence = Absent THEN phases ELSE RecordPhase(phase, result)
    /\ stop' \in IF result = "failed" THEN {stop, "fail"} ELSE {stop}

\* A test of another worker.
Elsewhere ==
    /\ pc = "next" /\ stop = "no" /\ cur \in Tests \ mine
    /\ cur' = cur + 1
    /\ UNCHANGED <<fixed, pc, mark, client, outcome, evidence>>

\* A skipped test has a setup and a teardown report and nothing else.
Skipped ==
    /\ pc = "next" /\ stop = "no" /\ cur \in mine /\ mark[cur] # "run"
    /\ Record("setup", "skipped")
    /\ outcome' = "passed"
    /\ pc' = "teardownReport"
    /\ UNCHANGED <<fixed, mark, cur, client, manifest, results>>

\* The fixtures a test asks for: a test without connected_master has none.
Setup ==
    /\ pc = "next" /\ stop = "no" /\ cur \in mine /\ mark[cur] = "run"
    /\ outcome' = "passed"
    /\ pc' = IF items[cur].connected THEN "config" ELSE "call"
    /\ IF items[cur].connected THEN UNCHANGED records ELSE Record("setup", "passed")
    /\ UNCHANGED <<fixed, mark, cur, client, manifest, results>>

\* A setup that ends before connected_master entered its try block.
SetupEnds(result) ==
    /\ Record("setup", result)
    /\ outcome' = "passed"
    /\ pc' = "teardownReport"

\* dnp3_connection_config: no outstation skips, a bad value fails.
ConnectionConfig ==
    /\ pc = "config"
    /\ IF ~Settings /\ c.outstation = Absent THEN SetupEnds("skipped")
       ELSE IF ~Settings /\ c.outstation = "bad" THEN SetupEnds("failed")
       ELSE pc' = "host" /\ UNCHANGED <<outcome, records>>
    /\ UNCHANGED <<fixed, mark, cur, client, manifest, results>>

\* Defect: simulator tests share the session's client too.
Owned_Never == FALSE
\* A simulator test owns its client, a LAB test borrows the session's.
Owned == Simulator

\* What a new connection asks for: the safety configuration is built only for an
\* authorised LAB test.
Mode == CASE Simulator -> "simulator"
          [] ~Simulator /\ items[cur].stateChanging /\ Authorized -> "control"
          [] OTHER -> "read"

\* dnp3_host_config and start(): a session fixture that failed stays failed.
HostFixture ==
    /\ pc = "host"
    /\ \/ /\ ~Owned /\ host # "none"
          /\ IF host = "failed" THEN SetupEnds("failed")
             ELSE pc' = "connect" /\ UNCHANGED <<outcome, records>>
          /\ UNCHANGED client
       \/ /\ Owned \/ host = "none"
          /\ Settings \/ c.executable
          /\ host' = "running" /\ session' = "none" /\ token' = FALSE
          /\ pc' = "connect"
          /\ UNCHANGED <<outcome, records>>
       \/ \* the executable is not configured, or start() raises
          /\ Owned \/ host = "none"
          /\ host' = IF Owned THEN host ELSE "failed"
          /\ SetupEnds("failed")
          /\ UNCHANGED <<session, token>>
    /\ UNCHANGED <<fixed, mark, cur, manifest, results>>

\* The setup failed inside connected_master's try: its finally clause runs first.
ConnectFails ==
    /\ Record("setup", "failed")
    /\ outcome' = "passed"
    /\ pc' = "status"

\* The client aborts the process whose answer it cannot use, or finds it gone.
HostLost == host' = "dead" /\ session' = "none" /\ token' = FALSE

\* connect(): refused by a dead client or an active session.
Connect ==
    /\ pc = "connect"
    /\ \/ /\ host = "dead" \/ session # "none"
          /\ ConnectFails
          /\ UNCHANGED client
       \/ /\ host = "running" /\ session = "none"
          /\ \/ /\ session' = Mode
                /\ token' = (Mode # "read")
                /\ Record("setup", "passed")
                /\ pc' = "call"
                /\ UNCHANGED <<host, outcome>>
             \/ ConnectFails /\ UNCHANGED client          \* CONNECTION_TIMEOUT
             \/ ConnectFails /\ HostLost
    /\ UNCHANGED <<fixed, mark, cur, manifest, results>>

\* The test's own code: it may disconnect, and any request may lose the host.
Call ==
    /\ pc = "call"
    /\ \E result \in {"passed", "failed"} : Record("call", result)
    /\ \/ UNCHANGED client
       \/ /\ items[cur].connected /\ session # "none"
          /\ session' = "none" /\ token' = FALSE /\ UNCHANGED host
       \/ items[cur].connected /\ HostLost
    /\ pc' = IF items[cur].connected THEN "status" ELSE "teardownReport"
    /\ outcome' = "passed"
    /\ UNCHANGED <<fixed, mark, cur, manifest, results>>

\* A phase cut by Ctrl+C has no report.
PhaseEnd == IF stop = "interrupt" THEN "finish" ELSE "teardownReport"

\* Where connected_master's outer finally leads.
AfterCleanup == IF Owned THEN "closeOwned" ELSE PhaseEnd

\* The teardown of connected_master up to get_status().
Status ==
    /\ pc = "status"
    /\ \/ /\ host = "dead" \/ session = "none"
          /\ pc' = AfterCleanup /\ UNCHANGED <<outcome, client>>
       \/ /\ host = "running" /\ session # "none"
          /\ \/ pc' = "disconnect" /\ UNCHANGED <<outcome, client>>
             \/ \* an error answer other than NOT_CONNECTED is raised
                pc' = AfterCleanup /\ outcome' = "failed" /\ UNCHANGED client
       \/ /\ host = "running"
          /\ pc' = AfterCleanup /\ outcome' = "failed" /\ HostLost
    /\ UNCHANGED <<fixed, mark, cur, evidence>>

\* A cleanup error answers after the session is gone; the client keeps the token.
Disconnect ==
    /\ pc = "disconnect"
    /\ \/ session' = "none" /\ token' = FALSE /\ UNCHANGED <<host, outcome>>
       \/ session' = "none" /\ outcome' = "failed" /\ UNCHANGED <<host, token>>
       \/ outcome' = "failed" /\ HostLost
    /\ pc' = AfterCleanup
    /\ UNCHANGED <<fixed, mark, cur, evidence>>

\* Defect: the owned client is closed only when the teardown went well.
CloseOwned_OnSuccess ==
    /\ pc = "closeOwned"
    /\ host' = IF outcome = "passed" THEN "none" ELSE host
    /\ session' = IF outcome = "passed" THEN "none" ELSE session
    /\ token' = FALSE
    /\ pc' = PhaseEnd
    /\ UNCHANGED <<fixed, mark, cur, outcome, evidence>>

\* close() of an owned client; a forced termination fails the teardown.
CloseOwned ==
    /\ pc = "closeOwned"
    /\ host' = "none" /\ session' = "none" /\ token' = FALSE
    /\ outcome' \in {outcome, "failed"}
    /\ pc' = PhaseEnd
    /\ UNCHANGED <<fixed, mark, cur, evidence>>

LastTest == \A i \in mine : i <= cur
Shared == ~Owned /\ host \in {"running", "dead"}

\* The last test's teardown also finalizes host_process, which closes the client
\* that the LAB tests share.  Whether the one that --maxfail ends at does depends on
\* the version of pytest; pytest_sessionfinish does it otherwise.
TeardownReport ==
    /\ pc = "teardownReport"
    /\ \/ /\ Shared /\ (LastTest \/ stop = "fail")
          /\ host' = "none" /\ session' = "none" /\ token' = FALSE
          /\ \E result \in {outcome, "failed"} : Record("teardown", result)
       \/ /\ ~(Shared /\ LastTest)
          /\ UNCHANGED client
          /\ Record("teardown", outcome)
    /\ cur' = cur + 1
    /\ pc' = "next"
    /\ UNCHANGED <<fixed, mark, outcome, manifest, results>>

\* What Ctrl+C does to a request under way: it aborts the host, or comes before or
\* after it; the client learns the token of a session only from the whole answer.
RequestCut ==
    \/ UNCHANGED client
    \/ HostLost
    \/ /\ pc = "connect" /\ host = "running" /\ session = "none" /\ session' = Mode
       /\ UNCHANGED <<host, token>>
    \/ pc \in {"call", "disconnect"} /\ session' = "none" /\ UNCHANGED <<host, token>>

\* Ctrl+C ends the session without a report of the phase.  Inside connected_master
\* its finally clauses run first; a test's body leaves it suspended.
Interrupted ==
    /\ stop \in {"no", "fail"}
    /\ \/ /\ pc \in {"collect", "next", "config", "host", "teardownReport"}
          /\ pc' = "finish" /\ stop' = "interrupt" /\ UNCHANGED client
       \/ /\ pc = "call"
          /\ pc' = "finish"
          /\ stop' = IF items[cur].connected THEN "body" ELSE "interrupt"
          /\ IF items[cur].connected THEN RequestCut ELSE UNCHANGED client
       \/ /\ pc \in {"connect", "status", "disconnect"}
          /\ pc' = CASE pc = "connect" -> "status"
                     [] pc # "connect" -> IF Owned THEN "closeOwned" ELSE "finish"
          /\ stop' = "interrupt" /\ RequestCut
    /\ UNCHANGED <<fixed, mark, cur, outcome, phases, manifest, results>>
-----------------------------------------------------------------------------
(***************************************************************************)
(* The end of the session: pytest-results.json, then the manifest.         *)
(***************************************************************************)
\* No test is left, or --maxfail is reached.
TestsEnd ==
    /\ pc = "next" /\ (cur \notin Tests \/ stop # "no")
    /\ pc' = "finish"
    /\ UNCHANGED <<fixed, mark, cur, client, outcome, evidence>>

\* pytest's own account: 2 after Ctrl+C, 4 for a usage error, 1 for a failed report.
ExitStatus ==
    CASE stop \in {"interrupt", "body"} -> 2
      [] stop = "collection" -> 4
      [] stop = "fail" -> 1
      [] stop = "no" ->
           IF \E i \in Tests : \E k \in DOMAIN phases[i] : phases[i][k][2] = "failed"
              THEN 1 ELSE 0

\* Defect: the manifest is completed before the results are on disk.
WriteResults_ManifestFirst ==
    /\ pc = "finish"
    /\ manifest' = IF manifest.state = Absent THEN manifest
                   ELSE [state |-> "COMPLETED", exit |-> ExitStatus, results |-> <<phases>>]
    /\ pc' = "manifest"
    /\ UNCHANGED <<fixed, mark, cur, client, outcome, records, results>>

\* The first _atomic_json of finalize.
WriteResults ==
    /\ pc = "finish"
    /\ results' = IF manifest.state = Absent THEN <<>> ELSE <<phases>>
    /\ pc' = "manifest"
    /\ UNCHANGED <<fixed, mark, cur, client, outcome, records, manifest>>

\* The second: the digest is taken from the file just written.
WriteManifest ==
    /\ pc = "manifest"
    /\ manifest' = IF manifest.state = Absent THEN manifest
                   ELSE [state |-> "COMPLETED", exit |-> ExitStatus, results |-> results]
    /\ pc' = "finalize"
    /\ UNCHANGED <<fixed, mark, cur, client, outcome, records, results>>

\* pytest's own pytest_sessionfinish, called after the plugin's, finalizes the
\* fixtures still set up: the shared client, and a suspended connected_master.
Finalize ==
    /\ pc = "finalize"
    /\ IF (~Owned /\ host # "failed") \/ stop = "body"
          THEN host' = "none" /\ session' = "none" /\ token' = FALSE
          ELSE UNCHANGED client
    /\ pc' = "done"
    /\ UNCHANGED <<fixed, mark, cur, outcome, evidence>>

\* The pytest process is killed; its job object takes the host with it.
Killed ==
    /\ pc \notin {"done", "refused", "killed"}
    /\ pc' = "killed"
    /\ host' = "none" /\ session' = "none" /\ token' = FALSE
    /\ UNCHANGED <<fixed, mark, cur, outcome, evidence>>

Next ==
    \/ Configure \/ Collect
    \/ Elsewhere \/ Skipped \/ Setup \/ ConnectionConfig \/ HostFixture \/ Connect \/ Call
    \/ Status \/ Disconnect \/ CloseOwned \/ TeardownReport
    \/ TestsEnd \/ WriteResults \/ WriteManifest \/ Finalize
    \/ Interrupted \/ Killed

Spec == Init /\ [][Next]_vars
-----------------------------------------------------------------------------
\* A test's body that finds a control-enabled LAB session was itself marked and
\* authorised for it: dnp3_state_changing and dnp3_dut, an operator and a DUT id, no
\* xdist, and every capability ready in the framework and known to the PICS, with no
\* test of the collection mis-marked.  In particular the session of an earlier test
\* whose teardown failed never reaches the body of a later one, and the client's
\* token is that session's.
ControlIsEarned ==
    pc = "call" /\ items[cur].connected =>
        /\ token = (session # "read")
        /\ session = "control" =>
             /\ items[cur].stateChanging /\ items[cur].dut
             /\ c.allow /\ c.ids /\ ~c.xdist /\ ~Simulator
             /\ items[cur].caps # {}
             /\ \A cap \in items[cur].caps :
                  cap \in Ready /\ c.pics = "good" /\ Pics[cap] # "UNKNOWN"
             /\ \A i \in Tests : items[i].stateChanging => items[i].dut

\* "A failed simulator exchange must not poison every later test in the run"
\* (connected_master): whatever the earlier tests did, a simulator test connects
\* through a running host that has no session.
NoPoison ==
    Simulator /\ pc = "connect" => host = "running" /\ session = "none"

\* When the session is over no host process is left, whichever teardown failed and
\* wherever Ctrl+C came; when no test was cut off that is so before the evidence is
\* written.
NothingLeftRunning ==
    pc = "done" \/ (pc \in {"finish", "manifest", "finalize"} /\ stop = "no")
        => host \in {"none", "failed"} /\ session = "none"

\* The reports of a test that ran to its end: setup and teardown, and a call if and
\* only if the setup passed; and those of a test that was cut off.
Whole(r) ==
    /\ Len(r) \in {2, 3}
    /\ r[1][1] = "setup" /\ r[Len(r)][1] = "teardown"
    /\ Len(r) = 3 <=> r[1][2] = "passed"
Begun(r) ==
    /\ Len(r) \in {0, 1, 2}
    /\ Len(r) > 0 => r[1][1] = "setup"
    /\ Len(r) = 2 => r[1][2] = "passed"

\* A COMPLETED manifest names the results on disk.  Those hold, in order, every report
\* of the tests that this process ran before the one at which the session ended, the
\* reports that one had by then, and none of a later one; a killed session leaves no
\* COMPLETED manifest without them.  COMPLETED alone does not say that every test ran,
\* since pytest_sessionfinish writes it after Ctrl+C and --maxfail too: exit status 0
\* does, for the tests given to this process.
EvidenceIsWhole ==
    manifest.state = "COMPLETED" =>
        /\ Len(results) = 1 /\ manifest.results = results
        /\ \A i \in Tests :
             /\ i \in mine /\ i < cur => Whole(results[1][i])
             /\ i = cur => Begun(results[1][i])
             /\ i \notin mine \/ i > cur => results[1][i] = <<>>
        /\ manifest.exit = 0 => \A i \in mine : Whole(results[1][i])
=============================================================================
