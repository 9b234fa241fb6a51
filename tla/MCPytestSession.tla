-------------------------- MODULE MCPytestSession --------------------------
(* Command lines, environments and collections for TLC.                    *)
EXTENDS PytestSession

Capabilities == {"c1", "c2", "c3", "c4"}
MCReady == {"c1", "c2", "c3"}
MCPics == [cap \in Capabilities |->
             CASE cap = "c2" -> "NOT_SUPPORTED"
               [] cap = "c3" -> "UNKNOWN"
               [] OTHER -> "SUPPORTED"]

Quiet == [simulatorOption |-> FALSE, simulatorEnv |-> "absent", simulatorIni |-> FALSE,
          allow |-> TRUE, ids |-> TRUE, xdist |-> FALSE, policy |-> "xfail",
          settings |-> "absent", conflicting |-> FALSE, otherMatrix |-> FALSE,
          matrix |-> "good", pics |-> "good", points |-> "absent", plan |-> "absent",
          scenario |-> "absent", performance |-> "absent",
          localEvents |-> "absent", evidence |-> "good",
          outstation |-> "good", executable |-> TRUE]

FileStates == {"absent", "bad", "good"}

\* What the gate looks at, in every combination.
GateConfigs ==
    {[Quiet EXCEPT !.simulatorIni = s, !.allow = a, !.ids = i, !.xdist = x,
                   !.policy = p, !.pics = f] :
        s \in BOOLEAN, a \in BOOLEAN, i \in BOOLEAN, x \in BOOLEAN,
        p \in {"xfail", "skip", "error", "bad"}, f \in {"absent", "good"}}

\* What only configuration and the fixtures look at, group by group.
FileConfigs ==
    {[Quiet EXCEPT !.simulatorOption = o, !.simulatorEnv = e, !.settings = s,
                   !.conflicting = n, !.otherMatrix = m] :
        o \in BOOLEAN, e \in {"absent", "true", "false", "bad"}, s \in FileStates,
        n \in BOOLEAN, m \in BOOLEAN}
    \cup {[Quiet EXCEPT !.matrix = m, !.pics = p, !.performance = f, !.localEvents = l,
                         !.evidence = v] :
        m \in FileStates, p \in FileStates, f \in {"absent", "bad"}, l \in {"absent", "bad"},
        v \in FileStates}
    \cup {[Quiet EXCEPT !.points = t, !.plan = l, !.scenario = s, !.simulatorIni = i] :
        t \in FileStates, l \in {"absent", "bad", "LAB", "SIMULATOR"},
        s \in {"absent", "unknown", "disabled", "enabled"}, i \in BOOLEAN}
    \cup {[Quiet EXCEPT !.outstation = o, !.executable = x, !.simulatorIni = i] :
        o \in FileStates, x \in BOOLEAN, i \in BOOLEAN}

MCConfigs == GateConfigs \cup FileConfigs

ReadTest == [stateChanging |-> FALSE, dut |-> TRUE, unsupported |-> FALSE,
             caps |-> {"c1"}, marker |-> "ok", connected |-> TRUE]
ControlTest == [ReadTest EXCEPT !.stateChanging = TRUE]

\* A second test follows one that may leave the shared client in any condition.
MCCollections ==
    {<<ControlTest, t>> : t \in {ReadTest, ControlTest,
        [ReadTest EXCEPT !.dut = FALSE, !.connected = FALSE],
        [ControlTest EXCEPT !.dut = FALSE],
        [ReadTest EXCEPT !.caps = {}], [ReadTest EXCEPT !.marker = "bad"]}}
    \cup {<<[ControlTest EXCEPT !.caps = k, !.unsupported = u]>> :
        k \in SUBSET Capabilities \ {{}}, u \in BOOLEAN}
    \cup {<<ReadTest, ReadTest, ControlTest>>}
=============================================================================
