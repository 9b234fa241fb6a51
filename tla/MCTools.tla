------------------------------- MODULE MCTools -------------------------------
(***************************************************************************)
(* The measuring tools for TLC: the performance suite, the evidence        *)
(* directory of a soak run, the event benchmark and the local outstation.  *)
(* They share no state; in each behaviour one of them takes its steps and  *)
(* the others stay in one fixed initial state.                             *)
(***************************************************************************)
EXTENDS MCPerformanceSuite, SoakEvidence, EventBenchmark, LocalOutstation

VARIABLE tool   \* "suite", "evidence", "benchmark" or "outstation"

suiteVars == vars
mcVars == <<tool, suiteVars, evidenceVars, benchmarkVars, outstationVars>>

\* Loads: ordinary ones, and every mixture around the limits.
BaseLoad == [count |-> 2, iterations |-> 2, start |-> 0, seed |-> 0, base |-> 0, span |-> 1,
             interval |-> 1, duration |-> 3, patience |-> 3]
MCLoads ==
    {BaseLoad, [BaseLoad EXCEPT !.count = 1], [BaseLoad EXCEPT !.span = 2]}
    \cup [count : 0..3, iterations : 1..3, start : 4..7, base : {0, 5}, span : {1, 3},
          interval : {2}, seed : {0}, duration : {2, 3}, patience : {2, 3}]

MCInit ==
    /\ tool \in {"suite", "evidence", "benchmark", "outstation"}
    /\ EvidenceInit /\ OutstationInit
    /\ IF tool = "suite" THEN Init
       ELSE /\ profile = [scenarios |-> <<Plain("p", OneBinary)>>, watchdog |-> 7]
            /\ SuiteStart
    /\ IF tool = "benchmark" THEN BenchmarkInit
       ELSE load = BaseLoad /\ store = <<>> /\ BenchmarkStart

MCNext ==
    \/ /\ tool = "suite" /\ Next
       /\ UNCHANGED <<tool, evidenceVars, benchmarkVars, outstationVars>>
    \/ /\ tool = "evidence" /\ EvidenceNext
       /\ UNCHANGED <<tool, suiteVars, benchmarkVars, outstationVars>>
    \/ /\ tool = "benchmark" /\ BenchmarkNext
       /\ UNCHANGED <<tool, suiteVars, evidenceVars, outstationVars>>
    \/ /\ tool = "outstation" /\ OutstationNext
       /\ UNCHANGED <<tool, suiteVars, evidenceVars, benchmarkVars>>

MCSpec == MCInit /\ [][MCNext]_mcVars
=============================================================================
