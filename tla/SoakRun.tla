------------------------------- MODULE SoakRun -------------------------------
(***************************************************************************)
(* run_soak of soak.py: the loop that executes read-only scenarios for a   *)
(* target time, audits the channel between them and decides whether the    *)
(* run passed, while the channel (ChannelEvents) opens and closes, the     *)
(* native host may exit, and a stop or an interrupt may be requested at    *)
(* any moment.                                                             *)
(*                                                                         *)
(* Every RPC is one step and may fail.  Times are choices: a sample or a   *)
(* checkpoint may be due, the target may be reached.  A latency or a       *)
(* resource sample is within its threshold or not.  The files are the      *)
(* subject of SoakEvidence; here a write succeeds or fails.                *)
(***************************************************************************)
EXTENDS ChannelEvents, FiniteSets

CONSTANTS
    NScenarios,         \* number of scenarios of the profile
    Capturing,          \* the scenarios that run under a measurement capture
    Warmups,            \* warm-up iterations of each scenario
    MinSamples,         \* thresholds.minimum_samples
    AllowedReconnects,  \* soak.allowed_reconnects
    MaxConsecutive,     \* soak.max_consecutive_failures
    BatchSize,          \* max_events of one wait_event
    MaxBatches,         \* _MAX_CHANNEL_EVENT_BATCHES
    MaxResources        \* _MAX_RESOURCE_SAMPLES

ASSUME SoakAssumption ==
    /\ NScenarios \in Nat \ {0} /\ Capturing \subseteq 1..NScenarios
    /\ {Warmups, MinSamples, AllowedReconnects, MaxConsecutive} \subseteq Nat
    /\ {BatchSize, MaxBatches, MaxResources} \subseteq Nat \ {0}

VARIABLES
    pc,             \* where run_soak is
    goal,           \* what the drain in progress is for
    batch, states,  \* _drain_channel_events: batches taken, states collected
    observed,       \* observed_channel_state
    reconnects,     \* reconnect_count
    cycle,          \* index of the next scenario, and the warm-ups still to run
    successes,      \* successes[s]: scenario_counts, up to MinSamples
    failed,         \* failure_count # 0
    consecutive,    \* consecutive_failures
    resources,      \* len(resources)
    droppedSeen,    \* channel_event_dropped_total # 0
    exceeded,       \* some latency or resource sample is above its threshold
    status, passed, reportWritten,
    hostUp,         \* client.is_running
    stopAsked,      \* stop_requested()
    capturing,      \* a capture is active in the host
    episodes,       \* history: disconnections since the baseline was drained
    audit           \* history: what was true when the last drain ended

runVars == <<observed, reconnects, cycle, successes, failed, consecutive, resources,
             droppedSeen, exceeded>>
resultVars == <<status, passed, reportWritten>>
soakVars == <<pc, goal, batch, states, runVars, resultVars, capturing, audit>>
vars == <<channelVars, soakVars, hostUp, stopAsked, episodes>>

Terminal == {"cleanup", "checkpointFinal", "report", "returned"}

Init ==
    /\ ChannelInit
    /\ pc = "drain" /\ goal = "baseline" /\ batch = 0 /\ states = <<>>
    /\ observed = "OPEN" /\ reconnects = 0
    /\ cycle = [next |-> 1, warmups |-> NScenarios * Warmups]
    /\ successes = [s \in 1..NScenarios |-> 0]
    /\ failed = FALSE /\ consecutive = 0 /\ resources = 0
    /\ droppedSeen = FALSE /\ exceeded = FALSE
    /\ status = "INTERNAL_ERROR" /\ passed = FALSE /\ reportWritten = FALSE
    /\ hostUp = TRUE /\ stopAsked = FALSE /\ capturing = FALSE
    /\ episodes = 0
    /\ audit = [episodes |-> 0, dropped |-> FALSE, stop |-> FALSE, host |-> TRUE, armed |-> FALSE]

----------------------------------------------------------------------------
(* The environment.                                                        *)

Channel ==
    /\ hostUp /\ StateChange
    /\ episodes' = IF audit.armed /\ chState = "OPEN" THEN episodes + 1 ELSE episodes
    /\ UNCHANGED <<soakVars, hostUp, stopAsked>>

HostExit ==
    /\ hostUp /\ hostUp' = FALSE
    /\ UNCHANGED <<channelVars, soakVars, stopAsked, episodes>>

StopRequested ==
    /\ ~stopAsked /\ stopAsked' = TRUE
    /\ UNCHANGED <<channelVars, soakVars, hostUp, episodes>>

----------------------------------------------------------------------------
(* How the body of the run ends: an exception goes to its handler, a break *)
(* to the final audit.                                                     *)

Goto(step) == pc' = step /\ batch' = 0 /\ states' = <<>> /\ UNCHANGED goal
Drain(for) == pc' = "drain" /\ goal' = for /\ batch' = 0 /\ states' = <<>>

LeaveBody(result) ==
    /\ Goto("cleanup") /\ status' = result
    /\ UNCHANGED <<passed, reportWritten, audit, capturing>>

Crashed == failed' = TRUE /\ UNCHANGED <<observed, reconnects, cycle, successes, consecutive,
                                         resources, droppedSeen, exceeded>>

BreakWith(result) ==
    /\ Goto(IF result = "COMPLETED" THEN "finalStatus" ELSE "finalDrain")
    /\ status' = result
    /\ UNCHANGED <<passed, reportWritten, audit>>

InBody == pc \notin Terminal
CallsHost == pc \in {"drain", "baseStatus", "snapshot", "finalStatus"}

(* KeyboardInterrupt anywhere in the body.                                 *)
Interrupt ==
    /\ InBody /\ LeaveBody("INTERRUPTED")
    /\ UNCHANGED <<channelVars, runVars, hostUp, stopAsked, episodes>>

(* A request of the audit fails: its reply is lost or the host is gone.    *)
RpcFails ==
    /\ CallsHost /\ LeaveBody("INTERNAL_ERROR") /\ Crashed
    /\ UNCHANGED <<channelVars, hostUp, stopAsked, episodes>>

----------------------------------------------------------------------------
(* _drain_channel_events and observe_channel_events.                       *)

(* The number of times a sequence of states leaves OPEN, starting from s.  *)
Departures(s, seq) ==
    Cardinality({i \in 1..Len(seq) : (<<s>> \o seq)[i] = "OPEN" /\ seq[i] # "OPEN"})

Observed(s, seq) == IF seq = <<>> THEN s ELSE seq[Len(seq)]

(* What is true at the end of a drain; the baseline starts the count.      *)
Audited ==
    audit' = [episodes |-> episodes, dropped |-> chDropped # 0, stop |-> stopAsked,
              host |-> hostUp, armed |-> TRUE]

AfterDrain ==
    CASE goal = "baseline" -> "baseStatus"
      [] goal = "warmup" -> IF cycle.warmups = 0 THEN "checkpoint0" ELSE "iterate0"
      [] goal = "cycle" -> "snapshot"
      [] goal = "final" -> "decide"

(* observe_channel_events, on the states of a complete drain.              *)
Observe(seq) ==
    /\ reconnects' = IF goal = "baseline" \/ chDropped # 0 THEN reconnects
                     ELSE reconnects + Departures(observed, seq)
    /\ observed' = IF goal = "baseline" \/ chDropped # 0 THEN observed ELSE Observed(observed, seq)
    /\ IF chDropped # 0 \/ reconnects' > AllowedReconnects
       THEN pc' = "cleanup" /\ status' = "CONNECTION_LIMIT"
       ELSE pc' = AfterDrain /\ UNCHANGED status
    /\ droppedSeen' = (chDropped # 0)
    /\ Audited

TakeBatch ==
    /\ pc = "drain" /\ hostUp
    /\ LET n == IF Len(chQueue) < BatchSize THEN Len(chQueue) ELSE BatchSize
           seq == states \o Taken(n)
       IN /\ TakeEvents(n)
          /\ \/ /\ n = Len(chQueue)
                /\ Observe(seq) /\ batch' = 0 /\ states' = <<>>
             \/ /\ n # Len(chQueue) /\ batch + 1 < MaxBatches
                /\ batch' = batch + 1 /\ states' = seq
                /\ UNCHANGED <<pc, observed, reconnects, droppedSeen, status, audit>>
             \/ /\ n # Len(chQueue) /\ batch + 1 = MaxBatches
                /\ batch' = 0 /\ states' = <<>> /\ pc' = "cleanup" /\ status' = "CONNECTION_LIMIT"
                /\ UNCHANGED <<observed, reconnects, droppedSeen, audit>>
    /\ UNCHANGED <<goal, cycle, successes, failed, consecutive, resources, exceeded, passed,
                   reportWritten, capturing, hostUp, stopAsked, episodes>>

----------------------------------------------------------------------------
(* The body of the run.                                                    *)

(* The first get_status: the run starts only on an open channel.           *)
BaseStatus ==
    /\ pc = "baseStatus" /\ hostUp
    /\ \/ /\ chState = "OPEN" /\ observed' = "OPEN"
          /\ Goto(IF cycle.warmups = 0 THEN "checkpoint0" ELSE "iterate0")
          /\ UNCHANGED <<resultVars, audit, capturing>>
       \/ chState # "OPEN" /\ LeaveBody("CONNECTION_LIMIT") /\ UNCHANGED observed
    /\ UNCHANGED <<channelVars, reconnects, cycle, successes, failed, consecutive, resources,
                   droppedSeen, exceeded, hostUp, stopAsked, episodes>>

(* execute_read_only_iteration: whether it returns, and whether it leaves  *)
(* a capture behind.  A capture that is still active makes begin_capture   *)
(* fail; a lost reply of begin or end may leave one.                       *)
Iteration(s) ==
    IF s \notin Capturing THEN {[ok |-> hostUp, left |-> capturing], [ok |-> FALSE, left |-> capturing]}
    ELSE IF capturing THEN {[ok |-> FALSE, left |-> TRUE]}
    ELSE {[ok |-> hostUp, left |-> FALSE], [ok |-> FALSE, left |-> FALSE], [ok |-> FALSE, left |-> TRUE]}

(* The warm-ups run scenario after scenario, each Warmups times.           *)
Warming == 1 + (NScenarios * Warmups - cycle.warmups) \div Warmups

Warmup ==
    /\ pc = "iterate0"
    /\ \E i \in Iteration(Warming) :
          /\ capturing' = i.left
          /\ \/ /\ i.ok /\ Drain("warmup")
                /\ cycle' = [cycle EXCEPT !.warmups = @ - 1]
                /\ UNCHANGED <<failed, resultVars>>
             \/ /\ ~i.ok /\ Goto("cleanup") /\ status' = "INTERNAL_ERROR" /\ failed' = TRUE
                /\ UNCHANGED <<cycle, passed, reportWritten>>
    /\ UNCHANGED <<channelVars, observed, reconnects, successes, consecutive, resources,
                   droppedSeen, exceeded, audit, hostUp, stopAsked, episodes>>

(* A checkpoint in the body: when it cannot be written, the run is over.   *)
Checkpoint ==
    /\ pc \in {"checkpoint0", "tick"}
    /\ \/ Goto("head") /\ UNCHANGED <<runVars, resultVars, audit, capturing>>
       \/ LeaveBody("RESOURCE_LIMIT") /\ UNCHANGED runVars
       \/ LeaveBody("INTERNAL_ERROR") /\ Crashed
    /\ UNCHANGED <<channelVars, hostUp, stopAsked, episodes>>

(* Defect: the loop does not look at the stop request.                     *)
LoopHead_IgnoresStop ==
    /\ pc = "head"
    /\ \/ ~hostUp /\ BreakWith("HOST_EXIT")
       \/ hostUp /\ BreakWith("COMPLETED")
       \/ hostUp /\ Drain("cycle") /\ UNCHANGED <<resultVars, audit>>
    /\ UNCHANGED <<channelVars, runVars, capturing, hostUp, stopAsked, episodes>>

(* The head of the loop, with its tests in the order of the code.          *)
LoopHead ==
    /\ pc = "head"
    /\ \/ stopAsked /\ BreakWith("INTERRUPTED")
       \/ ~stopAsked /\ ~hostUp /\ BreakWith("HOST_EXIT")
       \/ ~stopAsked /\ hostUp /\ BreakWith("COMPLETED")
       \/ ~stopAsked /\ hostUp /\ Drain("cycle") /\ UNCHANGED <<resultVars, audit>>
    /\ UNCHANGED <<channelVars, runVars, capturing, hostUp, stopAsked, episodes>>

(* Defect: the snapshot replaces the observed state without counting.      *)
Snapshot_Uncounted ==
    /\ pc = "snapshot" /\ hostUp
    /\ observed' = chState /\ Goto("sample")
    /\ UNCHANGED <<channelVars, reconnects, cycle, successes, failed, consecutive, resources,
                   droppedSeen, exceeded, resultVars, audit, capturing, hostUp, stopAsked,
                   episodes>>

(* The snapshot taken after the drain overrides what the events said.      *)
Snapshot ==
    /\ pc = "snapshot" /\ hostUp
    /\ reconnects' = reconnects + Departures(observed, <<chState>>)
    /\ observed' = chState
    /\ \/ reconnects' > AllowedReconnects /\ LeaveBody("CONNECTION_LIMIT")
       \/ reconnects' <= AllowedReconnects /\ Goto("sample")
          /\ UNCHANGED <<resultVars, audit, capturing>>
    /\ UNCHANGED <<channelVars, cycle, successes, failed, consecutive, resources, droppedSeen,
                   exceeded, hostUp, stopAsked, episodes>>

(* The resource sample, when it is due; the first always is.               *)
Sample ==
    /\ pc = "sample"
    /\ \/ /\ resources > 0 /\ Goto("iterate")
          /\ UNCHANGED <<runVars, resultVars, audit, capturing>>
       \/ /\ resources = MaxResources /\ BreakWith("RESOURCE_LIMIT")
          /\ UNCHANGED <<runVars, capturing>>
       \/ /\ resources < MaxResources /\ hostUp /\ resources' = resources + 1
          /\ exceeded' \in {exceeded, TRUE}
          /\ Goto("iterate")
          /\ UNCHANGED <<observed, reconnects, cycle, successes, failed, consecutive,
                         droppedSeen, resultVars, audit, capturing>>
       \/ resources < MaxResources /\ LeaveBody("INTERNAL_ERROR") /\ Crashed
    /\ UNCHANGED <<channelVars, hostUp, stopAsked, episodes>>

Following == [cycle EXCEPT !.next = 1 + (@ % NScenarios)]

IterationSucceeds ==
    \/ /\ \E slow \in {exceeded, TRUE} : exceeded' = slow
       /\ successes' = [successes EXCEPT ![cycle.next] = IF @ < MinSamples THEN @ + 1 ELSE @]
       /\ consecutive' = 0 /\ cycle' = Following
       /\ Goto("tick") /\ UNCHANGED <<failed, resultVars, audit>>
    \/ /\ \/ BreakWith("WATCHDOG")          \* it took longer than the watchdog allows
          \/ BreakWith("RESOURCE_LIMIT")    \* _MAX_LATENCY_SAMPLES
       /\ UNCHANGED <<exceeded, successes, consecutive, cycle, failed>>

IterationFails ==
    /\ failed' = TRUE /\ consecutive' = consecutive + 1
    /\ \/ /\ consecutive' > MaxConsecutive /\ BreakWith("FAILURE_LIMIT") /\ UNCHANGED cycle
       \/ /\ consecutive' <= MaxConsecutive /\ Goto("tick") /\ cycle' = Following
          /\ UNCHANGED <<resultVars, audit>>
    /\ UNCHANGED <<exceeded, successes>>

Iterate ==
    /\ pc = "iterate"
    /\ \E i \in Iteration(cycle.next) :
          /\ capturing' = i.left
          /\ IF i.ok THEN IterationSucceeds ELSE IterationFails
    /\ UNCHANGED <<channelVars, observed, reconnects, resources, droppedSeen, hostUp, stopAsked, episodes>>

----------------------------------------------------------------------------
(* The final audit and the report.                                         *)

FinalStatus ==
    /\ pc = "finalStatus" /\ hostUp
    /\ \/ chState = "OPEN" /\ Goto("finalDrain") /\ UNCHANGED <<resultVars, audit, capturing>>
       \/ chState # "OPEN" /\ LeaveBody("CONNECTION_LIMIT")
    /\ UNCHANGED <<channelVars, runVars, hostUp, stopAsked, episodes>>

FinalDrain ==
    /\ pc = "finalDrain"
    /\ IF hostUp THEN Drain("final") ELSE Goto("decide")
    /\ UNCHANGED <<channelVars, runVars, resultVars, audit, capturing, hostUp, stopAsked, episodes>>

(* Defect: the last tests are missing.                                     *)
Decide_Unchecked ==
    /\ pc = "decide"
    /\ LeaveBody(status) /\ resources' \in {resources, MaxResources}
    /\ UNCHANGED <<channelVars, observed, reconnects, cycle, successes, failed, consecutive,
                   droppedSeen, exceeded, hostUp, stopAsked, episodes>>

(* Reaching the time target is not enough: the last tests.                 *)
Decide ==
    /\ pc = "decide"
    /\ \/ /\ status = "COMPLETED" /\ ~stopAsked /\ hostUp /\ observed = "OPEN"
          /\ \/ resources = MaxResources /\ LeaveBody("RESOURCE_LIMIT") /\ UNCHANGED runVars
             \/ /\ resources < MaxResources /\ resources' = resources + 1
                /\ exceeded' \in {exceeded, TRUE}
                /\ LeaveBody(status)
                /\ UNCHANGED <<observed, reconnects, cycle, successes, failed, consecutive,
                               droppedSeen>>
             \/ resources < MaxResources /\ LeaveBody("INTERNAL_ERROR") /\ Crashed
       \/ /\ \/ status # "COMPLETED" /\ LeaveBody(status)
             \/ status = "COMPLETED" /\ stopAsked /\ LeaveBody("INTERRUPTED")
             \/ status = "COMPLETED" /\ ~stopAsked /\ ~hostUp /\ LeaveBody("HOST_EXIT")
             \/ status = "COMPLETED" /\ ~stopAsked /\ hostUp /\ observed # "OPEN"
                  /\ LeaveBody("CONNECTION_LIMIT")
          /\ UNCHANGED runVars
    /\ UNCHANGED <<channelVars, hostUp, stopAsked, episodes>>

(* The finally clause: closing the sampler may fail.                       *)
Cleanup ==
    /\ pc = "cleanup" /\ Goto("checkpointFinal")
    /\ \/ UNCHANGED status
       \/ status = "COMPLETED" /\ status' = "INTERNAL_ERROR"
    /\ UNCHANGED <<channelVars, runVars, passed, reportWritten, audit, capturing, hostUp,
                   stopAsked, episodes>>

CheckpointFinal ==
    /\ pc = "checkpointFinal" /\ Goto("report")
    /\ \/ UNCHANGED status
       \/ status' = "EVIDENCE_WRITE"
    /\ UNCHANGED <<channelVars, runVars, passed, reportWritten, audit, capturing, hostUp,
                   stopAsked, episodes>>

(* _soak_threshold_checks: a metric that is not available fails its check; *)
(* the CPU load needs two resource samples.                                *)
ThresholdsPassed ==
    /\ ~exceeded /\ resources >= 2
    /\ \A s \in 1..NScenarios : successes[s] >= MinSamples /\ successes[s] > 0

Report ==
    /\ pc = "report" /\ Goto("returned")
    /\ LET final == IF status = "COMPLETED" /\ ~ThresholdsPassed
                    THEN "COMPLETED_FAILED_THRESHOLDS" ELSE status
       IN \/ /\ reportWritten' = TRUE /\ status' = final
             /\ passed' = (/\ final = "COMPLETED" /\ ~failed /\ ~droppedSeen
                           /\ reconnects <= AllowedReconnects)
          \/ reportWritten' = FALSE /\ status' = "EVIDENCE_WRITE" /\ passed' = FALSE
    /\ UNCHANGED <<channelVars, runVars, audit, capturing, hostUp, stopAsked, episodes>>

----------------------------------------------------------------------------
(* A run that has returned stays so.                                       *)
Returned == pc = "returned" /\ UNCHANGED vars

Runner ==
    \/ RpcFails \/ TakeBatch \/ BaseStatus \/ Warmup \/ Checkpoint \/ LoopHead \/ Snapshot
    \/ Sample \/ Iterate \/ FinalStatus \/ FinalDrain \/ Decide \/ Cleanup
    \/ CheckpointFinal \/ Report

Next == Channel \/ HostExit \/ StopRequested \/ Interrupt \/ Runner \/ Returned

Spec == Init /\ [][Next]_vars

(* Every request and every scenario has a timeout, so the runner's thread  *)
(* keeps taking steps.  Neither the channel nor the operator has to act.   *)
FairSpec == Spec /\ WF_vars(Runner)

----------------------------------------------------------------------------
(* A report that says passed is backed by what really happened: at the end *)
(* of the last drain of the event queue no more connections had been lost  *)
(* since the baseline than the profile allows, no event had been dropped,  *)
(* the host was running and nobody had asked to stop; the report is on     *)
(* disk and no capture is left active (docs/PERFORMANCE_AND_SOAK_GUIDE.md, *)
(* lines 277 to 280).                                                      *)
PassedIsEarned ==
    passed => /\ audit.episodes <= AllowedReconnects /\ ~audit.dropped
              /\ audit.host /\ ~audit.stop /\ goal = "final"
              /\ reportWritten /\ ~capturing

(* Short disconnections between two snapshots are not missed: after every  *)
(* complete drain the counter is at least the number of connections really *)
(* lost since the baseline, unless the queue has overflowed.               *)
NoEpisodeMissed == ~audit.dropped => reconnects >= audit.episodes

(* The counter is above the limit only when more connections were really   *)
(* lost than the profile allows: the reading of                            *)
(* INCOMPLETE_CONNECTION_LIMIT in docs/PERFORMANCE_AND_SOAK_GUIDE.md, line *)
(* 291.                                                                    *)
CountedOnce == reconnects > AllowedReconnects => episodes > AllowedReconnects

(* A stop request ends the run, whatever the channel and the host do.      *)
StopEnds == stopAsked ~> (pc = "returned")
=============================================================================
