---------------------------- MODULE EventBenchmark ----------------------------
(***************************************************************************)
(* local_benchmark.py: which event loads are accepted, and                 *)
(* run_local_event_benchmark, which has the local outstation emit numbered *)
(* events, captures them in the host and drains the host's queue of        *)
(* unsolicited events (UnsolicitedStore of OpenDnp3UnsolicitedSupport.cpp) *)
(* after every iteration.                                                  *)
(*                                                                         *)
(* The outstation sends its events in fragments and sends a fragment again *)
(* when its confirmation is lost; an event of somebody else may be among   *)
(* them.  OpenDNP3's thread records them one by one while the runner's     *)
(* requests take batches.  An event is what the digest of a capture sees   *)
(* of it: its index and its value (a binary load).  Numbers keep the order *)
(* of the code's limits at a smaller size.  Latency and CPU limits hold or *)
(* not.                                                                    *)
(***************************************************************************)
EXTENDS Integers, Sequences, FiniteSetsExt

CONSTANTS
    Loads,           \* candidate loads
    SequenceLimit,   \* 2^63
    TimeLimit,       \* 2^48
    EmissionLimit,   \* 55 s: the longest stream of one request
    PointCount,      \* points of the outstation
    BufferCapacity,  \* its event buffer
    StoreCapacity,   \* _UNSOLICITED_QUEUE_CAPACITY
    BatchLimit,      \* max_events of one wait_unsolicited
    MaxFragment,     \* bound: events in a fragment
    MaxFaults        \* bound: fragments repeated and foreign events

(* The capacities, and what LocalEventLoad guarantees of the single fields. *)
ASSUME LoadAssumption ==
    /\ SequenceLimit \in Nat /\ TimeLimit \in Nat
    /\ {BufferCapacity, StoreCapacity, BatchLimit} \subseteq Nat \ {0}
    /\ MaxFragment \in Nat /\ MaxFaults \in Nat
    /\ \A l \in Loads :
          /\ l.count \in Nat /\ l.iterations \in Nat /\ l.interval \in Nat
          /\ l.seed \in Nat /\ l.start \in Nat /\ l.base \in Nat /\ l.span \in Nat \ {0}

VARIABLES
    load,        \* the load of this run
    bmPc,        \* where the runner is
    bmGoal,      \* what the drain in progress is for
    iteration, batches, drainedNow,
    totals,      \* drained and received events, iterations completed
    bmFailure,   \* "none" or the first failure
    bmPassed,
    outbox,      \* events the outstation has not had confirmed
    fragment,    \* events of the fragment that OpenDNP3 is delivering
    inFragment,  \* current_unsolicited_
    store,       \* events_
    dropped,     \* dropped_total_
    capture,     \* the host's capture: active, received events, overflow
    terminal,    \* the result of end_capture, if any
    recorded,    \* history: every event recorded in the store
    audited,     \* history: recorded, when the last drain was complete
    faults

runnerVars == <<bmPc, bmGoal, iteration, batches, drainedNow, totals, bmFailure, bmPassed, terminal>>
storeVars == <<store, dropped, capture, recorded>>
wireVars == <<outbox, fragment, inFragment, faults>>
benchmarkVars == <<load, runnerVars, storeVars, wireVars, audited>>

Events == {<<0, 0>>, <<0, 1>>}   \* what a foreign event may look like
Idle == [active |-> FALSE, got |-> <<>>, overflow |-> FALSE]
NoResult == [ended |-> FALSE, got |-> <<>>, overflow |-> FALSE]

----------------------------------------------------------------------------
(* The limits of a load, of the profile it belongs to, and of one request. *)

Total(l) == l.count * l.iterations
Emission(l) == l.count * l.interval

(* Defect: only the first iteration is kept within the limits.             *)
LoadAccepted_FirstOnly(l) ==
    /\ l.count >= 1 /\ l.iterations >= 1 /\ l.count <= StoreCapacity
    /\ l.start <= SequenceLimit - l.count /\ l.base <= TimeLimit - l.count
    /\ Emission(l) <= EmissionLimit /\ l.duration > Emission(l) /\ l.patience > Emission(l)

(* LocalEventLoad.__post_init__                                            *)
LoadAccepted(l) ==
    /\ l.count >= 1 /\ l.iterations >= 1 /\ l.count <= StoreCapacity
    /\ l.start <= SequenceLimit - Total(l) /\ l.base <= TimeLimit - Total(l)
    /\ Emission(l) <= EmissionLimit /\ l.duration > Emission(l) /\ l.patience > Emission(l)

(* LocalEventProfile.__post_init__                                         *)
ProfileAccepted(l) == l.span <= PointCount /\ l.count <= BufferCapacity

(* plan_events, for one iteration.                                         *)
PlanAccepted(l, start, base) ==
    /\ start >= 0 /\ start <= SequenceLimit - l.count
    /\ base >= 0 /\ base <= TimeLimit - 1 - (l.count - 1)
    /\ l.span >= 1 /\ l.span <= PointCount
    /\ l.interval # 0 => Emission(l) <= EmissionLimit

(* The event with a sequence number, for a binary point.                   *)
Event(number) == <<(load.seed + number) % load.span, (load.seed + number) % 2>>

(* The events of iteration n, and of all iterations.                       *)
Truth(n) == [k \in 1..load.count |-> Event(load.start + n * load.count + k - 1)]
WholeTruth == [k \in 1..Total(load) |-> Event(load.start + k - 1)]

BenchmarkStart ==
    /\ bmPc = "check" /\ bmGoal = "initial" /\ iteration = 0 /\ batches = 0 /\ drainedNow = 0
    /\ totals = [drained |-> 0, received |-> 0, completed |-> 0]
    /\ bmFailure = "none" /\ bmPassed = FALSE /\ terminal = NoResult
    /\ outbox = <<>> /\ fragment = <<>> /\ inFragment = FALSE /\ faults = 0
    /\ store \in {<<>>, <<<<0, 0>>>>} /\ dropped = 0 /\ capture = Idle
    /\ recorded = store /\ audited = <<>>

BenchmarkInit == load \in {l \in Loads : LoadAccepted(l) /\ ProfileAccepted(l)} /\ BenchmarkStart

----------------------------------------------------------------------------
(* The outstation's events and OpenDNP3's callbacks.                       *)

(* The outstation's event buffer drops its oldest event when it is full.   *)
Buffered(events) ==
    IF Len(events) <= BufferCapacity THEN events
    ELSE SubSeq(events, Len(events) - BufferCapacity + 1, Len(events))

(* Somebody else changes a point of the outstation.                        *)
ForeignEvent ==
    /\ bmPc # "done" /\ faults < MaxFaults /\ faults' = faults + 1
    /\ \E event \in Events : outbox' = Buffered(Append(outbox, event))
    /\ UNCHANGED <<load, runnerVars, storeVars, fragment, inFragment, audited>>

(* begin_fragment: the outstation forgets the events once confirmed.       *)
BeginFragment ==
    /\ bmPc # "done" /\ ~inFragment /\ outbox # <<>>
    /\ \E n \in 1..Min({MaxFragment, Len(outbox)}), confirmed \in BOOLEAN :
          /\ confirmed \/ faults < MaxFaults
          /\ fragment' = SubSeq(outbox, 1, n) /\ inFragment' = TRUE
          /\ outbox' = IF confirmed THEN SubSeq(outbox, n + 1, Len(outbox)) ELSE outbox
          /\ faults' = IF confirmed THEN faults ELSE faults + 1
    /\ UNCHANGED <<load, runnerVars, storeVars, audited>>

(* record: into the capture first, then into the store, oldest dropped.    *)
RecordEvent ==
    /\ bmPc # "done" /\ inFragment /\ fragment # <<>>
    /\ fragment' = Tail(fragment)
    /\ capture' \in
          IF ~capture.active THEN {capture}
          ELSE {[capture EXCEPT !.got = Append(@, Head(fragment))],
                [capture EXCEPT !.overflow = TRUE]}
    /\ store' = Append(IF Len(store) = StoreCapacity THEN Tail(store) ELSE store, Head(fragment))
    /\ dropped' = IF Len(store) = StoreCapacity THEN dropped + 1 ELSE dropped
    /\ recorded' = Append(recorded, Head(fragment))
    /\ UNCHANGED <<load, runnerVars, outbox, inFragment, faults, audited>>

EndFragment ==
    /\ bmPc # "done" /\ inFragment /\ fragment = <<>> /\ inFragment' = FALSE
    /\ UNCHANGED <<load, runnerVars, storeVars, outbox, fragment, faults, audited>>

----------------------------------------------------------------------------
(* The runner.                                                             *)

Goto(step) == bmPc' = step /\ UNCHANGED <<bmGoal, batches, drainedNow>>
Drain(for) == bmPc' = "drain" /\ bmGoal' = for /\ batches' = 0 /\ drainedNow' = 0

(* An exception of the loop goes to the final drain, one of the final      *)
(* drain is the failure when there was none.                               *)
Fails(why) ==
    /\ bmFailure' = IF bmFailure = "none" THEN why ELSE bmFailure
    /\ IF bmGoal = "final" THEN Goto("report") ELSE Drain("final")

(* The checks before the run: types, and unsolicited enabled for the class *)
(* of the points.                                                          *)
Check ==
    /\ bmPc = "check"
    /\ \/ Drain("initial") /\ UNCHANGED <<bmFailure, bmPassed>>
       \/ Goto("done") /\ bmFailure' = "refused" /\ UNCHANGED bmPassed
    /\ UNCHANGED <<load, iteration, totals, terminal, storeVars, wireVars, audited>>

(* Any request, or the resource sampler, may fail; when the loop fails     *)
(* with the host there is no final drain.                                  *)
RequestFails ==
    /\ bmPc \in {"drain", "begin"}
    /\ \/ Fails("request")
       \/ bmGoal # "final" /\ bmFailure' = "host" /\ Goto("report")
    /\ UNCHANGED <<load, iteration, totals, bmPassed, terminal, storeVars, wireVars, audited>>

(* The host is gone when the loop is over: the final drain is left out,    *)
(* and that is no failure.                                                 *)
FinalDrainSkipped ==
    /\ bmPc = "drain" /\ bmGoal = "final" /\ batches = 0 /\ drainedNow = 0
    /\ Goto("report")
    /\ UNCHANGED <<load, iteration, totals, bmFailure, bmPassed, terminal, storeVars, wireVars,
                   audited>>

(* Defect: an empty batch is taken for an empty queue.                     *)
DrainComplete_OnEmpty(taken, remaining) == taken = 0
DrainComplete(taken, remaining) == remaining = 0

MaxBatches == StoreCapacity \div BatchLimit + 1

(* What the runner does with a complete drain.                             *)
Drained(n, all) ==
    CASE bmGoal = "initial" ->
           /\ IF n # 0 \/ dropped # 0 THEN Fails("notEmpty")
                                      ELSE Goto("plan") /\ UNCHANGED bmFailure
           /\ UNCHANGED totals
      [] bmGoal = "iteration" ->
           /\ totals' = [totals EXCEPT !.drained = all]
           /\ IF dropped # 0 \/ n # load.count THEN Fails("queueTruth")
                                               ELSE Goto("accept") /\ UNCHANGED bmFailure
      [] bmGoal = "final" ->
           totals' = [totals EXCEPT !.drained = all] /\ Goto("report") /\ UNCHANGED bmFailure

(* _drain_unsolicited_queue over take: nothing is taken from a fragment    *)
(* that is being delivered, but its events count as remaining.             *)
TakeUnsolicited ==
    /\ bmPc = "drain"
    /\ LET taken == IF inFragment THEN 0 ELSE Min({BatchLimit, Len(store)})
           remaining == Len(store) - taken
           n == drainedNow + taken
       IN /\ store' = SubSeq(store, taken + 1, Len(store))
          /\ \/ /\ DrainComplete(taken, remaining)
                /\ Drained(n, totals.drained + n) /\ audited' = recorded
             \/ /\ ~DrainComplete(taken, remaining) /\ batches + 1 < MaxBatches
                /\ batches' = batches + 1 /\ drainedNow' = n
                /\ UNCHANGED <<bmPc, bmGoal, totals, bmFailure, audited>>
             \/ /\ ~DrainComplete(taken, remaining) /\ batches + 1 = MaxBatches
                /\ Fails("notDrained") /\ UNCHANGED <<totals, audited>>
    /\ UNCHANGED <<load, iteration, bmPassed, terminal, dropped, capture, recorded, wireVars>>

Plan ==
    /\ bmPc = "plan"
    /\ IF PlanAccepted(load, load.start + iteration * load.count, load.base + iteration * load.count)
       THEN Goto("begin") /\ UNCHANGED bmFailure ELSE Fails("plan")
    /\ UNCHANGED <<load, iteration, totals, bmPassed, terminal, storeVars, wireVars, audited>>

BeginCapture ==
    /\ bmPc = "begin" /\ Goto("generate")
    /\ capture' = [Idle EXCEPT !.active = TRUE] /\ terminal' = NoResult
    /\ UNCHANGED <<load, iteration, totals, bmFailure, bmPassed, store, dropped, recorded, wireVars,
                   audited>>

(* generate_events: the events enter the outstation's buffer; the answer   *)
(* may be lost.                                                            *)
Generate ==
    /\ bmPc = "generate" /\ outbox' = Buffered(outbox \o Truth(iteration))
    /\ \/ Goto("progress") \/ Goto("finally")
    /\ UNCHANGED <<load, iteration, totals, bmFailure, bmPassed, terminal, storeVars, fragment,
                   inFragment, faults, audited>>

(* capture_progress until enough was received or the deadline has passed.  *)
Progress ==
    /\ bmPc = "progress" /\ (Goto("end") \/ Goto("finally"))
    /\ UNCHANGED <<load, iteration, totals, bmFailure, bmPassed, terminal, storeVars, wireVars, audited>>

(* end_capture; when it fails, the finally clause tries again.             *)
EndCapture ==
    /\ bmPc = "end"
    /\ \/ /\ terminal' = [ended |-> TRUE, got |-> capture.got, overflow |-> capture.overflow]
          /\ capture' = Idle /\ Drain("iteration")
       \/ Goto("finally") /\ UNCHANGED <<capture, terminal>>
    /\ UNCHANGED <<load, iteration, totals, bmFailure, bmPassed, store, dropped, recorded, wireVars,
                   audited>>

(* The finally clause on the way of an exception.                          *)
Finally ==
    /\ bmPc = "finally" /\ capture' \in {Idle, capture} /\ Fails("iteration")
    /\ UNCHANGED <<load, iteration, totals, bmPassed, terminal, store, dropped, recorded, wireVars,
                   audited>>

(* The checks of an iteration's terminal result.                           *)
Accept ==
    /\ bmPc = "accept"
    /\ IF terminal.overflow \/ terminal.got # Truth(iteration)
       THEN /\ Fails("captureTruth") /\ UNCHANGED iteration
            /\ totals' = [totals EXCEPT !.received = @ + Len(terminal.got)]
       ELSE /\ iteration' = iteration + 1 /\ UNCHANGED bmFailure
            /\ totals' = [totals EXCEPT !.received = @ + Len(terminal.got), !.completed = @ + 1]
            /\ IF iteration + 1 = load.iterations THEN Drain("final") ELSE Goto("plan")
    /\ UNCHANGED <<load, bmPassed, terminal, storeVars, wireVars, audited>>

(* The verdict; the latency and CPU checks hold or not.                    *)
BenchmarkReport ==
    /\ bmPc = "report" /\ Goto("done")
    /\ \E withinLimits \in BOOLEAN :
          bmPassed' = (/\ bmFailure = "none" /\ totals.completed = load.iterations
                       /\ totals.received = Total(load) /\ totals.drained = Total(load)
                       /\ dropped = 0 /\ withinLimits)
    /\ UNCHANGED <<load, iteration, totals, bmFailure, terminal, storeVars, wireVars, audited>>

BenchmarkNext ==
    \/ ForeignEvent \/ BeginFragment \/ RecordEvent \/ EndFragment
    \/ Check \/ RequestFails \/ FinalDrainSkipped \/ TakeUnsolicited \/ Plan \/ BeginCapture \/ Generate \/ Progress
    \/ EndCapture \/ Finally \/ Accept \/ BenchmarkReport

BenchmarkSpec == BenchmarkInit /\ [][BenchmarkNext]_benchmarkVars

----------------------------------------------------------------------------
(* A benchmark that passed: when its last drain was complete, the master   *)
(* had recorded the events of the plan, each once and in order, over all   *)
(* iterations, and nothing else, as far as index and value tell; no        *)
(* repeated fragment, no fragment still under way, no event of somebody    *)
(* else and no overflow hides behind equal counts                          *)
(* (run_local_event_benchmark).                                            *)
BenchmarkIsEarned == bmPassed => audited = WholeTruth

(* A load and a profile that were accepted are never refused by            *)
(* plan_events in some later iteration: the limits of the whole run agree  *)
(* with those of each request (LocalEventLoad.__post_init__).              *)
AcceptedIsPlanned == bmFailure # "plan"
=============================================================================
