# A TLA+ verification of the EMS DNP3 master

The repository is a DNP3 *master* for testing energy-management systems.  A
pytest suite drives a Python client, the client drives a native host process over
NDJSON on stdin/stdout, and the host drives OpenDNP3, which talks to the
outstation under test (the *DUT*).  A wrong control on a live outstation opens a
breaker, and a measurement that was lost silently makes a test lie, so two
promises carry the program:

1. **Control safety.**  When the effect of a state-changing command is not known,
   that DUT is locked until a person has read it back, across processes and
   crashes, and no further control is sent blindly.
2. **Evidence integrity.**  What a capture, a trace, a soak run, a performance suite
   or a pytest session reports as complete or passed is so; what was lost is counted.

The modules here model the code that keeps these promises.

## 1. Inventory

| Component | Source | State | Operations | What is hard | What makes it correct |
|---|---|---|---|---|---|
| Safety incident store | `python/src/dnp3_master/safety_incidents.py` | `active/<dut>.json`, `archive/<id>.json`, shared by all processes, no lock | `get_active`, `assert_clear`, `record_uncertain`, `acknowledge` | every call is several system calls; other processes interleave, the process may die, the OS may refuse | a returned lock is not lost; only its own acknowledgment removes it; evidence is written once; an interrupted acknowledgment can be completed |
| Python client | `client.py` | `_state`, `_safety_token`, `_simulator_mode`, `_request_write_started`, the host process, four I/O threads | `start`, `connect`, `disconnect`, `close`, reads, captures, traces, `select_and_operate`, `direct_operate` | deadlines racing answers, host exit, Ctrl+C at any point of a control | a control of unknown effect leaves a lock (or an alarm) and no live session; every call returns |
| Host loop and controller | `native/src/main.cpp`, `HostController.cpp` | window of recent request ids, counters, shutdown flag | read a line, dispatch, answer | an exception after the work was submitted | one answer per request; the answer is not surer than the work |
| OpenDNP3 backend | `OpenDnp3Backend.cpp` | session, channel, master, channel event store | `connect`, `disconnect`, `shutdown`, tasks | callbacks of an old session, cleanup errors | events of one session are not taken for another's |
| Command task | `OpenDnp3CommandSupport.cpp` | `active` operation: started, callback, completion, points, cancelled, done | execute, five callbacks, wait, outcome, cancel | the callbacks come in any order, late or never, against the wait's deadline | an answer without the uncertainty flags is true and stays true; commands do not overlap |
| Read task | `OpenDnp3ReadSupport.cpp` | like the command task, plus collected measurements | scans | the same, without side effects | results belong to the request |
| Unsolicited | `OpenDnp3UnsolicitedSupport.cpp` | bounded event queue, the fragment being delivered | enable, disable, wait, stop | overflow; a drain in the middle of a fragment | drops are counted, order is kept |
| Measurement capture | `MeasurementCapture.cpp`, `models.py` | bounded queue, counters, ranges, digest, state | begin, progress, end, abort, record, worker | three threads, one condition variable with two predicates, a wait that gives up the mutex, overflow | a valid capture is complete; nothing is lost uncounted; the client accepts every result |
| Protocol trace | `ProtocolTrace.cpp`, `trace.py` | ring of records, 64-bit counters; the client's decoder | start, log, read, stop | overwriting while reading, saturation | the ring is a drop-oldest queue; "complete" is earned |
| Line protocol, request parsers | `JsonLineProtocol.cpp`, `*Config.cpp` | none | parse and validate | string handling | outside of these models |
| Soak runner | `soak.py` | counters of the run, observed channel state; a directory of chained checkpoints | `run_soak`: audit, warm up, loop, decide, report | the channel, the host and the operator act between any two requests; the process may die or be interrupted while it rotates checkpoints | a pass is earned; no lost connection is missed; a stop ends the run; the directory verifies at every moment |
| Performance suite | `performance.py` | profile, samples, the host's one capture | validate a profile, run an iteration, judge, compare | lost replies leave a capture behind; timeouts add up | an accepted iteration read exactly the expected points; the watchdog allows what the timeouts allow; a pass is earned |
| Event benchmark | `local_benchmark.py` | totals, the host's event queue, one capture | drain, plan, generate, wait, judge | fragments repeated or half delivered while the queue is drained; 63- and 48-bit limits | a pass means the planned events, once each and in order |
| Local outstation | `local_outstation.py` | child process, line queue, request counter | `start`, `request`, `generate_events`, `close` | late lines of an earlier process, a full queue, Ctrl+C in a request | an accepted answer is this process's answer to this request |
| Pytest plugin, evidence recorder | `pytest_plugin.py`, `evidence.py` | gates, one shared or one owned client, recorded phases, two JSON files | configure, collect, fixtures, report, finalize | a test whose teardown failed precedes another; Ctrl+C, `--maxfail`, xdist; pytest is killed | control sessions are earned; nothing is left running; a COMPLETED manifest says what ran |
| Test plan, point table, preflight | `ems_test_plan.py`, `ems_profile.py`, `point_table.py`, `preflight.py`, `examples/pytest_ems` | documents; scenarios attempted | load, preflight, run a control scenario | rules across documents; tolerances; reruns | a pass means that the device moved; what is sent was approved; ready means that every test runs |
| Simulator suite, reporting, tools, packaging | the rest of `python/src/dnp3_master`, `scripts` | files | sequential I/O | little | not modelled |

**Interactions.**  A control passes, in this order, the incident store
(`assert_clear`), the client's request lock, the stdin pump, the host's loop,
`command_access`, `Impl::execute`, OpenDNP3, and back.  The client has one request
in flight, the host one RPC thread; the concurrency is between that thread and
OpenDNP3's threads, the capture's worker, the client's deadline and Ctrl+C, and
between Python processes that share the incident directory.  `PROJECT.json`
lists the hazards by line with the properties that cover them.

## 2. Modules

```
TraceQueue <--refines-- ProtocolTrace          MeasurementCapture <-- MCMeasurementCapture
CommandSupport <--EXTENDS-- ControlPath <-- MCControl
                                 : refines
                            IncidentLock <--refines-- SafetyIncidentStore <-- MCSafetyIncidentStore

ChannelEvents <--EXTENDS-- SoakRun             PytestSession <-- MCPytestSession --+
                                               EmsPlan <------- MCEmsPlan ---------+-- MCPytest
PerformanceSuite <-- MCPerformanceSuite --+
SoakEvidence, EventBenchmark,             +-- MCTools
LocalOutstation --------------------------+
```

| Proof module | About |
|---|---|
| `SafetyIncidentStore_proofs` | `SafetyIncidentStore`, its refinement of `IncidentLock` |
| `ControlPath_proofs` | `CommandSupport`, `ControlPath`, its refinement of `IncidentLock` |
| `MeasurementCapture_proofs` | `MeasurementCapture` |
| `ProtocolTrace_proofs` | `ProtocolTrace`, its refinement of `TraceQueue` |
| `Soak_proofs` | `SoakRun` with `ChannelEvents`, `SoakEvidence` |
| `Pytest_proofs` | `EmsPlan`, `PytestSession` |
| `LocalOutstation_proofs` | `LocalOutstation` |
| `Tools_proofs` | `PerformanceSuite`, `EventBenchmark` |

`MCPytest` and `MCTools` put several independent components into one run: an extra
variable says which of them takes the steps of a behaviour, and the others stay in
one fixed initial state.  The components share no state in the code either, so
this checks each of them on its own, as separate runs would.

Definitions that begin with the comment *Defect* are variants of the definition
below them with a plausible bug (a dropped guard, a missing reset).  No
specification uses them; each was substituted for its original to see that TLC
then finds the property violated that is said to guard against it.

### IncidentLock

The promise between the two sides of control safety, without files and processes:
which DUTs are `locked`, about which there is `doubt` (somebody was told of an
incident that is not settled), and for which the promise was revoked by an error
(`alarmed`).  A doubt is only reported under a lock (`Report`); an acknowledgment
takes lock and doubt in one step (`Acknowledge`); a lock nobody relies on may go
(`Withdraw`); what cannot be kept is said (`Raise`).  It is abstract and has no lines
of its own: `Store` in `SafetyIncidentStore` and `Client` in `ControlPath_proofs` are
the refinement mappings.

### SafetyIncidentStore

`active` and `archive` map a DUT and an incident identity to what the path
holds: nothing, a file whose creator has not written it yet, or a complete
document.  Each process has a program counter over the system calls of
`_write_exclusive`, `_replace_document` and `acknowledge`.  Reading a document and
deciding on it is one step (`RecordRead`, `RecordReread`, `AckRead`, `AckLookup`,
`ArchiveCompare`); each `open`, `write`, `fsync`, `rename` and `unlink` is another.
`RecordFail` and `AckFail` let a system call in `Faults` fail, with the clean-up
the code performs (`unlink` of the path, which itself may fail).  `Crash` kills a
process between any two steps.  `write` is atomic: a torn file is represented by
one that exists and is not readable, which is what `_read_document` tells apart.
Documents keep their identity, DUT, status and acknowledgment.

`returned` (incidents some caller was told about) and `cleaned` (DUTs whose path
was removed by a failed write although it held somebody else's file) are history
variables: the second names the one path by which the code itself gives a lock
away, always together with `SafetyIncidentPersistenceError`.

`Store` reads the state as an `IncidentLock`: a DUT is locked when its active path
exists, readable or not (`assert_clear` refuses both); it is in doubt while a returned
incident of it is not `Settled`, that is archived and no longer at the active path;
`cleaned` are the alarmed ones.

### CommandSupport

`op` is `CommandOperation`, `active` is `Impl::active`, `rpc` the thread in
`execute`.  `task` is OpenDNP3's task, with the callbacks in the order the vendored
`IMasterTask` makes them: `OnStart` if it runs, `OnComplete` and then the result
callback when it ends (so the completion is known before the points are), and
`OnDestroyed`; a task of a scheduler that shuts down is only destroyed.  The
callbacks are those of another thread and come at any time relative to `execute`.
Point results are abstracted to what `outcome()` distinguishes: clean, a status
that requires a manual readback, unmatched, missing.  The wait and `is_done()`
take the operation's mutex separately, so a callback may come between `Answer` and
`ClearIfActive`.  `transmitted` and `answered` record what really happened on the
wire, against which answers are judged.

### ControlPath

The Python side on top of `CommandSupport`: client state, token, mode, the host
process, the running control call (`pc`), the lock, and `written`
(`_request_write_started`).  `ExchangeFails` is the deadline, the exit or the
malformed answer: as in `_exchange` it destroys the host *before* the handler
runs.  `Interrupt` is Ctrl+C in each of the places the handlers distinguish.
`HostThrows` is the catch-all of `main.cpp`: an exception before the submission is
always possible, one after it only with `HostMayThrow`.  The lock is one bit, recorded and
removed atomically: the client's view of an `IncidentLock` with one DUT, in which an
unresolved control is the doubt and `alarm` the error.

One client with one calling thread is modelled: the documentation does not
support concurrent tasks on one client.  `MCControl` adds behaviours in which any
client at all drives the host, so that what `CommandSupport` promises by itself is
checked too: in the composition the Python client would have destroyed the host
before a second command could meet the first.

### MeasurementCapture

All of `MeasurementCapture::Impl`: every public operation under its mutex is one
action, `end()` is split where it waits (`End`, then `EndDrained` or
`EndTimesOut`), and the worker is split at its waits (`WorkerWaits`,
`WorkerWakes`), with `woken` for the condition variable.  `expire_locked` heads
every operation, as `State1`, `Reasons1`, `Notified1`.  The SHA-256 of a sequence
is modelled as the sequence.  `Faults` lets allocation, enqueueing, processing
and the digest throw.  `TruthComplete` is the client's side
(`CaptureResult.from_mapping`).

An exception in `record_object` releases the mutex before its catch block takes it
again to count the failure: `EnqueueThrows` and `EnqueueCounted`, with `catching` in
between.  `end`, `abort`, a new `begin` and the worker may come there.  So the code can
report a capture as valid that has just lost an object, and count the failure in the
next capture (`strays`); the properties name that object (`Uncounted`) and say that
nothing else is lost.  The innermost `catch (...)`, for an exception while the failure
is being counted, is left out.

### TraceQueue and ProtocolTrace

`TraceQueue` is the promise: a queue that drops its oldest record when full and
numbers records until the numbers run out.  `ProtocolTrace` is the code: slots,
head, count, modulus, counters, plus the client's checks of a reply
(`_validate_trace_counters`, `TraceDecoder.decode_batch` at the level of records).
`MaxSequence` plays the role of 2^64-1, so saturation is reached; it is at least one,
since with no number at all an empty trace would be called complete.

### ChannelEvents and SoakRun

`ChannelEvents` is the `ChannelEventStore` of the backend: the state the listener
last reported and the bounded queue of events.  `SoakRun` is `run_soak`, one step
per request, with `pc` for the place in the function and `goal` for the reason of
the drain in progress.  The tests at the head of the loop, after the snapshot and
at the end stand in the order of the code, and every request, iteration and
checkpoint may fail.  What time decides (a sample is due, the target is reached,
the watchdog has fired) is a choice.  `episodes` counts the connections really
lost since the baseline; `audit` remembers what was true when a drain ended,
which is the last moment the code can know of.

### SoakEvidence

The evidence directory, one step per system call that changes it and per assignment
of the writer.  `disk` holds the checkpoint files with their own and their
predecessor's digest, `anchor` is `checkpoint-anchor.json`, `temp` the bytes of the
temporary file of `_atomic_write`; `window`, `total`, `previous` and `sequence` are the
bookkeeping, each updated in a step of its own after the file it describes.  A digest
is the number of the write that produced it.  Each call may fail, in the body of the
run or in the last checkpoint; the process may die between any two steps, which
leaves the temporary file; and a `KeyboardInterrupt` may come between any two
(`EvidenceInterrupted`): in the body `run_soak` catches it and goes on to the last
checkpoint with whatever bookkeeping it has, later it ends the function.

Two history variables name what an interrupt may cost.  `torn` is the checkpoint after
which it fell between `previous_sha256` (`soak.py:406`) and `checkpoint_sequence`
(`soak.py:529`): the last checkpoint then replaces the file whose digest it holds as its
predecessor's, and that link does not verify.  `missed` are bytes that came or went
while `total_bytes` did not follow.  The clean-up of the temporary file is taken to
succeed in a living process, and anchor, report and preflight file have one size.

### PerformanceSuite

`ValidProfile` has the rules across the fields of a profile, `Begin`, `Read`, `End`
and `Judge` are one iteration, `Close` and `Compare` the reports.  A read delivers
each point zero, one or two times.  A capture has one of the three modes of the
schema; only `static_set` is compared with the ranges of the scenario, at load and
after an iteration, as in the code.  An `event_sequence` or `observation` capture is
held to its own verdict and to the population of the read.  The requests consume no time or their whole
timeout, so that `elapsed` reaches the largest sum.

### EventBenchmark

The limits of a load, and the run.  The outstation keeps its events until a
fragment is confirmed, OpenDNP3's thread records the events of a fragment one by
one, and `TakeUnsolicited` takes nothing while a fragment is being delivered, as
`take` does.  An event is what a binary load makes of its sequence number.  When the
host is gone before the last drain, the code skips it without a failure of its own
(`FinalDrainSkipped`).

### LocalOutstation

The object, its reader thread and the process.  The line queue and the counter
outlive the process; each line carries the number of the process that wrote it,
which the code cannot see and the property can.  Taking a line from the queue
(`TakeLine`) and accepting it (`CheckReady`, `ReceiveResult`, `ReceiveError`,
`ReceiveOther`) are steps of their own.  No handler of the class catches a
`KeyboardInterrupt`, which may end the call at each of them and keeps the process: an
answer still in the queue then makes the next request fail, but one already taken is
gone, and with it the truth of the burst it reported (`truth.lost`).

### PytestSession

One session of pytest: `Configure` with each reason to refuse, `Collect` with the
gate of each test, the phases of each test with the teardown of `connected_master`
split at its requests, and the two writes of `finalize`.  `c` is the configuration
(files are absent, bad or good), `items` the collected tests.  The test's body does
anything the fixture can tell apart.  `Killed` may come at any point.

A session may end before its last test and still complete its evidence, since
`pytest_sessionfinish` runs after Ctrl+C, after `--maxfail` (or `-x`) and in each
process of pytest-xdist: `stop` says why it ended, `mine` is the share of the tests
that xdist gave to this process (none in the controller).  COMPLETED thus never
means that every collected test ran; with the exit status beside it in the manifest,
0, it does for the tests of this process.  An interrupted phase has no report.  The
plugin's hook runs before pytest's own, so the fixtures of an interrupted session are
finalized after the manifest was written (`Finalize`).  One Ctrl+C per session is
modelled, outside of `start()` and `close()` (between `start()` and the `try` of
`connected_master`, `pytest_plugin.py:1146` to `1149`, a host would stay behind) and not
during `finalize`, where it leaves the same files as a kill.  `--runxfail` is not
modelled, nor is the exit status of an xdist controller, which sums up its workers'.

### EmsPlan

Point table, plan, PICS and matrix are one document that the loaders accept or
reject by their cross-field rules; `Preflight` gives the verdict; the control
scenario then runs against a device that moves as it likes.  A rerun starts the
test again in the same process.  Expectations are numbers or truth values: a text,
which the loader accepts too, is compared for equality, as a number with tolerance 0
is, and double-bit and octet-string points, whose expectations the loader does not
restrict, are left out.  The capabilities of a scenario include its function codes and
class objects; those of the objects of one point are one name per role.

## 3. Runs

| Run | Instance | Shows |
|---|---|---|
| `incident_sole` | 2 recording processes, 1 that also acknowledges, 1 DUT, 3 identities, 2 readbacks, all five faults | `LockNotLost`, `RetryCanComplete`, `UnlockOnlyByItsAck`, `StoreIsLock` (refinement), `TypeOK` |
| `incident_archive` | 2 acknowledging processes, 2 DUTs, 2 identities, 2 readbacks, faults of replace and unlink | `ArchiveWriteOnce`, `AckArchived` |
| `incident_live` | 1 recorder, 1 acknowledger, 1 DUT, 1 identity | `LockEventuallyReleased` |
| `incident_two_acks` | 1 recorder, 2 acknowledgers, no faults | **violated**: `LockNotLost` |
| `control` | 2 controls, 1 interrupt, a store that may fail; or a host driven by any client | `DoubtIsLocked`, `NoBlindControl`, `CertainAnswersAreTrue`, `NoOverlap`, `ControlReturns` |
| `control_throw` | 1 control, a host that throws after the submission | **violated**: `DoubtIsLocked` |
| `capture` | 2 points, 1 foreign object, a manifest of 2, capacity 2, 3 objects, all faults | `ValidIsComplete`, `Accounting`, `ClientAccepts`, `SealedIsFinal`, `CaptureEnds`, `WorkerStops` |
| `trace` | capacities 1 to 3, numbers up to 5, reads of 1 or 2 | `RingIsQueue` (refinement), `CompleteIsWhole`, `RepliesAccepted` |
| `soak` | 2 scenarios, one captured, 1 warm-up each, 4 channel events, a queue of 2, batches of 1, 1 reconnect and 1 failure allowed | `PassedIsEarned`, `NoEpisodeMissed`, `StopEnds` |
| `soak_once` | 1 scenario, 3 channel events, 1 reconnect allowed | **violated**: `CountedOnce` |
| `pytest` | about 430 configurations with collections of one to three tests, every xdist share, 1 Ctrl+C, `--maxfail`; about 900 EMS documents with up to 2 starts of the control test | `ControlIsEarned`, `NoPoison`, `NothingLeftRunning`, `EvidenceIsWhole`; `PassMeansMoved`, `SentIsApproved`, `ReadyMeansRun` |
| `tools` | 9 scenario lists with 4 watchdogs over 3 points, 3 capture modes; windows of 2 checkpoints, 6 writes; loads around every limit, fragments of 2, 1 fault; 3 starts, 5 requests, 2 interrupts | `AcceptedIsExact`, `WithinWatchdog`, `SuiteIsEarned`; `ChainVerifies`, `BytesBounded`; `BenchmarkIsEarned`, `AcceptedIsPlanned`; `AnswerIsOwn` |

**Why the bounds are enough.**  *Incidents:* a lock can be lost only if a call that
has read one document acts on another; that takes an acknowledging process, the
recorder of the old incident, the recorder of the new one and two identities
(three let a third incident follow).  A fault in a system call affects one path,
so one DUT suffices for losing a lock; two DUTs are used where archives of
different DUTs could collide.  *Controls:* the second control is the one that may
not be sent; a third adds nothing the second does not have, since `BeginControl`
resets what belongs to a call.  One interrupt reaches every handler.  *Capture:* capacity 2 gives a full, a partly
filled and an empty queue; three objects overflow it and give a repeated, a
foreign and a missing point, and a sequence that is too long, too short or
swapped.  *Trace:* with a capacity of 3 and reads of at most 2 the head takes
every residue; five numbers let the ring wrap and then saturate.  *Soak:* four
events are one whole episode (closed, opening, open) and the start of a second,
one more than allowed; a queue of two overflows, batches of one reach the limit of
batches; two scenarios let a capture left behind meet another iteration.
*Evidence:* a window of two rotates at the third write, and six writes rotate past
a retry or an interrupt; the byte limit leaves room for two large files or several
small ones.  A run has no more than two interrupts, the second of which ends it.
*Performance:* one point inside and one outside of the expected set of the same
kind is what counting by kind cannot tell apart.  *Benchmark:* the loads surround
each limit by one, and a second iteration is where a limit of the whole run and
one of a request could differ.  *Outstation:* a line of the first process can meet
the third, and a burst lost to one interrupt can be followed by one that a second
interrupt leaves in the queue.  *Pytest:* three tests let a failed teardown be followed by a test of
another kind; the configurations vary the fields one group at a time, because the
rules look at them in those groups.

**Fairness.**  `incident_live`: a process that is not killed makes its next system
call, the operator repeats the acknowledgment with the persisted data, and does
not fail at the same place forever (strong fairness of the calls of the
acknowledger).  It is an assumption about people and disks; the property then
says that nothing *else* keeps the DUT locked, except an archive file that was
torn by a kill between its creation and its writing: after that every retry
raises.  `control`: weak fairness of the calling thread only.  `ExchangeFails`
is among its steps because `_exchange` waits for a bounded time; nothing is assumed
of the host.  `capture`: the worker is scheduled and time passes.  The condition
variable's timed wait justifies `WorkerWakes` at the deadline.  `soak`: weak fairness
of the runner's thread, since each of its requests has a timeout; neither the
channel nor the host nor the operator has to act.

**Deadlock** is checked in every run except `pytest` and `tools`, whose components
end: a session that is over and a tool that has returned take no further step.

## 4. Where the code and its documentation differ

* `incident_two_acks` — `acknowledge` reads the lock once and then renames and
  unlinks *paths*.  If two processes acknowledge the same incident and one of them
  stalls, it overwrites or removes the lock of a later incident, although the
  runbook says that the lock works across Python processes.  With a single
  acknowledging process the property holds, for every number of recorders; that
  is the theorem `LockIsNotLost`.
* `soak_once` — the guide explains `INCOMPLETE_CONNECTION_LIMIT` as more lost
  connections than allowed.  A drain counts a loss at its CLOSED event; when the
  channel reopens before the status snapshot that follows, the snapshot sets the
  observed state to OPEN while OPENING and OPEN are still queued, and the next drain
  takes that OPENING for another loss (`soak.py:494` and `:587`).  The error is on the
  safe side: `NoEpisodeMissed` holds.
* Read off the code, without a run: the client documentation and the runbook say
  that the lock is persisted before the host is terminated.  On a timeout, an exit
  or a malformed answer `_exchange` terminates it first (`ExchangeFails` does too).
  The lock is still recorded (`control`), unless the Python process is killed in
  between.
* A limit rather than a run: with `MaxInterrupts = 2` TLC violates `DoubtIsLocked`,
  because a second Ctrl+C while the handler of the first one records the incident
  (`client.py:1079`) leaves a sent control without lock or alarm.  `control`
  therefore allows one interrupt; the runbook does not speak of a second.
* `control_throw` — an exception after the submission is answered
  `INTERNAL_ERROR` without the flags by which the client recognises uncertainty.
* Limits that the properties name as exceptions, since the code has them: a capture
  whose result is read between an exception in `record_object` and its catch block
  (`MeasurementCapture.cpp:453`); the checkpoint chain after Ctrl+C between
  `soak.py:406` and `529`; the byte count after Ctrl+C between a system call and
  `soak.py:367` or `398`; the truth of a burst whose reply Ctrl+C took from the caller
  (`local_outstation.py:695`); a COMPLETED manifest of a session that was cut short.

## 5. Proofs

TLAPS checks the proofs for every value of the constants; the runs above check
the same properties on instances.  Every invariant, every action property and both
refinements that a passing run checks are theorems; the assumptions are those a module states of its constants (what the parsers guarantee
of single fields, capacities that are not zero, a preflight file that was written
within the byte limit) and the hypotheses named below.
Where an invariant is stronger than the property it serves, it was checked by TLC
on the instance of the run before it was proved.

**SafetyIncidentStore_proofs.**  `TypeCorrect` needs only the module's assumptions.
`StoreInvariant`, `LockIsNotLost`, `LockRemoval`, `RetryCompletes`,
`StoreImplementsLock` and `StoreProtects` assume `SoleAcknowledger`: at most one process acknowledges (any number record, any system
call may fail, any process may die).  `ArchiveIsWriteOnce` assumes
`ArchiveReliable`: the `open`, `write` and `fsync` of an archive file do not fail
(they clean up by unlinking the path), with any number of acknowledging processes.
`AckIsArchived` needs either of the two.  `incident_two_acks` shows that
`SoleAcknowledger` is needed.  `LockNotLost` is not inductive: to know that an
unlink removes the right lock one must know what the acknowledger has established
on its way.  `StoreInv` therefore says

* `Identities`: a document carries the DUT its identity was issued for, and an
  identity a recorder is about to write is nowhere else;
* `AckHolds`: from the rename on, the incident being acknowledged still locks its
  DUT (only the acknowledger could have removed it), or the path was cleaned;
* `ArchHolds`: a process writing the archive is the writer of that file, and past
  it the archive holds exactly the acknowledger's document;
* `RecHolds`: a recorder about to write owns the incomplete file at the path, and
  one about to sync has its incident there or in the archive.

For `AckArchived`, `ArchiveInv` follows an acknowledgment through the three ways it
can end.  For `RetryCanComplete`, `RetryInv` adds that an incident about to be written
is not archived, locks no DUT and belongs to no other call (`Fresh`), that only issued
identities are archived (`Recorded`), and that the incident being acknowledged is not
archived before the rename while after it the lock holds the acknowledger's very
document (`Persisted`), so that the archive and the lock can only hold the same one.

`StoreImplementsLock` (`StoreIsLock`) is the step simulation: each system call is one
step of the lock of the one DUT it is about, or none (`StoreStep`; `OtherDoubt` says
that the other DUTs are left alone).  It needs no invariant beyond `StoreInv`:
`DoubtIsHeld` turns `LockNotLost` into "whoever is in doubt is locked", `AckHolds` and
`ArchHolds` make the final `unlink` an `Acknowledge` (everything reported of that DUT is
archived by then) and the writing of the archive a stutter
(`ArchiveDoesNotMatter`: an incident that still locks is not settled by it).
`StoreProtects` draws from it what the abstract lock is for: a DUT in doubt is locked.

**ControlPath_proofs.**  Of the host alone: `CommandInvariant`, `CertainAnswers`,
`CommandsDoNotOverlap`, from no assumption.  `CmdInv` adds to the property that an
operation that is done has a task that neither sends nor reports any more
(`OperationEnded`), what a waiting thread may rely on (`WaitKnows`), and that a
certain answer leaves no such task behind either (`AnswerIsFinal`): a late callback
cannot change it, since `complete` and `mark_destroyed` do nothing to a done
operation.  Of client and host together, for any number of controls and sessions:
`ControlTypeCorrect` without a hypothesis; `DoubtLocksTheDut`, `ClientAnswersAreTrue`
and `NoControlIsBlind` assume `~HostMayThrow` (the `control_throw` run shows why) and
at most one interrupt (section 4 says why).  The second hypothesis is part of the
statement where it can be: the properties hold as long as `interrupts <= 1`.
`ControlInv` carries `CmdInv` through the deaths and restarts of the host and adds
what each place of a control call may rely on: nothing was submitted before the
request was written (`HostKnown`), a refusal is a refusal (`AnswerKnown`), and a call
that tears the host down has recorded first (`LockFirst`).

`ClientImplementsLock`, under the same two hypotheses, is the client's half of the
composition: every step of `ControlPath` is a step of `IncidentLock` for its one DUT, or
none.  `ClientTouchesLock` says which steps touch the lock; that a call ends in doubt only
under a lock or after an alarm is `DoubtIsLocked`, and that an interrupted record does not
end a call whose request was written is `HostKnown`.  Store and client thus meet in one
specification: what one relies on is what the other implements, each under the
hypotheses its own theorem names.  The conjunction of the two detailed
specifications is not a module of its own.

**MeasurementCapture_proofs.**  For every capacity, point set, manifest and bound on
the objects.  `NothingLostSilently` (`Accounting`) is inductive once the types are
known; it holds in the window between an exception and its catch block too, where
one object is in no counter.  For `ReportedDigestIsFinal` (`SealedIsFinal`) one must know that a sealed
capture is over and its queue empty (`SealedIsOver`), so that no object can be
accepted or taken; that in turn needs that `end()` never waits for a capture that is
still open (`DrainIsClosed`), although it gives the mutex up.
`ValidEvidenceIsComplete` and `ResultsAreAccepted` rest on `CompleteInv`, which relates
the counters, the digest and the queue to what OpenDNP3 offered.  While no reason
for invalidity is set, the received and the queued objects are together the offered
ones in order (`Ordered`), the digest is the received part (`Digested`), and the bits
and counters of a static set describe it: which points it contains, whether one is
repeated, whether one is foreign (`Ticked`).  While an exception is on its way to its
catch block these speak of all offered objects but that one.  Once finalized, the queue is empty and the
verdict has looked at all of it (`Closed`).

**ProtocolTrace_proofs.**  For every ring size, batch and limit of the numbering.
`RingImplementsQueue` is the step simulation behind `RingIsQueue`: the queue is the
window of `count` slots from `head`, taken modulo the capacity; three lemmas say
what a push, a drop and a read do to such a window.  `CompleteTraceIsWhole` and
`TraceRepliesAreAccepted` come from `TraceInv`: the slots hold consecutive numbers
(`Numbered`), the counters add up (`Counted`) and the client's last reply is a past
state of them (`Reported`).

**Soak_proofs.**  `NoDisconnectionIsMissed` is the hard one.  `NoEpisodeMissed` compares
two counters that are never updated together.  `SoakInv` says (`Covered`) that the
losses counted so far, and the departures from OPEN that a replay of the events not
yet observed would still count, are together no fewer than the connections really
lost; and (`Latest`) that the last event not yet observed is the state of the
channel, so that a snapshot that overtakes the queue only adds departures.
`PassedSoakIsEarned` follows with the place of the final drain.  `EvidenceVerifies`
(`ChainVerifies`): `EvidenceInv` says what the directory is at each statement.  There
is one file of each number (`Single`); the digest the next checkpoint will name is that
of the file before it (`Continued`), until an interrupt tears the link; and as long as a
rotation may still come, the window lists consecutive linked files, of which only the
first may be gone, and then the anchor names it (`Windowed`): an interrupted `unlink`
leaves a window that rotates into a failure, not into a wrong anchor.
`DirectoryIsBounded` (`BytesBounded`) adds `BytesInv`: `total` is the sum of the sizes but for
`Lag` and `missed`, and a write under way has been compared with the limit (`Writing`).
The sum is a fold over a set of files.  What it computes is proved without an
induction rule: it equals the cardinality of the set of the files' single bytes
(`SizeIsBytes`), because a smallest set for which it did not, which exists as strict
inclusion of finite sets is well-founded (`SmallestSet`), would have a first file
whose removal leaves a smaller one.  Sums of unions and of single files then follow
from the library's theorems on cardinality.

**Pytest_proofs.**  Of `EmsPlan`, for any documents, tolerances and device:
`PassedControlMoved`, `SentControlsAreApproved`, `ReadyPlanRuns`.  Of `PytestSession`, for
any configuration and any collection of tests: `ControlSessionsAreEarned`,
`NoTestPoisonsAnother`, `NoHostIsLeft`, `CompletedEvidenceIsWhole`.  `SessionInv` says which
client and which session each phase of a test may find (`Clients`), in which phases a
session that was cut off can be (`Stopped`), and which reports each test before and at
the present one has by then (`Recorded`), so that the results written at the end are
right wherever that end comes.

**LocalOutstation_proofs.**  `OutstationAnswersAreOwn`, for any number of starts,
requests and interrupts and any queue.  `OutstationInv` orders all that is under way:
requests in the child's input, replies in its output, lines in the queue carry
increasing numbers, none above the counter (`InOrder`); a reply to the request being
waited for was written by the present process (`Current`); the line in the caller's
hands precedes all of them (`Held`); and a burst that was executed, but neither returned
nor lost in those hands, still stands in the way of every later answer (`Accounted`).

**Tools_proofs.**  Of `PerformanceSuite`: `AcceptedIterationsAreExact`,
`WatchdogIsPatient`, `PassedSuiteIsEarned`.  `SuiteInv` bounds the time used so far at
each request (`Timed`), says that a capture in the host belongs to the iteration
under way or to one that failed (`Held`), and what the reports hold (`Counted`,
`Compared`).  Of `EventBenchmark`: `PassedBenchmarkIsEarned`, `AcceptedLoadsArePlanned`.
The verdict compares counts and one digest per iteration; that this suffices is
`BenchmarkInv`: as long as nothing was dropped, every recorded event was drained or
is stored (`Tallied`), a capture has either missed an event or has exactly the
events since the last complete drain (`Followed`), and what was drained begins with
the planned events of the completed iterations (`Told`).

**Only model-checked:** liveness (`LockEventuallyReleased`, `ControlReturns`, `CaptureEnds`,
`WorkerStops`, `StopEnds`), which the prover does not support.

## 6. Not modelled

* A second Ctrl+C in a pytest session or a control call; Ctrl+C inside a client's
  `start()` and `close()`.
* Power loss: a file that was synchronised but whose directory entry was not.
* Concurrent use of one client or one local outstation by several threads.
* The read tasks of the host and the results of the read APIs, which change nothing
  on the DUT; the enable and disable tasks of unsolicited responses; the host's
  window of request identities, which the client never needs.
* The life cycle of a session inside the backend (`connect`, `disconnect`, `shutdown`):
  it is one step of the client's models.  `disconnect` joins OpenDNP3's threads
  before it returns, so callbacks of two sessions do not mix.
* `TraceDecoder`'s reassembly of link frames and transport segments.
* Validation of single fields, JSON, hashing, clocks and statistics, which are
  functions without state; `simulator_suite.py` and `self_test.py`, fixed sequences
  of calls; reporting, `package_verify.py`, the command-line tools, build and
  packaging.
* OpenDNP3's protocol stack: only the life of a task, its callbacks, the states of a
  channel (`IOHandler.cpp`), the drop-oldest event buffer (`EventUpdate.h`) and the
  delivery of fragments are modelled.

## 7. Plan

1. Proofs: every safety property of the runs is proved, and client and store refine the
   same lock.  A module with both at once, several clients over one directory, would
   let the hypotheses of the two halves be discharged together.
2. `HostExchange`: the client's pumps (stdin and stdout queues, overflow, stop) with
   the host's loop: one request, at most one answer, no answer for another request.
3. `ReadSupport`: task callbacks with collected measurements; the unsolicited queue
   as another implementation of `TraceQueue`.
4. `TraceDecoder`: link frames and transport segments reassembled across records
   and gaps, against a reference definition over bounded inputs.
