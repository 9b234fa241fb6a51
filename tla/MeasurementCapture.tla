------------------------- MODULE MeasurementCapture -------------------------
(***************************************************************************)
(* The native measurement capture (native/src/MeasurementCapture.cpp):     *)
(* bounded evidence of what the outstation has sent.                       *)
(*                                                                         *)
(* OpenDNP3's thread offers objects, a worker thread takes them from a     *)
(* bounded queue and counts them against the expected point set or event   *)
(* sequence, and the RPC thread begins, inspects, ends and aborts the      *)
(* capture.  One mutex guards everything, so what happens under one lock   *)
(* is one step; end() gives the mutex up while it waits for the queue to   *)
(* drain, record_object between a throw and its catch block.               *)
(*                                                                         *)
(* An object is what the counting tells apart: a point of the expected set *)
(* or another one.  The SHA-256 of the received sequence is that sequence. *)
(* accepting is TRUE exactly in the state Active and is not kept; nor are  *)
(* the counts by kind, the fragments, the timings and the samples.         *)
(***************************************************************************)
EXTENDS Naturals, Sequences, FiniteSets

CONSTANTS
    Points,       \* the points of the requested ranges
    Others,       \* objects outside of them
    Manifest,     \* the expected event sequence
    Capacity,     \* config.queue_capacity
    MaxOffers,    \* bound on the objects that reach one capture
    Faults        \* what may throw: "begin", "enqueue", "process", "digest"
                  \* (that recording a reason throws as well is left out)

Objects == Points \cup Others

ASSUME CaptureAssumption ==
    /\ IsFiniteSet(Points) /\ Points \cap Others = {}
    /\ Manifest \in Seq(Objects)
    /\ Capacity \in Nat \ {0} /\ MaxOffers \in Nat
    /\ Faults \subseteq {"begin", "enqueue", "process", "digest"}

Modes == {"static_set", "event_sequence", "observation"}
States == {"Idle", "Active", "Finalizing", "Finalized", "TimedOut", "Aborted"}
Reasons == {"QUEUE_OVERFLOW", "ENQUEUE_FAILURE", "PROCESSING_FAILURE",
            "DIMENSION_LIMIT", "SEQUENCE_MISMATCH", "DIGEST_FAILURE",
            "STATIC_SET_MISMATCH", "DEADLINE_EXCEEDED", "DRAIN_TIMEOUT",
            "SESSION_DISCONNECTED", "HOST_SHUTDOWN"}

VARIABLES
    state, mode,
    queue,       \* objects offered and not processed yet
    received,    \* received_total
    overflow,    \* queue_overflow
    discarded,   \* discarded_on_abort
    seen,        \* the points whose bit is set in the ranges
    repeats,     \* duplicates
    unmatched,   \* unmatched_total
    digest,      \* what the sequence digest has absorbed
    sealed,      \* received_sequence_sha256 has a value
    match,       \* sequence_match
    reasons,     \* invalid_reasons
    due,         \* the deadline of the capture has passed
    rpc,         \* the RPC thread
    worker,      \* the worker thread
    woken,       \* the waiting worker has been notified
    stopping,    \* the destructor waits for the worker
    catching,    \* the OpenDNP3 thread between a throw in record_object and its
                 \* catch: "own" for an object of this capture, "old" of an earlier one
    arrived,     \* history: the objects that came while the capture was open
    failures,    \* history: objects whose processing threw
    strays       \* history: failures of earlier captures counted by this one

counters == <<received, overflow, discarded, seen, repeats, unmatched>>
sequence == <<digest, sealed, match>>
threads == <<rpc, worker, stopping>>
history == <<arrived, failures, strays>>
vars == <<state, mode, queue, counters, sequence, reasons, due, threads, woken,
          catching, history>>

Init ==
    /\ state = "Idle" /\ mode = "observation" /\ queue = <<>>
    /\ received = 0 /\ overflow = 0 /\ discarded = 0
    /\ seen = {} /\ repeats = 0 /\ unmatched = 0
    /\ digest = <<>> /\ sealed = FALSE /\ match = "none"
    /\ reasons = {} /\ due = FALSE
    /\ rpc = "idle" /\ worker = "loop" /\ woken = FALSE /\ stopping = FALSE
    /\ catching = "none" /\ arrived = <<>> /\ failures = 0 /\ strays = 0

-----------------------------------------------------------------------------
(* expire_locked, with which every operation but abort begins: the state and *)
(* the reasons it leaves, and the notification.                            *)
Expires == state = "Active" /\ due
State1 == IF Expires THEN "TimedOut" ELSE state
Reasons1 == IF Expires THEN reasons \cup {"DEADLINE_EXCEEDED"} ELSE reasons
Notified1 == woken \/ Expires

(* reset_locked, and the history of the capture with it.  A record_object *)
(* that is on its way to its catch block now belongs to an earlier capture. *)
Reset ==
    /\ queue' = <<>>
    /\ received' = 0 /\ overflow' = 0 /\ discarded' = 0
    /\ seen' = {} /\ repeats' = 0 /\ unmatched' = 0
    /\ digest' = <<>> /\ sealed' = FALSE /\ match' = "none"
    /\ reasons' = {} /\ due' = FALSE
    /\ catching' = IF catching = "own" THEN "old" ELSE catching
    /\ arrived' = <<>> /\ failures' = 0 /\ strays' = 0

-----------------------------------------------------------------------------
(* The RPC thread.                                                         *)

MayBegin == State1 \notin {"Active", "Finalizing"} /\ queue = <<>>

Begin(m) ==
    /\ rpc = "idle" /\ ~stopping
    /\ MayBegin
    /\ Reset
    /\ mode' = m /\ state' = "Active"
    /\ woken' = TRUE
    /\ UNCHANGED threads

(* The bounded storage cannot be allocated: nothing of the old capture is left. *)
BeginFails ==
    /\ "begin" \in Faults
    /\ rpc = "idle" /\ ~stopping
    /\ MayBegin
    /\ Reset
    /\ mode' = "observation" /\ state' = "Idle"
    /\ woken' = Notified1
    /\ UNCHANGED threads

(* progress, status, record_fragment, an object of another source, a refused *)
(* begin and a wrong capture_id: nothing but expire_locked.                *)
Touch ==
    /\ ~stopping /\ Expires
    /\ state' = State1 /\ reasons' = Reasons1 /\ woken' = Notified1
    /\ UNCHANGED <<mode, queue, counters, sequence, due, threads, catching, history>>

(* end(), up to the wait for the queue to drain. *)
End ==
    /\ rpc = "idle" /\ ~stopping
    /\ state # "Idle"
    /\ state' = IF State1 = "Active" THEN "Finalizing" ELSE State1
    /\ reasons' = Reasons1
    /\ woken' = (Notified1 \/ State1 = "Active")
    /\ rpc' = "draining"
    /\ UNCHANGED <<mode, queue, counters, sequence, due, worker, stopping, catching, history>>

(***************************************************************************)
(* finalize_event_sequence_locked, with the reasons rs known so far.  A    *)
(* digest that failed has no value, so finalization is tried again (and    *)
(* fails again) when end() is repeated.                                    *)
(***************************************************************************)
SequenceMatches == received = Len(Manifest) /\ digest = Manifest

FinalizeSequence(rs) ==
    IF mode # "event_sequence" \/ sealed
    THEN reasons' = rs /\ UNCHANGED sequence
    ELSE \/ /\ match = "none"
            /\ sealed' = TRUE
            /\ match' = IF SequenceMatches THEN "yes" ELSE "no"
            /\ reasons' = IF SequenceMatches THEN rs ELSE rs \cup {"SEQUENCE_MISMATCH"}
            /\ UNCHANGED digest
         \/ /\ "digest" \in Faults
            /\ match' = "no"
            /\ reasons' = rs \cup {"DIGEST_FAILURE"}
            /\ UNCHANGED <<digest, sealed>>

(* Defect: repeated and foreign points are not looked at. *)
StaticSetReasonsMissing ==
    IF mode = "static_set" /\ seen # Points THEN {"STATIC_SET_MISMATCH"} ELSE {}

(* finalize_static_set_locked: the reason it adds. *)
StaticSetReasons ==
    IF mode = "static_set" /\ (seen # Points \/ repeats # 0 \/ unmatched # 0)
    THEN {"STATIC_SET_MISMATCH"} ELSE {}

(* The queue is empty before the drain deadline. *)
EndDrained ==
    /\ rpc = "draining" /\ queue = <<>>
    /\ rpc' = "idle"
    /\ state' = IF state = "Finalizing" THEN "Finalized" ELSE state
    /\ IF state = "Finalized"
       THEN UNCHANGED <<reasons, sequence>>
       ELSE FinalizeSequence(IF state = "Finalizing"
                             THEN reasons \cup StaticSetReasons ELSE reasons)
    /\ UNCHANGED <<mode, queue, counters, due, worker, woken, stopping, catching, history>>

(* It is not: what is left is discarded and the capture is aborted. *)
EndTimesOut ==
    /\ rpc = "draining" /\ queue # <<>>
    /\ rpc' = "idle"
    /\ discarded' = discarded + Len(queue)
    /\ queue' = <<>>
    /\ state' = "Aborted"
    /\ FinalizeSequence(reasons \cup {"DRAIN_TIMEOUT"})
    /\ woken' = TRUE
    /\ UNCHANGED <<mode, received, overflow, seen, repeats, unmatched, due, worker,
                   stopping, catching, history>>

(* Defects: the discarded objects are not counted; the queue is not cleared. *)
AbortUncounted(reason) ==
    /\ rpc = "idle" /\ ~stopping
    /\ state \in {"Active", "Finalizing", "TimedOut"}
    /\ queue' = <<>>
    /\ state' = "Aborted"
    /\ FinalizeSequence(reasons \cup {reason})
    /\ woken' = TRUE
    /\ UNCHANGED <<mode, counters, due, threads, catching, history>>

AbortKeepsQueue(reason) ==
    /\ rpc = "idle" /\ ~stopping
    /\ state \in {"Active", "Finalizing", "TimedOut"}
    /\ state' = "Aborted"
    /\ FinalizeSequence(reasons \cup {reason})
    /\ woken' = TRUE
    /\ UNCHANGED <<mode, queue, counters, due, threads, catching, history>>

(* abort(), on disconnect and on shutdown of the backend. *)
Abort(reason) ==
    /\ rpc = "idle" /\ ~stopping
    /\ state \in {"Active", "Finalizing", "TimedOut"}
    /\ discarded' = discarded + Len(queue)
    /\ queue' = <<>>
    /\ state' = "Aborted"
    /\ FinalizeSequence(reasons \cup {reason})
    /\ woken' = TRUE
    /\ UNCHANGED <<mode, received, overflow, seen, repeats, unmatched, due, threads,
                   catching, history>>

(* Defect: the destructor does not notify the worker. *)
DestroySilent ==
    /\ rpc = "idle" /\ ~stopping /\ catching = "none"
    /\ stopping' = TRUE
    /\ UNCHANGED <<state, mode, queue, counters, sequence, reasons, due, rpc, worker,
                   woken, catching, history>>

(* The destructor, up to the join; and the next host process.  The backend's *)
(* shutdown has joined OpenDNP3's thread before.                           *)
Destroy ==
    /\ rpc = "idle" /\ ~stopping /\ catching = "none"
    /\ stopping' = TRUE
    /\ IF state \in {"Active", "Finalizing"}
       THEN /\ state' = "Aborted" /\ queue' = <<>>
            /\ reasons' = reasons \cup {"HOST_SHUTDOWN"}
       ELSE UNCHANGED <<state, queue, reasons>>
    /\ woken' = TRUE
    /\ UNCHANGED <<mode, counters, sequence, due, rpc, worker, catching, history>>

Joined ==
    /\ stopping /\ worker = "exited"
    /\ Reset
    /\ state' = "Idle" /\ mode' = "observation"
    /\ rpc' = "idle" /\ worker' = "loop" /\ woken' = FALSE /\ stopping' = FALSE

-----------------------------------------------------------------------------
(***************************************************************************)
(* OpenDNP3's one thread: record_object, for a source the capture asked    *)
(* for.  When the object cannot be queued the exception releases the mutex *)
(* and the catch block takes it again to count the failure: EnqueueThrows  *)
(* and EnqueueCounted.  Whatever the RPC thread and the worker do comes    *)
(* between them, and the failure is counted in the capture that is current *)
(* then, finalized or begun in the meantime.                               *)
(***************************************************************************)
Offered(x) ==
    /\ ~stopping /\ catching = "none"
    /\ State1 = "Active"
    /\ Len(arrived) < MaxOffers
    /\ arrived' = Append(arrived, x)

(* Defect: an overflow is counted but does not invalidate the capture. *)
RecordObjectLosesReason(x) ==
    /\ Offered(x)
    /\ IF Len(queue) >= Capacity
       THEN overflow' = overflow + 1 /\ UNCHANGED <<queue, woken>>
       ELSE queue' = Append(queue, x) /\ woken' = TRUE /\ UNCHANGED overflow
    /\ UNCHANGED <<state, mode, received, discarded, seen, repeats, unmatched, sequence,
                   reasons, due, threads, catching, failures, strays>>

RecordObject(x) ==
    /\ Offered(x)
    /\ \/ /\ Len(queue) >= Capacity
          /\ overflow' = overflow + 1
          /\ reasons' = reasons \cup {"QUEUE_OVERFLOW"}
          /\ UNCHANGED <<queue, woken>>
       \/ /\ Len(queue) < Capacity
          /\ queue' = Append(queue, x)
          /\ woken' = TRUE
          /\ UNCHANGED <<overflow, reasons>>
    /\ UNCHANGED <<state, mode, received, discarded, seen, repeats, unmatched, sequence,
                   due, threads, catching, failures, strays>>

EnqueueThrows(x) ==
    /\ "enqueue" \in Faults
    /\ Offered(x)
    /\ Len(queue) < Capacity
    /\ catching' = "own"
    /\ UNCHANGED <<state, mode, queue, counters, sequence, reasons, due, threads, woken,
                   failures, strays>>

EnqueueCounted ==
    /\ catching # "none"
    /\ overflow' = overflow + 1
    /\ reasons' = reasons \cup {"ENQUEUE_FAILURE"}
    /\ strays' = IF catching = "old" THEN strays + 1 ELSE strays
    /\ catching' = "none"
    /\ UNCHANGED <<state, mode, queue, received, discarded, seen, repeats, unmatched,
                   sequence, due, threads, woken, arrived, failures>>

-----------------------------------------------------------------------------
(* The worker thread: run().                                               *)

(* process_locked. *)
Process(x) ==
    /\ received' = received + 1
    /\ \/ /\ mode = "event_sequence" => match = "none"
          /\ digest' = IF mode = "event_sequence" THEN Append(digest, x) ELSE digest
          /\ IF mode = "static_set"
             THEN /\ seen' = seen \cup ({x} \cap Points)
                  /\ repeats' = IF x \in seen THEN repeats + 1 ELSE repeats
                  /\ unmatched' = IF x \notin Points THEN unmatched + 1 ELSE unmatched
             ELSE UNCHANGED <<seen, repeats, unmatched>>
          /\ \/ reasons' = Reasons1
             \/ "process" \in Faults /\ reasons' = Reasons1 \cup {"DIMENSION_LIMIT"}
          /\ UNCHANGED <<overflow, failures>>
       \/ /\ "process" \in Faults \/ (mode = "event_sequence" /\ match # "none")
          /\ overflow' = overflow + 1
          /\ failures' = failures + 1
          /\ reasons' = Reasons1 \cup {"PROCESSING_FAILURE"}
          /\ UNCHANGED <<digest, seen, repeats, unmatched>>
    /\ UNCHANGED <<sealed, match>>

(* One turn of the loop: take an object, or wait for one. *)
WorkerTakes ==
    /\ worker = "loop" /\ ~stopping /\ queue # <<>>
    /\ Process(Head(queue))
    /\ queue' = Tail(queue)
    /\ state' = State1
    /\ UNCHANGED <<mode, discarded, due, threads, woken, catching, arrived, strays>>

WorkerWaits ==
    /\ worker = "loop" /\ ~stopping /\ queue = <<>>
    /\ worker' = IF State1 = "Active" THEN "wait_active" ELSE "wait_idle"
    /\ woken' = FALSE
    /\ state' = State1 /\ reasons' = Reasons1
    /\ UNCHANGED <<mode, queue, counters, sequence, due, rpc, stopping, catching, history>>

(* Defect: the worker waits for a notification only. *)
WorkerWakesNotified ==
    /\ worker \in {"wait_active", "wait_idle"} /\ woken
    /\ LET goes == \/ stopping \/ queue # <<>>
                   \/ (worker = "wait_idle") = (state = "Active")
       IN worker' = IF goes THEN "loop" ELSE worker
    /\ woken' = FALSE
    /\ UNCHANGED <<state, mode, queue, counters, sequence, reasons, due, rpc, stopping,
                   catching, history>>

(* A notification or, while a capture is active, the deadline: the wait ends *)
(* when its predicate holds or the deadline has passed.                    *)
WorkerWakes ==
    /\ \/ worker = "wait_active" /\ (woken \/ due)
       \/ worker = "wait_idle" /\ woken
    /\ LET goes == \/ stopping \/ queue # <<>>
                   \/ worker = "wait_active" /\ (state # "Active" \/ due)
                   \/ worker = "wait_idle" /\ state = "Active"
       IN worker' = IF goes THEN "loop" ELSE worker
    /\ woken' = FALSE
    /\ UNCHANGED <<state, mode, queue, counters, sequence, reasons, due, rpc, stopping,
                   catching, history>>

WorkerExits ==
    /\ worker = "loop" /\ stopping
    /\ worker' = "exited"
    /\ UNCHANGED <<state, mode, queue, counters, sequence, reasons, due, rpc, stopping,
                   woken, catching, history>>

(* The deadline of the active capture passes. *)
DeadlinePasses ==
    /\ state = "Active" /\ ~due
    /\ due' = TRUE
    /\ UNCHANGED <<state, mode, queue, counters, sequence, reasons, threads, woken,
                   catching, history>>

Next ==
    \/ \E m \in Modes : Begin(m)
    \/ BeginFails \/ Touch \/ End \/ EndDrained \/ EndTimesOut
    \/ \E reason \in {"SESSION_DISCONNECTED", "HOST_SHUTDOWN"} : Abort(reason)
    \/ Destroy \/ Joined
    \/ \E x \in Objects : RecordObject(x) \/ EnqueueThrows(x)
    \/ EnqueueCounted
    \/ WorkerTakes \/ WorkerWaits \/ WorkerWakes \/ WorkerExits
    \/ DeadlinePasses

Spec == Init /\ [][Next]_vars

(* The worker is scheduled, and time passes. *)
FairSpec ==
    /\ Spec
    /\ WF_vars(WorkerTakes) /\ WF_vars(WorkerWaits)
    /\ WF_vars(WorkerWakes) /\ WF_vars(WorkerExits)
    /\ WF_vars(DeadlinePasses)

-----------------------------------------------------------------------------
(* The type of every variable. *)
TypeOK ==
    /\ state \in States /\ mode \in Modes
    /\ queue \in Seq(Objects)
    /\ received \in Nat /\ overflow \in Nat /\ discarded \in Nat
    /\ seen \subseteq Points /\ repeats \in Nat /\ unmatched \in Nat
    /\ digest \in Seq(Objects) /\ sealed \in BOOLEAN /\ match \in {"none", "yes", "no"}
    /\ reasons \subseteq Reasons /\ due \in BOOLEAN
    /\ rpc \in {"idle", "draining"}
    /\ worker \in {"loop", "wait_active", "wait_idle", "exited"}
    /\ woken \in BOOLEAN /\ stopping \in BOOLEAN
    /\ catching \in {"none", "own", "old"}
    /\ arrived \in Seq(Objects) /\ failures \in Nat /\ strays \in Nat

(* snapshot_locked's "valid". *)
Valid == state = "Finalized" /\ reasons = {}

(* The object whose enqueue failed and whose failure is not counted yet. *)
Uncounted == IF catching = "own" THEN 1 ELSE 0

(***************************************************************************)
(* A capture reported as valid is complete evidence: every object that     *)
(* came in while it was open was counted, the expected set arrived with no *)
(* point missing, repeated or foreign, the event sequence is the manifest. *)
(* The one exception the code has: a result read while record_object is on *)
(* its way from its throw to its catch block misses exactly that object,   *)
(* and is no longer valid once the failure is counted.                     *)
(***************************************************************************)
ValidIsComplete ==
    Valid =>
        /\ received + Uncounted = Len(arrived)
        /\ Uncounted = 0 /\ mode = "event_sequence" => arrived = Manifest
        /\ Uncounted = 0 /\ mode = "static_set" =>
              /\ Len(arrived) = Cardinality(Points)
              /\ {arrived[i] : i \in 1..Len(arrived)} = Points

(***************************************************************************)
(* Nothing is lost silently: the offered objects are the received, the     *)
(* overflowed, the discarded and the queued ones and the one in its catch  *)
(* block.  An object whose processing threw is counted as received and as  *)
(* overflowed; a failure left over from an earlier capture is overflowed   *)
(* without having been offered to this one.  (The destructor clears the    *)
(* queue without counting; nobody reads it after.)                         *)
(***************************************************************************)
Accounting ==
    ~stopping => Len(arrived) + failures + strays
                   = received + overflow + discarded + Len(queue) + Uncounted

(***************************************************************************)
(* The Python client accepts every result the host may report: the checks  *)
(* of CaptureResult.from_mapping agree with the states of the capture,     *)
(* unless the digest itself has failed.                                    *)
(***************************************************************************)
Terminal == state \in {"Finalized", "TimedOut", "Aborted"}
TruthComplete ==
    CASE mode = "static_set" -> seen = Points /\ repeats = 0 /\ unmatched = 0
      [] mode = "event_sequence" -> match = "yes"
      [] OTHER -> TRUE

ClientAccepts ==
    "DIGEST_FAILURE" \notin reasons /\ state # "Idle" =>
        /\ Len(queue) <= Capacity
        /\ received <= Len(arrived)
        /\ mode = "event_sequence" =>
              /\ match = "yes" => sealed /\ digest = Manifest /\ received = Len(Manifest)
              /\ match = "no" => sealed /\ Terminal /\ ~Valid
              /\ match = "none" => ~sealed /\ state # "Finalized"
        /\ Terminal => (Valid <=> /\ state = "Finalized" /\ TruthComplete
                                  /\ reasons = {} /\ overflow = 0)

(***************************************************************************)
(* A reported sequence is final: once end() or abort() has closed the      *)
(* digest no object is processed any more, so a later progress() or end()  *)
(* never reports other counts with the same digest.                        *)
(***************************************************************************)
SealedIsFinal ==
    [][sealed /\ sealed' => received' = received /\ digest' = digest]_vars

(* A capture does not stay active past its deadline, even when no request  *)
(* and no object comes: the worker's own wait ends at the deadline.        *)
CaptureEnds == (state = "Active" /\ due) ~> ~(state = "Active" /\ due)

(* The destructor's join returns, whatever the worker was waiting for. *)
WorkerStops == stopping ~> worker = "exited"
=============================================================================
