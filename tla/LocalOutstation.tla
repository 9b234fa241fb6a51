--------------------------- MODULE LocalOutstation ---------------------------
(***************************************************************************)
(* LocalTestOutstation of local_outstation.py: the Python object that      *)
(* starts the packaged outstation, exchanges NDJSON lines with it and can  *)
(* be started again after a failure.  Three actors interleave: the calling *)
(* thread, the thread that reads stdout into a bounded queue, and the      *)
(* process itself (local_outstation_main.cpp).  The queue and the request  *)
(* counter belong to the object and outlive each process.                  *)
(*                                                                         *)
(* A line carries the number of the process that wrote it, which the code  *)
(* cannot see.  One thread calls, as in every use of the class; a          *)
(* KeyboardInterrupt may end its call at every point: while it waits, with *)
(* the line in its hands, before the request is written.  A thread that is *)
(* joined after its stream was closed is taken to return within the second *)
(* it is given.                                                            *)
(***************************************************************************)
EXTENDS Naturals, Sequences

CONSTANTS
    MaxStarts,       \* bound: processes started
    MaxRequests,     \* bound: requests sent
    MaxInterrupts,   \* bound: KeyboardInterrupts
    LineCapacity     \* _QUEUE_CAPACITY

ASSUME OutstationAssumption ==
    {MaxStarts, MaxRequests, MaxInterrupts} \subseteq Nat /\ LineCapacity \in Nat \ {0}

VARIABLES
    loPc,        \* the caller: "idle", waiting for a line in "startup" or "answer",
                 \* looking at it in "readiness" or "checking", or "joining"
    process,     \* self._process: 0, or the number of the process
    started,     \* processes started so far
    child,       \* that process: running, announced, its stdin and its stdout
    reading,     \* the reader thread has not returned
    lines,       \* _stdout_queue
    taken,       \* the line that _next_line returned and the caller looks at
    counter,     \* _request_sequence
    request,     \* the request under way
    truth,       \* history: generate requests executed by the process, returned to
                 \* the caller, and lost with the line an interrupt took from it
    answered,    \* history: the last answer accepted, and what was true then
    interrupts

outstationVars == <<loPc, process, started, child, reading, lines, taken, counter, request,
                    truth, answered, interrupts>>

Failure == [kind |-> "failure", by |-> 0, id |-> 0, ok |-> FALSE]
NoChild == [running |-> FALSE, announced |-> FALSE, inbox |-> <<>>, output |-> <<>>]
NoTruth == [executed |-> {}, returned |-> {}, lost |-> {}]

OutstationInit ==
    /\ loPc = "idle" /\ process = 0 /\ started = 0 /\ child = NoChild
    /\ reading = FALSE /\ lines = <<>> /\ taken = Failure /\ counter = 0
    /\ request = [id |-> 0, cmd |-> "hello"] /\ truth = NoTruth /\ interrupts = 0
    /\ answered = [by |-> 0, process |-> 0, truth |-> NoTruth]

----------------------------------------------------------------------------
(* The process: it announces itself, then answers each request, which it   *)
(* executes or refuses.                                                    *)

Writes(line) == child' = [child EXCEPT !.output = Append(@, line), !.announced = TRUE]

Announce ==
    /\ child.running /\ ~child.announced
    /\ Writes([kind |-> "ready", by |-> started, id |-> 0, ok |-> TRUE])
    /\ UNCHANGED <<loPc, process, started, reading, lines, taken, counter, request, truth,
                   answered, interrupts>>

Serve ==
    /\ child.running /\ child.announced /\ child.inbox # <<>>
    /\ LET asked == Head(child.inbox)
       IN \E ok \in BOOLEAN :
             /\ child' = [child EXCEPT
                            !.inbox = Tail(@), !.running = ~(ok /\ asked.cmd = "shutdown"),
                            !.output = Append(@, [kind |-> "reply", by |-> started,
                                                  id |-> asked.id, ok |-> ok])]
             /\ truth' = IF ok /\ asked.cmd = "generate"
                         THEN [truth EXCEPT !.executed = @ \cup {asked.id}] ELSE truth
    /\ UNCHANGED <<loPc, process, started, reading, lines, taken, counter, request, answered,
                   interrupts>>

ChildExits ==
    /\ child.running /\ child' = [child EXCEPT !.running = FALSE]
    /\ UNCHANGED <<loPc, process, started, reading, lines, taken, counter, request, truth,
                   answered, interrupts>>

----------------------------------------------------------------------------
(* The reader thread.                                                      *)

(* _enqueue_stdout: a full queue loses its oldest line to a failure.       *)
Enqueued(line) ==
    IF Len(lines) < LineCapacity THEN Append(lines, line) ELSE Append(Tail(lines), Failure)

(* _read_stdout: it stops when the queue was full.                         *)
ReadLine ==
    /\ reading /\ child.output # <<>>
    /\ lines' = Enqueued(Head(child.output))
    /\ child' = [child EXCEPT !.output = Tail(@)]
    /\ reading' = (Len(lines) < LineCapacity)
    /\ UNCHANGED <<loPc, process, started, taken, counter, request, truth, answered, interrupts>>

----------------------------------------------------------------------------
(* The calling thread.                                                     *)

(* _terminate up to the join; everything it interrupts ends here.          *)
Terminate ==
    /\ loPc' = "joining" /\ taken' = Failure
    /\ child' = [child EXCEPT !.running = FALSE]
    /\ UNCHANGED <<process, started, reading, lines, truth, answered, interrupts>>

(* A KeyboardInterrupt: no handler of the class catches it.                *)
Interrupt ==
    /\ interrupts < MaxInterrupts /\ interrupts' = interrupts + 1
    /\ loPc' = "idle" /\ taken' = Failure

(* Defect: every process gets its requests numbered from one.              *)
Start_ResetsCounter ==
    /\ loPc = "idle" /\ process = 0 /\ started < MaxStarts
    /\ started' = started + 1 /\ process' = started'
    /\ child' = [NoChild EXCEPT !.running = TRUE]
    /\ reading' = TRUE /\ loPc' = "startup" /\ truth' = NoTruth /\ counter' = 0
    /\ UNCHANGED <<lines, taken, request, answered, interrupts>>

(* start: a new process and reader, the same queue and counter.  An        *)
(* interrupt before the reader was started leaves a process nobody reads.  *)
Start ==
    /\ loPc = "idle" /\ process = 0 /\ started < MaxStarts
    /\ started' = started + 1 /\ process' = started'
    /\ child' = [NoChild EXCEPT !.running = TRUE]
    /\ truth' = NoTruth
    /\ \/ reading' = TRUE /\ loPc' = "startup" /\ UNCHANGED <<taken, interrupts>>
       \/ reading' = FALSE /\ Interrupt
    /\ UNCHANGED <<lines, counter, request, answered>>

(* The lock-protected half of request: numbering and writing.  The write   *)
(* fails when the process has exited since is_running was asked; an        *)
(* interrupt before it wastes the number.                                  *)
Transmit(cmd) ==
    /\ counter < MaxRequests /\ counter' = counter + 1
    /\ request' = [id |-> counter', cmd |-> cmd]
    /\ \/ /\ loPc' = "answer" /\ taken' = Failure
          /\ child' = [child EXCEPT !.inbox = Append(@, request')]
          /\ UNCHANGED <<process, started, reading, lines, truth, answered, interrupts>>
       \/ Terminate
       \/ /\ Interrupt
          /\ UNCHANGED <<process, started, child, reading, lines, truth, answered>>

(* _next_line: the line leaves the queue before anybody has looked at it.  *)
TakeLine ==
    /\ loPc \in {"startup", "answer"} /\ lines # <<>>
    /\ loPc' = IF loPc = "startup" THEN "readiness" ELSE "checking"
    /\ taken' = Head(lines) /\ lines' = Tail(lines)
    /\ UNCHANGED <<process, started, child, reading, counter, request, truth, answered, interrupts>>

(* It timed out, in start or in request.                                   *)
TimesOut ==
    /\ loPc \in {"startup", "answer"} /\ Terminate
    /\ UNCHANGED <<counter, request>>

(* The first line must be the announcement; then hello is sent.            *)
CheckReady ==
    /\ loPc = "readiness"
    /\ \/ taken.kind = "ready" /\ child.running /\ Transmit("hello")
       \/ /\ taken.kind # "ready" \/ ~child.running
          /\ Terminate /\ UNCHANGED <<counter, request>>

(* snapshot, the updates and generate_events.                              *)
Request ==
    /\ loPc = "idle" /\ process # 0 /\ child.running
    /\ \E cmd \in {"snapshot", "generate"} : Transmit(cmd)

(* close: shutdown is asked of a process that runs.                        *)
CloseProcess ==
    /\ loPc = "idle" /\ process # 0
    /\ \/ child.running /\ Transmit("shutdown")
       \/ ~child.running /\ Terminate /\ UNCHANGED <<counter, request>>

IsAnswer == taken.kind = "reply" /\ taken.id = request.id

(* A line that is not the answer ends the process (_fatal_protocol_error). *)
ReceiveOther ==
    /\ loPc = "checking" /\ ~IsAnswer
    /\ Terminate /\ UNCHANGED <<counter, request>>

(* An error answer is raised and the process kept, except by start, which  *)
(* gives up, and by close, which waits for the end.                        *)
ReceiveError ==
    /\ loPc = "checking" /\ IsAnswer /\ ~taken.ok
    /\ \/ request.cmd \in {"hello", "shutdown"} /\ Terminate
       \/ /\ request.cmd \notin {"hello", "shutdown"}
          /\ loPc' = "idle" /\ taken' = Failure
          /\ UNCHANGED <<process, started, child, reading, lines, truth, answered, interrupts>>
    /\ UNCHANGED <<counter, request>>

(* A result that is accepted and returned, by generate_events as a truth.  *)
ReceiveResult ==
    /\ loPc = "checking" /\ IsAnswer /\ taken.ok
    /\ taken' = Failure
    /\ truth' = IF request.cmd = "generate" THEN [truth EXCEPT !.returned = @ \cup {request.id}]
                ELSE truth
    /\ answered' = [by |-> taken.by, process |-> process, truth |-> truth']
    /\ loPc' = IF request.cmd = "shutdown" THEN "joining" ELSE "idle"
    /\ child' = [child EXCEPT !.running = @ /\ request.cmd # "shutdown"]
    /\ UNCHANGED <<process, started, reading, lines, counter, request, interrupts>>

(* The streams are closed and the threads joined; a reader that was in     *)
(* readline may still report its closed stream.                            *)
Join ==
    /\ loPc = "joining" /\ loPc' = "idle" /\ process' = 0
    /\ lines' \in {lines} \cup (IF reading THEN {Enqueued(Failure)} ELSE {})
    /\ reading' = FALSE /\ child' = NoChild
    /\ UNCHANGED <<started, taken, counter, request, truth, answered, interrupts>>

(* An interrupt of a call under way.  The process stays where it is; a line *)
(* that was taken is gone, and with it the truth of the burst it reports.  *)
Interrupted ==
    /\ loPc # "idle" /\ Interrupt
    /\ truth' = [truth EXCEPT !.lost = @ \cup ({taken.id} \cap truth.executed)]
    /\ UNCHANGED <<process, started, child, reading, lines, counter, request, answered>>

OutstationNext ==
    \/ Announce \/ Serve \/ ChildExits \/ ReadLine
    \/ Start \/ TakeLine \/ TimesOut \/ CheckReady \/ Request \/ CloseProcess \/ ReceiveOther
    \/ ReceiveError \/ ReceiveResult \/ Join \/ Interrupted

OutstationSpec == OutstationInit /\ [][OutstationNext]_outstationVars

----------------------------------------------------------------------------
(* An answer that a call returns was written by the process it was sent    *)
(* to, although the queue may still hold lines of processes before it, and *)
(* at that moment the truths returned by generate_events account for every *)
(* event the process has emitted, but for the bursts whose reply the       *)
(* caller had already taken from the queue when a KeyboardInterrupt ended  *)
(* its call: a burst that timed out or was interrupted before that never   *)
(* goes unnoticed (local_outstation.py, request and generate_events).      *)
AnswerIsOwn ==
    /\ answered.by = answered.process
    /\ answered.truth.executed = answered.truth.returned \cup answered.truth.lost
=============================================================================
