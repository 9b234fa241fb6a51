---------------------------- MODULE ProtocolTrace ----------------------------
(***************************************************************************)
(* The opt-in protocol trace: the ring of log records in the native host   *)
(* (native/src/ProtocolTrace.cpp) and the client that reads it             *)
(* (start_trace, read_trace, stop_trace of client.py and the record level  *)
(* of TraceDecoder in trace.py).                                           *)
(*                                                                         *)
(* OpenDNP3's threads log into the ring; the RPC thread starts, reads and  *)
(* stops the trace; one mutex guards the ring.  A record is its number and *)
(* whether its text was cut.  A read is one step: nothing that happens     *)
(* between the host's reply and its decoding changes either.               *)
(***************************************************************************)
EXTENDS Naturals, Sequences

CONSTANTS
    Capacities,    \* queue capacities a trace may be started with
    MaxSequence,   \* the largest value of the 64-bit counters
    Batches        \* values of max_records

ASSUME TraceAssumption ==
    /\ Capacities \subseteq Nat \ {0} /\ Capacities # {}
    /\ MaxSequence \in Nat \ {0} /\ Batches \subseteq Nat \ {0}

Record == [sequence : 0..MaxSequence, truncated : BOOLEAN]
Blank == [sequence |-> 0, truncated |-> FALSE]

VARIABLES
    records, head, queued,               \* the ring
    capacity, active, known,             \* known: trace_id_ is not empty
    dropped, truncated, sequence,        \* its counters
    previous,     \* the summary the client keeps: _trace_summary, _last_summary
    lastSeen,     \* TraceDecoder._last_sequence
    issues,       \* TraceDecoder._issues
    rejected,     \* history: the client has refused a reply of the host
    logged,       \* history: log calls the active trace has seen
    delivered     \* history: the records the client has read

ringVars == <<records, head, queued, capacity, active, known, dropped, truncated, sequence>>
clientVars == <<previous, lastSeen, issues, rejected>>
vars == <<ringVars, clientVars, logged, delivered>>

(* snapshot_locked. *)
Snapshot ==
    [state |-> IF ~known THEN "IDLE" ELSE IF active THEN "ACTIVE" ELSE "STOPPED",
     capacity |-> capacity, queued |-> queued, dropped |-> dropped,
     truncated |-> truncated, last |-> sequence, logged |-> logged]

CompleteSummary(s) == s.dropped = 0 /\ s.truncated = 0

None == [state |-> "NONE", capacity |-> 0, queued |-> 0, dropped |-> 0,
         truncated |-> 0, last |-> 0, logged |-> 0]

Init ==
    /\ capacity \in Capacities
    /\ records = [i \in 0..capacity - 1 |-> Blank]
    /\ head = 0 /\ queued = 0 /\ active = FALSE /\ known = FALSE
    /\ dropped = 0 /\ truncated = 0 /\ sequence = 0
    /\ previous = None /\ lastSeen = 0 /\ issues = {} /\ rejected = FALSE
    /\ logged = 0 /\ delivered = <<>>

-----------------------------------------------------------------------------
(* The checks of the client: a summary on its own (TraceSummary.from_dict),  *)
(* and one that follows another of the same trace.                         *)
WellFormed(s) ==
    /\ s.queued <= s.capacity
    /\ s.queued <= s.last /\ s.dropped <= s.last /\ s.truncated <= s.last

Follows(s, p) ==
    /\ s.capacity = p.capacity
    /\ s.last >= p.last /\ s.dropped >= p.dropped /\ s.truncated >= p.truncated
    /\ p.state = "STOPPED" => s.state = "STOPPED"

(* ProtocolTrace::start and start_trace; refused while a trace is active or *)
(* has unread records.                                                     *)
Start(c) ==
    /\ ~active /\ queued = 0
    /\ capacity' = c /\ records' = [i \in 0..c - 1 |-> Blank]
    /\ head' = 0 /\ queued' = 0
    /\ dropped' = 0 /\ truncated' = 0 /\ sequence' = 0
    /\ active' = TRUE /\ known' = TRUE
    /\ logged' = 0 /\ delivered' = <<>>
    /\ previous' = Snapshot' /\ lastSeen' = 0 /\ issues' = {}
    /\ rejected' = (rejected \/ ~WellFormed(Snapshot'))

(* Defect: what does not fit is dropped and not counted. *)
LogDropsSilently(t) ==
    /\ active
    /\ logged <= MaxSequence
    /\ logged' = logged + 1
    /\ IF sequence = MaxSequence \/ queued = capacity
       THEN UNCHANGED <<records, head, queued, truncated, sequence>>
       ELSE /\ queued' = queued + 1
            /\ sequence' = sequence + 1
            /\ truncated' = IF t THEN truncated + 1 ELSE truncated
            /\ records' = [records EXCEPT ![(head + queued) % capacity] =
                              [sequence |-> sequence + 1, truncated |-> t]]
            /\ UNCHANGED head
    /\ UNCHANGED <<capacity, active, known, dropped, clientVars, delivered>>

(* Defect: a full ring overwrites its newest record. *)
LogOverwritesNewest(t) ==
    /\ active
    /\ sequence < MaxSequence
    /\ logged' = logged + 1
    /\ LET full == queued = capacity
           queued1 == IF full THEN queued - 1 ELSE queued
       IN /\ queued' = queued1 + 1
          /\ dropped' = IF full THEN dropped + 1 ELSE dropped
          /\ sequence' = sequence + 1
          /\ truncated' = IF t THEN truncated + 1 ELSE truncated
          /\ records' = [records EXCEPT ![(head + queued1) % capacity] =
                            [sequence |-> sequence + 1, truncated |-> t]]
    /\ UNCHANGED <<head, capacity, active, known, clientVars, delivered>>

(* ProtocolTrace::record, on a thread of OpenDNP3. *)
Log(t) ==
    /\ active
    /\ logged <= MaxSequence   \* bound: one call past the saturation
    /\ logged' = logged + 1
    /\ IF sequence = MaxSequence
       THEN /\ dropped' = MaxSequence
            /\ UNCHANGED <<records, head, queued, truncated, sequence>>
       ELSE LET full == queued = capacity
                head1 == IF full THEN (head + 1) % capacity ELSE head
                queued1 == IF full THEN queued - 1 ELSE queued
            IN /\ head' = head1
               /\ queued' = queued1 + 1
               /\ dropped' = IF full THEN dropped + 1 ELSE dropped
               /\ sequence' = sequence + 1
               /\ truncated' = IF t THEN truncated + 1 ELSE truncated
               /\ records' = [records EXCEPT ![(head1 + queued1) % capacity] =
                                 [sequence |-> sequence + 1, truncated |-> t]]
    /\ UNCHANGED <<capacity, active, known, clientVars, delivered>>

-----------------------------------------------------------------------------
(* TraceDecoder.decode_batch at the level of records: the issues a batch and *)
(* its summary give rise to.                                               *)
NewIssues(batch, s) ==
    LET before == <<lastSeen>> \o [i \in 1..Len(batch) |-> batch[i].sequence] IN
    (IF s.dropped > 0 THEN {"DROPPED_RECORDS"} ELSE {})
    \cup (IF s.truncated > 0 \/ \E i \in 1..Len(batch) : batch[i].truncated
          THEN {"TRUNCATED_RECORDS"} ELSE {})
    \cup (IF \/ \E i \in 1..Len(batch) : batch[i].sequence # before[i] + 1
             \/ before[Len(before)] # s.last - s.queued
          THEN {"RECORD_SEQUENCE_GAP"} ELSE {})

AcceptsBatch(batch, s, n) ==
    /\ WellFormed(s) /\ Follows(s, previous)
    /\ Len(batch) <= n
    /\ batch = <<>> => s.queued = 0
    /\ Len(batch) + s.queued <= s.last
    /\ \A i \in 1..Len(batch) : batch[i].sequence \in 1..s.last
    /\ (\E i \in 1..Len(batch) : batch[i].truncated) => s.truncated > 0

(* The oldest n records, as read() copies them from the ring. *)
Oldest(n) == [i \in 1..n |-> records[(head + i - 1) % capacity]]

(* Defect: the snapshot precedes the removal. *)
ReadSnapshotFirst(n) ==
    /\ previous # None /\ n <= queued
    /\ head' = (head + n) % capacity
    /\ queued' = queued - n
    /\ delivered' = delivered \o Oldest(n)
    /\ rejected' = (rejected \/ ~AcceptsBatch(Oldest(n), Snapshot, n))
    /\ previous' = Snapshot
    /\ lastSeen' = Oldest(n)[n].sequence
    /\ issues' = issues \cup NewIssues(Oldest(n), Snapshot)
    /\ UNCHANGED <<records, capacity, active, known, dropped, truncated, sequence, logged>>

(* ProtocolTrace::read, after its wait, and read_trace. *)
Read(n) ==
    /\ previous # None
    /\ UNCHANGED <<records, capacity, active, known, dropped, truncated, sequence, logged>>
    /\ LET count == IF queued < n THEN queued ELSE n
           batch == Oldest(count)
       IN /\ head' = (head + count) % capacity
          /\ queued' = queued - count
          /\ delivered' = delivered \o batch
          /\ rejected' = (rejected \/ ~AcceptsBatch(batch, Snapshot', n))
          /\ previous' = Snapshot'
          /\ lastSeen' = IF count = 0 THEN lastSeen ELSE batch[count].sequence
          /\ issues' = issues \cup NewIssues(batch, Snapshot')

(* ProtocolTrace::stop and stop_trace. *)
Stop ==
    /\ previous # None
    /\ active' = FALSE
    /\ UNCHANGED <<records, head, queued, capacity, known, dropped, truncated, sequence,
                   lastSeen, issues, logged, delivered>>
    /\ rejected' = (rejected \/ ~(WellFormed(Snapshot') /\ Follows(Snapshot', previous)))
    /\ previous' = Snapshot'

(* shutdown of the backend, and the end of the host: the client of the next  *)
(* host starts from nothing.                                               *)
Shutdown ==
    /\ active
    /\ active' = FALSE
    /\ UNCHANGED <<records, head, queued, capacity, known, dropped, truncated, sequence,
                   clientVars, logged, delivered>>

NewHost ==
    /\ ~active /\ known
    /\ capacity' \in Capacities /\ records' = [i \in 0..capacity' - 1 |-> Blank]
    /\ head' = 0 /\ queued' = 0 /\ known' = FALSE
    /\ dropped' = 0 /\ truncated' = 0 /\ sequence' = 0
    /\ previous' = None /\ lastSeen' = 0 /\ issues' = {}
    /\ logged' = 0 /\ delivered' = <<>>
    /\ UNCHANGED <<active, rejected>>

Next ==
    \/ \E c \in Capacities : Start(c)
    \/ \E t \in BOOLEAN : Log(t)
    \/ \E n \in Batches : Read(n)
    \/ Stop \/ Shutdown \/ NewHost

Spec == Init /\ [][Next]_vars

-----------------------------------------------------------------------------
(* The ring is the queue of TraceQueue: head, queued and the modulus        *)
(* arithmetic of record() and read() keep its records in order.            *)
Ring == INSTANCE TraceQueue WITH queue <- Oldest(queued), last <- sequence

RingIsQueue == Ring!QueueSpec

(***************************************************************************)
(* A batch the client calls complete is complete: the client has read      *)
(* every record that was logged up to that moment, in order and whole, but *)
(* for those the summary reports as queued.                                *)
(***************************************************************************)
CompleteIsWhole ==
    previous # None /\ CompleteSummary(previous) /\ issues = {} =>
        /\ previous.logged = previous.last
        /\ Len(delivered) = previous.last - previous.queued
        /\ \A i \in 1..Len(delivered) :
              delivered[i].sequence = i /\ ~delivered[i].truncated

(* No reply of a working host makes the client declare a protocol error: its *)
(* checks hold for every interleaving of logging, reading and stopping,    *)
(* with the ring at its limit and with the counters saturated.             *)
RepliesAccepted == ~rejected
=============================================================================
