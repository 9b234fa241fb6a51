----------------------------- MODULE TraceQueue -----------------------------
(***************************************************************************)
(* What the protocol trace promises: a queue of log records that forgets   *)
(* its oldest record when it is full, counts what it forgets, and numbers  *)
(* the records without a gap.  ProtocolTrace implements it with a ring.    *)
(***************************************************************************)
EXTENDS Naturals, Sequences

CONSTANTS
    Capacities,    \* queue capacities a trace may be started with
    MaxSequence    \* the largest value of the 64-bit counters

Record == [sequence : 1..MaxSequence, truncated : BOOLEAN]

VARIABLES queue, capacity, active, dropped, truncated, last

queueVars == <<queue, capacity, active, dropped, truncated, last>>

QueueInit ==
    /\ queue = <<>> /\ capacity \in Capacities /\ active = FALSE
    /\ dropped = 0 /\ truncated = 0 /\ last = 0

(* A new trace, when the one before it has been stopped and read to its end. *)
QueueStart(c) ==
    /\ ~active /\ queue = <<>>
    /\ active' = TRUE /\ capacity' = c /\ queue' = <<>>
    /\ dropped' = 0 /\ truncated' = 0 /\ last' = 0

(* A record is logged.  At the end of the numbering everything is lost. *)
QueueLog(t) ==
    /\ active
    /\ IF last = MaxSequence
       THEN dropped' = MaxSequence /\ UNCHANGED <<queue, truncated, last>>
       ELSE /\ last' = last + 1
            /\ queue' = Append(IF Len(queue) = capacity THEN Tail(queue) ELSE queue,
                               [sequence |-> last + 1, truncated |-> t])
            /\ dropped' = IF Len(queue) = capacity THEN dropped + 1 ELSE dropped
            /\ truncated' = IF t THEN truncated + 1 ELSE truncated
    /\ UNCHANGED <<capacity, active>>

(* The oldest n records are taken. *)
QueueTake(n) ==
    /\ n \in 0..Len(queue)
    /\ queue' = SubSeq(queue, n + 1, Len(queue))
    /\ UNCHANGED <<capacity, active, dropped, truncated, last>>

QueueStop ==
    /\ active' = FALSE
    /\ UNCHANGED <<queue, capacity, dropped, truncated, last>>

(* The host process is replaced. *)
QueueLose ==
    /\ queue' = <<>> /\ capacity' \in Capacities /\ active' = FALSE
    /\ dropped' = 0 /\ truncated' = 0 /\ last' = 0

QueueNext ==
    \/ \E c \in Capacities : QueueStart(c)
    \/ \E t \in BOOLEAN : QueueLog(t)
    \/ \E n \in 0..Len(queue) : QueueTake(n)
    \/ QueueStop
    \/ QueueLose

QueueSpec == QueueInit /\ [][QueueNext]_queueVars
=============================================================================
