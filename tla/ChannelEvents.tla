---------------------------- MODULE ChannelEvents ----------------------------
(***************************************************************************)
(* The channel of one DNP3 session as the rest of the host sees it: the    *)
(* ChannelEventStore of native/src/OpenDnp3Backend.cpp, filled by          *)
(* OpenDNP3's listener on its own thread and emptied by wait_event on the  *)
(* RPC thread.  Both hold one mutex, so record, take and snapshot are one  *)
(* step each.  An event is the state it reports.                           *)
(***************************************************************************)
EXTENDS Naturals, Sequences

CONSTANTS
    QueueCapacity,   \* kEventQueueCapacity
    MaxEvents        \* bound: state changes of the channel in one behaviour

ASSUME ChannelAssumption == QueueCapacity \in Nat \ {0} /\ MaxEvents \in Nat

VARIABLES
    chState,    \* current_state_
    chQueue,    \* events_
    chDropped,  \* dropped_events_
    chEvents    \* last_sequence_

channelVars == <<chState, chQueue, chDropped, chEvents>>

(* connect() has returned: the channel is open, and the store still holds  *)
(* whatever the connection attempts left in it.                            *)
ChannelInit ==
    /\ chState = "OPEN"
    /\ chQueue \in {<<>>, <<"OPENING", "OPEN">>}
    /\ chDropped = 0 /\ chEvents = 0

(* OpenDNP3 reports a lost connection, the start of an attempt to connect  *)
(* and its success, in this order.                                         *)
Successor == [OPEN |-> "CLOSED", CLOSED |-> "OPENING", OPENING |-> "OPEN"]

(* OnStateChange: the store forgets its oldest event when it is full.      *)
StateChange ==
    /\ chEvents < MaxEvents
    /\ chEvents' = chEvents + 1
    /\ chState' = Successor[chState]
    /\ IF Len(chQueue) = QueueCapacity
       THEN /\ chQueue' = Append(Tail(chQueue), chState')
            /\ chDropped' = chDropped + 1
       ELSE /\ chQueue' = Append(chQueue, chState')
            /\ UNCHANGED chDropped

(* take with timeout_ms = 0: at most n events leave the queue.             *)
Taken(n) == SubSeq(chQueue, 1, n)
TakeEvents(n) ==
    /\ chQueue' = SubSeq(chQueue, n + 1, Len(chQueue))
    /\ UNCHANGED <<chState, chDropped, chEvents>>
=============================================================================
