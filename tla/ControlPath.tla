----------------------------- MODULE ControlPath -----------------------------
(***************************************************************************)
(* A state-changing command from the Python call to the outstation and     *)
(* back (python/src/dnp3_master/client.py), on top of CommandSupport.      *)
(*                                                                         *)
(* One Python client owns one host process.  A LAB control is checked      *)
(* against the incident lock of the DUT, written to the host, answered (or *)
(* not) within the exchange deadline, and classified.  An uncertain result *)
(* must leave the DUT locked, the token cleared and the host destroyed,    *)
(* also when Ctrl+C or the death of the host comes in between.             *)
(*                                                                         *)
(* The lock is one bit, recorded and acknowledged atomically: this module  *)
(* uses what IncidentLock promises and SafetyIncidentStore implements.     *)
(***************************************************************************)
EXTENDS CommandSupport

CONSTANTS
    MaxControls,     \* bound on the control calls of a behaviour
    MaxInterrupts,   \* KeyboardInterrupts a behaviour may see
    StoreMayFail,    \* record_uncertain may raise
    HostMayThrow     \* HostController::dispatch may throw after the submission too

ASSUME BoundsAssumption == /\ MaxControls \in Nat /\ MaxInterrupts \in Nat
                           /\ StoreMayFail \in BOOLEAN /\ HostMayThrow \in BOOLEAN

VARIABLES
    client,      \* the state of Dnp3MasterClient
    token,       \* _safety_token is set
    simulator,   \* _simulator_mode
    session,     \* what the host's session authorises
    host,        \* the host process
    pc,          \* where the running control call is
    written,     \* _request_write_started: the request may have been sent
    lock,        \* the DUT has an active incident
    alarm,       \* the caller was told that the lock could not be verified
    unresolved,  \* history: a LAB control has ended, its effect unknown
    controls, interrupts

clientVars == <<client, token, simulator, session, host, pc, written, lock, alarm,
                unresolved, controls, interrupts>>
vars == <<cmdVars, clientVars>>

(***************************************************************************)
(* Where a control call is: nothing written yet; the request handed to the *)
(* writer; a result being validated; the first and the second call of      *)
(* _handle_uncertain_command, before the lock is recorded and after it.    *)
(***************************************************************************)
Places == {"idle", "checked", "sent", "received",
           "record", "teardown", "record2", "teardown2"}

Init ==
    /\ CmdInit
    /\ client = "new" /\ token = FALSE /\ simulator = FALSE
    /\ session = "none" /\ host = "down"
    /\ pc = "idle" /\ written = FALSE
    /\ lock \in BOOLEAN
    /\ alarm = FALSE /\ unresolved = FALSE
    /\ controls = 0 /\ interrupts = 0

(* _abort_process: the token is cleared, the host killed, the client broken. *)
Abort ==
    /\ client' = "broken" /\ token' = FALSE /\ host' = "down" /\ session' = "none"
    /\ task' = "ended" /\ rpc' = "idle"
    /\ UNCHANGED <<op, active, reply, transmitted, answered, simulator>>

(* _abort_process, interrupted after it has cleared the token. *)
AbortInterrupted ==
    /\ token' = FALSE
    /\ UNCHANGED <<cmdVars, client, simulator, session, host>>

-----------------------------------------------------------------------------
(* Sessions.                                                               *)

(* A new client object starts its host; hello succeeds or the client breaks. *)
Start ==
    /\ client \in {"new", "broken", "closed"} /\ pc = "idle"
    /\ \/ client' = "running" /\ host' = "up"
       \/ client' = "broken" /\ host' = "down"
    /\ session' = "none" /\ token' = FALSE /\ simulator' = FALSE
    /\ CmdReset
    /\ UNCHANGED <<pc, written, lock, alarm, unresolved, controls, interrupts>>

(* connect: LAB with state changes allowed, LAB read-only, or SIMULATOR.    *)
(* The token is kept when the host's session authorises control.           *)
Connect(mode) ==
    /\ client = "running" /\ pc = "idle" /\ host = "up" /\ session = "none"
    /\ session' = mode
    /\ token' = (mode \in {"LAB", "SIMULATOR"})
    /\ simulator' = (mode = "SIMULATOR")
    /\ UNCHANGED <<cmdVars, client, host, pc, written, lock, alarm, unresolved,
                   controls, interrupts>>

(* disconnect: the host cancels the command and drops the session; the      *)
(* client forgets the token unless the host reports an error.              *)
Disconnect ==
    /\ client = "running" /\ pc = "idle" /\ host = "up" /\ session # "none"
    /\ CancelActive
    /\ session' = "none"
    /\ token' \in {FALSE, token}
    /\ UNCHANGED <<client, simulator, host, pc, written, lock, alarm, unresolved,
                   controls, interrupts>>

(* close: the host is shut down, or destroyed when it does not answer. *)
Close ==
    /\ client \in {"running", "broken"} /\ pc = "idle"
    /\ client' = "closed" /\ host' = "down" /\ token' = FALSE
    /\ session' = "none"
    /\ CmdReset
    /\ UNCHANGED <<simulator, pc, written, lock, alarm, unresolved, controls, interrupts>>

-----------------------------------------------------------------------------
(* The control call, up to the answer.                                     *)

(* Defect: assert_clear is not called. *)
BeginControlUnchecked ==
    /\ pc = "idle" /\ controls < MaxControls
    /\ token
    /\ pc' = "checked"
    /\ written' = FALSE
    /\ controls' = controls + 1
    /\ reply' = NoReply /\ transmitted' = FALSE /\ answered' = FALSE
    /\ UNCHANGED <<task, op, active, rpc, client, token, simulator, session, host, lock,
                   alarm, unresolved, interrupts>>

(* Token, arguments and, in LAB, assert_clear; else the call raises.        *)
BeginControl ==
    /\ pc = "idle" /\ controls < MaxControls
    /\ token
    /\ simulator \/ ~lock
    /\ pc' = "checked"
    /\ written' = FALSE
    /\ controls' = controls + 1
    /\ reply' = NoReply /\ transmitted' = FALSE /\ answered' = FALSE
    /\ UNCHANGED <<task, op, active, rpc, client, token, simulator, session, host, lock, alarm,
                   unresolved, interrupts>>

(* _exchange marks the write as started and hands the request over. *)
Send ==
    /\ pc = "checked" /\ client = "running" /\ host = "up"
    /\ pc' = "sent" /\ written' = TRUE
    /\ UNCHANGED <<cmdVars, client, token, simulator, session, host, lock, alarm,
                   unresolved, controls, interrupts>>

(* The host has taken the request and works on it: one of the RPC steps of   *)
(* CommandSupport, or a refusal when the session does not authorise it.    *)
Pending == pc = "sent" /\ host = "up" /\ rpc = "idle" /\ reply = NoReply

HostExecute ==
    /\ Pending
    /\ \/ session \in {"LAB", "SIMULATOR"} /\ (ExecuteBusy \/ Execute \/ ExecuteThrows)
       \/ ExecuteRefused
    /\ UNCHANGED clientVars

HostStep ==
    /\ host = "up"
    /\ Callback \/ Answer \/ ClearIfActive
    /\ unresolved' = (unresolved \/ (pc = "idle" /\ ~simulator
                                       /\ ~transmitted /\ transmitted'))
    /\ UNCHANGED <<client, token, simulator, session, host, pc, written, lock, alarm,
                   controls, interrupts>>

(* main.cpp: an exception that leaves dispatch, or the serialization of its  *)
(* response, is answered INTERNAL_ERROR with empty details, whatever the   *)
(* task did.                                                               *)
HostThrows ==
    /\ pc = "sent" /\ host = "up"
    /\ Pending \/ HostMayThrow
    /\ rpc' = "idle"
    /\ reply' = [code |-> "INTERNAL_ERROR", uncertain |-> FALSE]
    /\ UNCHANGED <<task, op, active, transmitted, answered, clientVars>>

(* A request other than a control times out, is interrupted or meets a dead   *)
(* host: _exchange aborts the client.                                      *)
RequestFails ==
    /\ client = "running" /\ pc = "idle"
    /\ Abort
    /\ UNCHANGED <<pc, written, lock, alarm, unresolved, controls, interrupts>>

(* The host process dies; frames it has sent are out. *)
HostDies ==
    /\ host = "up"
    /\ host' = "down"
    /\ task' = "ended" /\ rpc' = "idle"
    /\ reply' = IF rpc = "idle" THEN reply ELSE NoReply
    /\ UNCHANGED <<op, active, transmitted, answered, client, token, simulator,
                   session, pc, written, lock, alarm, unresolved, controls, interrupts>>

-----------------------------------------------------------------------------
(* The control call, from the answer on.                                   *)

(* The call ends.  The effect is unknown when frames went out and no clean   *)
(* answer came back.                                                       *)
EndCall ==
    /\ pc' = "idle"
    /\ unresolved' = (unresolved \/ (~simulator /\ transmitted /\ ~answered))

(* A response line arrives in time. *)
Receive ==
    /\ pc = "sent" /\ reply # NoReply /\ rpc = "idle"
    /\ pc' = "received"
    /\ UNCHANGED <<cmdVars, client, token, simulator, session, host, written, lock,
                   alarm, unresolved, controls, interrupts>>

(* Defect: the wait for the response has no deadline. *)
ExchangeFailsOnExit ==
    /\ pc \in {"checked", "sent"} /\ host = "down"
    /\ Abort
    /\ pc' = IF simulator THEN "teardown" ELSE "record"
    /\ UNCHANGED <<written, lock, alarm, unresolved, controls, interrupts>>

(* HostTimeoutError, HostExitedError or HostProtocolError: _exchange has     *)
(* destroyed the host before the handler of the command sees the error.    *)
ExchangeFails ==
    /\ pc \in {"checked", "sent"}
    /\ pc = "checked" => host = "down"
    /\ Abort
    /\ pc' = IF simulator THEN "teardown" ELSE "record"
    /\ UNCHANGED <<written, lock, alarm, unresolved, controls, interrupts>>

(* Defect: execution_uncertain is not read. *)
ClassifyByCode(r) == r.code # "RESPONSE_TIMEOUT"

(* The answer is certain: the call returns its result or raises the error. *)
Classify(r) == Certain(r)

AcceptAnswer ==
    /\ pc = "received"
    /\ Classify(reply)
    /\ EndCall
    /\ UNCHANGED <<cmdVars, client, token, simulator, session, host, written, lock,
                   alarm, controls, interrupts>>

(* It is not, or a result does not parse or correlate with the request (a    *)
(* version skew of the two processes, say): the command is uncertain.      *)
DoubtAnswer ==
    /\ pc = "received"
    /\ ~Classify(reply) \/ reply.code = "OK"
    /\ pc' = IF simulator THEN "teardown" ELSE "record"
    /\ UNCHANGED <<cmdVars, client, token, simulator, session, host, written, lock,
                   alarm, unresolved, controls, interrupts>>

(* _handle_uncertain_command in LAB: record_uncertain creates the lock or    *)
(* finds it; or it raises, on a lock it cannot read for instance.          *)
Record ==
    /\ pc \in {"record", "record2"}
    /\ \/ lock' = TRUE /\ UNCHANGED alarm
       \/ (StoreMayFail \/ lock) /\ alarm' = TRUE /\ UNCHANGED lock
    /\ pc' = IF pc = "record" THEN "teardown" ELSE "teardown2"
    /\ UNCHANGED <<cmdVars, client, token, simulator, session, host, written,
                   unresolved, controls, interrupts>>

(* The finally clause (or the simulator branch), then the error is raised. *)
Teardown ==
    /\ pc \in {"teardown", "teardown2"}
    /\ Abort
    /\ EndCall
    /\ UNCHANGED <<written, lock, alarm, controls, interrupts>>

(***************************************************************************)
(* KeyboardInterrupt or SystemExit in the calling thread.  Before the      *)
(* write it just leaves the call.  After it the outer handler runs         *)
(* _handle_uncertain_command, once more if it was running already.  In     *)
(* that second run nothing catches it: the finally clause destroys the     *)
(* host and the interrupt leaves the call.  A record that is interrupted   *)
(* may have left an incomplete lock, a teardown a running host.            *)
(***************************************************************************)
Interrupt ==
    /\ interrupts < MaxInterrupts
    /\ interrupts' = interrupts + 1
    /\ \/ /\ pc = "checked"
          /\ EndCall
          /\ UNCHANGED <<cmdVars, client, token, session, host, simulator, lock>>
       \/ /\ pc \in {"sent", "received"}
          /\ pc' = IF simulator THEN "teardown2" ELSE "record2"
          /\ UNCHANGED <<cmdVars, client, token, session, host, simulator,
                         unresolved, lock>>
       \/ /\ pc \in {"record", "teardown"}
          /\ IF pc = "record" THEN Abort ELSE AbortInterrupted
          /\ IF written
             THEN /\ pc' = IF simulator THEN "teardown2" ELSE "record2"
                  /\ UNCHANGED unresolved
             ELSE EndCall
          /\ IF pc = "record" THEN lock' \in {lock, TRUE} ELSE UNCHANGED lock
       \/ /\ pc \in {"record2", "teardown2"}
          /\ IF pc = "record2" THEN Abort ELSE AbortInterrupted
          /\ EndCall
          /\ IF pc = "record2" THEN lock' \in {lock, TRUE} ELSE UNCHANGED lock
    /\ UNCHANGED <<written, alarm, controls>>

-----------------------------------------------------------------------------
(* The operator's readback and acknowledgment, with the incident_id the      *)
(* error has carried out of the call.                                      *)
Acknowledge ==
    /\ lock /\ pc = "idle"
    /\ lock' = FALSE /\ unresolved' = FALSE
    /\ UNCHANGED <<cmdVars, client, token, simulator, session, host, pc, written, alarm,
                   controls, interrupts>>

Next ==
    \/ Start
    \/ \E mode \in {"LAB", "READ_ONLY", "SIMULATOR"} : Connect(mode)
    \/ Disconnect \/ Close
    \/ BeginControl \/ Send
    \/ HostExecute \/ HostStep \/ HostThrows \/ HostDies \/ RequestFails
    \/ Receive \/ ExchangeFails \/ AcceptAnswer \/ DoubtAnswer
    \/ Record \/ Teardown \/ Interrupt
    \/ Acknowledge

Spec == Init /\ [][Next]_vars

(***************************************************************************)
(* The calling thread goes on: it writes, waits no longer than its         *)
(* deadline (ExchangeFails) and handles what it got.  Nothing is assumed   *)
(* of the host.                                                            *)
(***************************************************************************)
FairSpec == Spec /\ WF_vars(Send) /\ WF_vars(ExchangeFails) /\ WF_vars(AcceptAnswer)
                 /\ WF_vars(DoubtAnswer) /\ WF_vars(Record) /\ WF_vars(Teardown)

-----------------------------------------------------------------------------
TypeOK ==
    /\ CmdTypeOK
    /\ client \in {"new", "running", "broken", "closed"}
    /\ token \in BOOLEAN /\ simulator \in BOOLEAN
    /\ session \in {"none", "LAB", "READ_ONLY", "SIMULATOR"}
    /\ host \in {"up", "down"}
    /\ pc \in Places
    /\ written \in BOOLEAN /\ lock \in BOOLEAN /\ alarm \in BOOLEAN
    /\ unresolved \in BOOLEAN
    /\ controls \in 0..MaxControls /\ interrupts \in 0..MaxInterrupts

(***************************************************************************)
(* A LAB control that left the master and whose effect the caller does not *)
(* know has locked the DUT, until an operator acknowledges the incident,   *)
(* or the caller was told that the lock could not be verified.             *)
(***************************************************************************)
DoubtIsLocked == unresolved => lock \/ alarm

(***************************************************************************)
(* No control leaves the master while the effect of an earlier LAB control *)
(* is unresolved, except where the caller was told to stop: the gate       *)
(* (assert_clear and the token) and the teardown work together, across     *)
(* clients, reconnects and host deaths.                                    *)
(***************************************************************************)
NoBlindControl ==
    [][~transmitted /\ transmitted' /\ ~simulator => ~unresolved \/ alarm]_vars

(* Every control call ends, also when the host neither answers nor dies. *)
ControlReturns == pc # "idle" ~> pc = "idle"
=============================================================================
