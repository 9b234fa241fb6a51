--------------------------- MODULE CommandSupport ---------------------------
(***************************************************************************)
(* One state-changing DNP3 task inside the native host                     *)
(* (native/src/OpenDnp3CommandSupport.cpp).  The RPC thread submits a      *)
(* task to OpenDNP3 and waits for at most timeout_ms; OpenDNP3 reports on  *)
(* a thread of its own, in time, late or never.  What the RPC thread then  *)
(* says about the task decides whether control is locked, so it must never *)
(* be surer than the callbacks allow.                                      *)
(*                                                                         *)
(* The point results of a task are abstracted to what outcome() tells      *)
(* apart: all correlated and certain ("clean"), some status that asks for  *)
(* manual readback ("readback"), a point that was not asked for or is      *)
(* repeated ("unmatched"), and fewer points than were sent ("missing").    *)
(***************************************************************************)
EXTENDS Naturals

VARIABLES
    task,         \* OpenDNP3's task (external)
    op,           \* CommandOperation of the last task
    active,       \* the operation is still registered as Impl::active
    rpc,          \* the host's RPC thread
    reply,        \* its last answer
    transmitted,  \* history: frames of the last task have left the master
    answered      \* history: the outstation's clean answer reached complete()

cmdVars == <<task, op, active, rpc, reply, transmitted, answered>>

Completions == {"SUCCESS", "RESPONSE_TIMEOUT", "NO_COMMS"}
Answers == {"clean", "readback", "unmatched", "missing"}
Nothing == "nothing"

Operation == [started : BOOLEAN, cancelled : BOOLEAN, done : BOOLEAN,
              callback : Completions \cup {Nothing},
              completion : Completions \cup {Nothing},
              answer : Answers \cup {Nothing}]

Codes == {Nothing, "OK", "REFUSED", "ALREADY_EXECUTING", "INTERNAL_ERROR",
          "RESPONSE_TIMEOUT", "COMMAND_FAILED", "PROTOCOL_ERROR"}
Reply == [code : Codes, uncertain : BOOLEAN]

NoReply == [code |-> Nothing, uncertain |-> FALSE]

(* A CommandOperation as it is constructed. *)
NewOperation ==
    [started |-> FALSE, cancelled |-> FALSE, done |-> FALSE,
     callback |-> Nothing, completion |-> Nothing, answer |-> Nothing]

CmdTypeOK ==
    /\ task \in {"none", "queued", "started", "completed", "resulted", "dropped", "ended"}
    /\ op \in Operation
    /\ active \in BOOLEAN
    /\ rpc \in {"idle", "waiting", "clearing"}
    /\ reply \in Reply
    /\ transmitted \in BOOLEAN
    /\ answered \in BOOLEAN

CmdInit ==
    /\ task = "none"
    /\ op = [NewOperation EXCEPT !.done = TRUE]
    /\ active = FALSE
    /\ rpc = "idle"
    /\ reply = NoReply
    /\ transmitted = FALSE
    /\ answered = FALSE

(* The variables of a host process that has just started. *)
CmdReset ==
    /\ task' = "none"
    /\ op' = [NewOperation EXCEPT !.done = TRUE]
    /\ active' = FALSE
    /\ rpc' = "idle"
    /\ reply' = NoReply
    /\ transmitted' = FALSE
    /\ answered' = FALSE

-----------------------------------------------------------------------------
(* The RPC thread: Impl::execute.                                          *)

(* Answers before anything is submitted: an invalid or unauthorised         *)
(* request, a channel that is not open, no_response, a set that cannot be  *)
(* built.                                                                  *)
ExecuteRefused ==
    /\ rpc = "idle"
    /\ reply' = [code |-> "REFUSED", uncertain |-> FALSE]
    /\ UNCHANGED <<task, op, active, rpc, transmitted, answered>>

(* An earlier command timed out and has not been completed since. *)
ExecuteBusy ==
    /\ rpc = "idle"
    /\ active /\ ~op.done
    /\ reply' = [code |-> "ALREADY_EXECUTING", uncertain |-> TRUE]
    /\ UNCHANGED <<task, op, active, rpc, transmitted, answered>>

(* Defect: the check for a previous command is missing. *)
MayExecuteAlways == TRUE

(* The guard under which a new operation replaces the active one. *)
MayExecute == ~active \/ op.done

(* The operation becomes active and OpenDNP3 takes the task. *)
Execute ==
    /\ rpc = "idle"
    /\ MayExecute
    /\ op' = NewOperation
    /\ active' = TRUE
    /\ task' = "queued"
    /\ rpc' = "waiting"
    /\ reply' = NoReply
    /\ transmitted' = FALSE
    /\ answered' = FALSE

(* OpenDNP3 throws at the submission, which posts the task to its executor:   *)
(* no task is kept, but the answer vouches for nothing, so frames may be   *)
(* out.                                                                    *)
ExecuteThrows ==
    /\ rpc = "idle"
    /\ MayExecute
    /\ op' = [NewOperation EXCEPT !.cancelled = TRUE, !.done = TRUE,
                                  !.completion = "NO_COMMS"]
    /\ active' = FALSE
    /\ task' = "ended"
    /\ reply' = [code |-> "INTERNAL_ERROR", uncertain |-> TRUE]
    /\ transmitted' \in BOOLEAN
    /\ answered' = FALSE
    /\ UNCHANGED rpc

-----------------------------------------------------------------------------
(* OpenDNP3's callbacks, in the order IMasterTask makes them: OnStart when *)
(* the task runs, OnComplete and then the result callback when it ends,    *)
(* OnDestroyed with the last reference.  A task that never ran ends        *)
(* without OnStart, one of a master that shuts down ends with OnDestroyed. *)

(* mark_started; from now on frames may be out. *)
OnStart ==
    /\ task = "queued"
    /\ task' = "started"
    /\ transmitted' = TRUE
    /\ op' = [op EXCEPT !.started = TRUE]
    /\ UNCHANGED <<active, rpc, reply, answered>>

(* mark_task_complete: only noted, the operation is not done yet. *)
OnComplete(c) ==
    /\ task \in {"queued", "started"}
    /\ task = "queued" => c # "SUCCESS"
    /\ task' = "completed"
    /\ op' = [op EXCEPT !.callback = c]
    /\ UNCHANGED <<active, rpc, reply, transmitted, answered>>

(* CommandOperation::complete, unless the operation is done already. *)
Complete(o, c, a) ==
    IF o.done THEN o ELSE [o EXCEPT !.completion = c, !.answer = a, !.done = TRUE]

(* The result callback, with the completion OnComplete was given. *)
ResultCallback(a) ==
    /\ task = "completed"
    /\ task' = "resulted"
    /\ op' = Complete(op, op.callback, a)
    /\ answered' = (op.callback = "SUCCESS" /\ a = "clean")
    /\ UNCHANGED <<active, rpc, reply, transmitted>>

(* The scheduler of a master that shuts down drops its tasks. *)
TaskDropped ==
    /\ task \in {"queued", "started"}
    /\ task' = "dropped"
    /\ UNCHANGED <<op, active, rpc, reply, transmitted, answered>>

(* CommandOperation::mark_destroyed. *)
Destroyed(o) ==
    IF ~o.done /\ o.callback # Nothing
    THEN [o EXCEPT !.completion = o.callback, !.done = TRUE] ELSE o

(* The task goes, also when the result callback has thrown. *)
OnDestroyed ==
    /\ task \in {"completed", "resulted", "dropped"}
    /\ task' = "ended"
    /\ op' = Destroyed(op)
    /\ UNCHANGED <<active, rpc, reply, transmitted, answered>>

-----------------------------------------------------------------------------
(***************************************************************************)
(* CommandOperation::outcome.  A task that is not done is reported as      *)
(* uncertain; so is one that failed after it was started, one with a point *)
(* that needs manual readback and one whose points do not match.           *)
(***************************************************************************)
Failed(o) == o.completion # "SUCCESS" \/ o.cancelled

(* Defect: a failure after the start counts as certain. *)
ExecutionUncertainByPoints(o) == o.answer \in {"readback", "unmatched"}

ExecutionUncertain(o) ==
    (o.started /\ Failed(o)) \/ o.answer \in {"readback", "unmatched"}

Outcome(o) ==
    IF ~o.done
    THEN [code |-> "RESPONSE_TIMEOUT", uncertain |-> TRUE]
    ELSE IF Failed(o)
    THEN [code |-> IF o.completion = "RESPONSE_TIMEOUT"
                   THEN "RESPONSE_TIMEOUT" ELSE "COMMAND_FAILED",
          uncertain |-> ExecutionUncertain(o)]
    ELSE IF o.answer \in {"unmatched", "missing", Nothing}
    THEN [code |-> "PROTOCOL_ERROR", uncertain |-> TRUE]
    ELSE [code |-> "OK", uncertain |-> ExecutionUncertain(o)]

(* wait_for_completion returns, done or at the deadline, and outcome() is    *)
(* taken.                                                                  *)
Answer ==
    /\ rpc = "waiting"
    /\ rpc' = "clearing"
    /\ reply' = Outcome(op)
    /\ UNCHANGED <<task, op, active, transmitted, answered>>

(* The operation is locked again for is_done: a callback may have come in     *)
(* between.  A done operation is no longer active; the reply goes out.     *)
ClearIfActive ==
    /\ rpc = "clearing"
    /\ rpc' = "idle"
    /\ active' = ~op.done
    /\ UNCHANGED <<task, op, reply, transmitted, answered>>

(* cancel_active and the shutdown of the master that follows it, on         *)
(* disconnect and on shutdown of the host.                                 *)
CancelActive ==
    /\ rpc = "idle"
    /\ op' = IF active /\ ~op.done
             THEN [op EXCEPT !.cancelled = TRUE, !.completion = "NO_COMMS",
                             !.done = TRUE]
             ELSE op
    /\ active' = FALSE
    /\ task' = "ended"
    /\ UNCHANGED <<rpc, reply, transmitted, answered>>

Callback ==
    \/ OnStart
    \/ \E c \in Completions : OnComplete(c)
    \/ \E a \in Answers : ResultCallback(a)
    \/ TaskDropped
    \/ OnDestroyed

CmdNext ==
    \/ ExecuteRefused \/ ExecuteBusy \/ Execute \/ ExecuteThrows
    \/ Callback
    \/ Answer \/ ClearIfActive
    \/ CancelActive

CmdSpec == CmdInit /\ [][CmdNext]_cmdVars

-----------------------------------------------------------------------------
(* The client's reading of an answer: RESPONSE_TIMEOUT, or the flag.        *)
Certain(r) == r.code # "RESPONSE_TIMEOUT" /\ ~r.uncertain

(***************************************************************************)
(* A certain answer is true and stays true, whatever callbacks come later: *)
(* success means that the outstation answered for every point, a failure   *)
(* that no frame of the command has left, or ever will.                    *)
(***************************************************************************)
CertainAnswersAreTrue ==
    /\ reply.code = "OK" /\ Certain(reply) => answered
    /\ reply.code \in {"COMMAND_FAILED", "PROTOCOL_ERROR", "INTERNAL_ERROR"}
         /\ Certain(reply) => ~transmitted /\ task \notin {"queued", "started"}

(***************************************************************************)
(* A command is submitted only when the one before it can no longer be     *)
(* sent: a command whose wait has timed out blocks the next one            *)
(* (ALREADY_EXECUTING) until a callback or a disconnect has ended it.      *)
(***************************************************************************)
NoOverlap ==
    [][rpc = "idle" /\ rpc' = "waiting" => task \notin {"queued", "started"}]_cmdVars
=============================================================================
