------------------------- MODULE ControlPath_proofs -------------------------
(***************************************************************************)
(* Proofs about the control path.  First the host alone (CommandSupport):  *)
(* its answer about a command is never surer than OpenDNP3's callbacks     *)
(* allow, and a command whose wait timed out is never overtaken by the     *)
(* next one.  Then the whole (ControlPath): whatever the callbacks, the    *)
(* death of the host and one Ctrl+C do to a LAB control, the DUT is locked *)
(* before the call ends in doubt, and no later control leaves the master   *)
(* blindly, for any number of control calls and sessions.                  *)
(***************************************************************************)
EXTENDS ControlPath, TLAPS

Live == {"queued", "started"}

(* A finished operation has no live task; a forgotten one is finished. *)
OperationEnded ==
    /\ op.done => task \notin Live \cup {"completed"}
    /\ task = "completed" => op.callback # Nothing
    /\ ~active => op.done
    /\ ~op.done => op.completion = Nothing /\ op.answer = Nothing

(* What outcome() reads is what the callbacks have said so far. *)
WaitKnows ==
    rpc = "waiting" =>
        /\ transmitted => op.started
        /\ ~op.cancelled
        /\ op.done /\ op.completion = "SUCCESS" /\ op.answer = "clean" => answered

(* A certain answer about a submitted task leaves no task behind that could  *)
(* still be sent, or still report a result.                                *)
AnswerIsFinal ==
    reply.code \in {"OK", "COMMAND_FAILED", "PROTOCOL_ERROR", "INTERNAL_ERROR"}
       /\ Certain(reply) => task \notin Live \cup {"completed"}

(* The inductive invariant. *)
CmdInv ==
    /\ CmdTypeOK
    /\ OperationEnded
    /\ WaitKnows
    /\ AnswerIsFinal
    /\ CertainAnswersAreTrue

(* The initial state satisfies the invariant: no command, no answer. *)
LEMMA InitCmdInv == CmdInit => CmdInv
  <1> SUFFICES ASSUME CmdInit
               PROVE  CmdInv
    OBVIOUS
  <1>1. op = [started |-> FALSE, cancelled |-> FALSE, done |-> TRUE,
              callback |-> Nothing, completion |-> Nothing, answer |-> Nothing]
    BY DEF CmdInit, NewOperation
  <1>2. op \in Operation /\ op.done
    BY <1>1 DEF Operation
  <1>3. reply \in Reply /\ reply.code = Nothing
    BY DEF CmdInit, NoReply, Reply, Codes
  <1> QED
    BY <1>2, <1>3 DEF CmdInit, CmdInv, CmdTypeOK, OperationEnded, WaitKnows,
       AnswerIsFinal, CertainAnswersAreTrue, Certain, Nothing, Live

(* Every step of the RPC thread and of OpenDNP3 preserves the invariant. *)
LEMMA NextCmdInv == CmdInv /\ [CmdNext]_cmdVars => CmdInv'
  <1> SUFFICES ASSUME CmdInv, [CmdNext]_cmdVars
               PROVE  CmdInv'
    OBVIOUS
  <1> USE DEF CmdInv, CmdTypeOK, OperationEnded, WaitKnows, AnswerIsFinal,
              CertainAnswersAreTrue, Certain, NoReply, Reply, Codes, Nothing, Operation,
              Completions, Answers, Live
  <1>1. CASE ExecuteRefused
    BY <1>1 DEF ExecuteRefused
  <1>2. CASE ExecuteBusy
    BY <1>2 DEF ExecuteBusy
  <1>3. CASE Execute
    BY <1>3 DEF Execute, NewOperation
  <1>4. CASE ExecuteThrows
    BY <1>4 DEF ExecuteThrows, NewOperation
  <1>5. CASE Callback
    <2>1. CASE OnStart
      BY <2>1 DEF OnStart
    <2>2. ASSUME NEW c \in Completions, OnComplete(c)
          PROVE  CmdInv'
      BY <2>2 DEF OnComplete
    <2>3. ASSUME NEW a \in Answers, ResultCallback(a)
          PROVE  CmdInv'
      <3>1. ~op.done /\ task = "completed" /\ op.callback \in Completions
        BY <2>3 DEF ResultCallback
      <3>2. op' = [op EXCEPT !.completion = op.callback, !.answer = a, !.done = TRUE]
        BY <2>3, <3>1 DEF ResultCallback, Complete
      <3> QED
        BY <2>3, <3>1, <3>2 DEF ResultCallback
    <2>4. CASE TaskDropped
      BY <2>4 DEF TaskDropped
    <2>5. CASE OnDestroyed
      <3>1. CASE op' = op
        BY <2>5, <3>1 DEF OnDestroyed
      <3>2. CASE op' # op
        <4>1. /\ ~op.done /\ op.callback \in Completions /\ op.answer = Nothing
              /\ op' = [op EXCEPT !.completion = op.callback, !.done = TRUE]
          BY <2>5, <3>2 DEF OnDestroyed, Destroyed
        <4>2. op' \in Operation /\ op'.done /\ op'.answer = Nothing
                /\ op'.started = op.started /\ op'.cancelled = op.cancelled
          BY <4>1
        <4> QED
          BY <2>5, <4>1, <4>2 DEF OnDestroyed
      <3> QED
        BY <3>1, <3>2
    <2> QED
      BY <1>5, <2>1, <2>2, <2>3, <2>4, <2>5 DEF Callback
  <1>6. CASE Answer
    <2>1. /\ reply' = Outcome(op)
          /\ rpc = "waiting" /\ rpc' = "clearing"
          /\ UNCHANGED <<task, op, active, transmitted, answered>>
      BY <1>6 DEF Answer
    <2>2. Outcome(op) \in Reply
      BY DEF Outcome, ExecutionUncertain, Failed
    <2>3. Certain(Outcome(op)) => op.done
      BY DEF Outcome
    <2>4. Certain(Outcome(op)) /\ Outcome(op).code = "OK" =>
             op.completion = "SUCCESS" /\ op.answer = "clean"
      BY DEF Outcome, ExecutionUncertain, Failed
    <2>5. Certain(Outcome(op)) /\ Outcome(op).code # "OK" => ~op.started
      BY <2>3 DEF Outcome, ExecutionUncertain, Failed
    <2> QED
      BY <2>1, <2>2, <2>3, <2>4, <2>5
  <1>7. CASE ClearIfActive
    BY <1>7 DEF ClearIfActive
  <1>8. CASE CancelActive
    BY <1>8 DEF CancelActive
  <1>9. CASE UNCHANGED cmdVars
    BY <1>9 DEF cmdVars
  <1> QED
    BY <1>1, <1>2, <1>3, <1>4, <1>5, <1>6, <1>7, <1>8, <1>9 DEF CmdNext

(* The inductive invariant holds in every reachable state of the host. *)
THEOREM CommandInvariant == CmdSpec => []CmdInv
  BY InitCmdInv, NextCmdInv, PTL DEF CmdSpec

(***************************************************************************)
(* Whatever the order and the timing of OpenDNP3's callbacks, an answer    *)
(* the client may take as certain is true, now and later: outcome() never  *)
(* reports a definite success without the outstation's answer, nor a       *)
(* definite failure of a command that was or may still be sent.            *)
(***************************************************************************)
THEOREM CertainAnswers == CmdSpec => []CertainAnswersAreTrue
  BY CommandInvariant, PTL DEF CmdInv

(***************************************************************************)
(* The ALREADY_EXECUTING guard of execute works: no command is submitted   *)
(* while an earlier one may still be sent.                                 *)
(***************************************************************************)
THEOREM CommandsDoNotOverlap == CmdSpec => NoOverlap
  <1>1. CmdInv /\ [CmdNext]_cmdVars =>
           [rpc = "idle" /\ rpc' = "waiting" => task \notin {"queued", "started"}]_cmdVars
    <2> SUFFICES ASSUME CmdInv, CmdNext, rpc = "idle", rpc' = "waiting"
                 PROVE  task \notin {"queued", "started"}
      OBVIOUS
    <2>1. Execute
      BY DEF CmdNext, ExecuteRefused, ExecuteBusy, ExecuteThrows, Callback, OnStart,
             ResultCallback, TaskDropped, OnComplete, OnDestroyed, Answer,
             ClearIfActive, CancelActive
    <2> QED
      BY <2>1 DEF Execute, MayExecute, CmdInv, OperationEnded, Live
  <1> QED
    BY <1>1, CommandInvariant, PTL DEF CmdSpec, NoOverlap

----------------------------------------------------------------------------
(* No task of the host can be sent any more, or still report a result.     *)
Quiet == task \notin Live \cup {"completed"}

(* No command of the present call has reached OpenDNP3.                    *)
NotSubmitted == ~transmitted /\ Quiet

(* Between two calls, and before the request is written, the host has      *)
(* nothing to do; a request it has not taken yet has no effect either.     *)
HostKnown ==
    /\ pc = "idle" => rpc = "idle" /\ Quiet
    /\ pc = "checked" => reply = NoReply /\ ~written
    /\ pc = "received" => rpc = "idle" /\ reply # NoReply
    /\ pc \in {"sent", "received"} => written
    /\ pc # "idle" /\ ~written => rpc = "idle" /\ NotSubmitted
    /\ Pending => NotSubmitted
    /\ rpc = "clearing" => reply # NoReply
    /\ host = "down" => rpc = "idle" /\ Quiet

(* A refusal means that nothing was submitted; "busy" is always uncertain. *)
AnswerKnown ==
    /\ pc \in {"sent", "received"} /\ reply.code = "REFUSED" => NotSubmitted
    /\ reply.code = "ALREADY_EXECUTING" => reply.uncertain

(* The lock comes first: a call that has begun its teardown has recorded   *)
(* the incident, and one that has begun at all found none unresolved.      *)
LockFirst ==
    /\ pc \in {"teardown", "teardown2"} /\ ~simulator => lock \/ alarm
    /\ pc # "idle" /\ ~simulator => ~unresolved \/ alarm
    /\ pc \in {"record2", "teardown2"} => interrupts # 0

(* What holds until a second interrupt.                                    *)
CallInv == CmdInv /\ HostKnown /\ AnswerKnown /\ LockFirst /\ DoubtIsLocked

(* The inductive invariant.                                                *)
ControlInv == TypeOK /\ (interrupts <= 1 => CallInv)

----------------------------------------------------------------------------
(* Types.                                                                  *)

(* What outcome() returns is a reply.                                      *)
LEMMA OutcomeType == ASSUME NEW o \in Operation PROVE Outcome(o) \in Reply
  BY DEF Outcome, ExecutionUncertain, Failed, Reply, Codes, Operation, Answers, Completions,
         Nothing

(* So are the replies and the operation a host starts with.                *)
LEMMA NewTypes ==
    /\ NoReply \in Reply /\ NewOperation \in Operation
    /\ [NewOperation EXCEPT !.done = TRUE] \in Operation
    /\ [NewOperation EXCEPT !.done = TRUE].done
  BY DEF NoReply, Reply, Codes, NewOperation, Operation, Nothing

(* The steps of the host keep the types of its variables.                  *)
LEMMA CmdTypes == CmdTypeOK /\ [CmdNext]_cmdVars => CmdTypeOK'
  <1> SUFFICES ASSUME CmdTypeOK, [CmdNext]_cmdVars
               PROVE  CmdTypeOK'
    OBVIOUS
  <1> USE DEF CmdTypeOK, Operation, Completions, Answers, Nothing, Reply, Codes, NoReply
  <1>1. CASE ExecuteRefused
    BY <1>1 DEF ExecuteRefused
  <1>2. CASE ExecuteBusy
    BY <1>2 DEF ExecuteBusy
  <1>3. CASE Execute
    BY <1>3 DEF Execute, NewOperation
  <1>4. CASE ExecuteThrows
    BY <1>4 DEF ExecuteThrows, NewOperation
  <1>5. CASE OnStart
    BY <1>5 DEF OnStart
  <1>6. ASSUME NEW c \in Completions, OnComplete(c)
        PROVE  CmdTypeOK'
    BY <1>6 DEF OnComplete
  <1>7. ASSUME NEW a \in Answers, ResultCallback(a)
        PROVE  CmdTypeOK'
    <2>1. op' \in Operation
      BY <1>7 DEF ResultCallback, Complete
    <2>2. answered' \in BOOLEAN
      BY <1>7, Zenon DEF ResultCallback
    <2> QED
      BY <1>7, <2>1, <2>2 DEF ResultCallback
  <1>8. CASE TaskDropped
    BY <1>8 DEF TaskDropped
  <1>9. CASE OnDestroyed
    BY <1>9 DEF OnDestroyed, Destroyed
  <1>10. CASE Answer
    BY <1>10, OutcomeType DEF Answer
  <1>11. CASE ClearIfActive
    BY <1>11 DEF ClearIfActive
  <1>12. CASE CancelActive
    BY <1>12 DEF CancelActive
  <1>13. CASE UNCHANGED cmdVars
    BY <1>13 DEF cmdVars
  <1> QED
    BY <1>1, <1>2, <1>3, <1>4, <1>5, <1>6, <1>7, <1>8, <1>9, <1>10, <1>11, <1>12, <1>13
       DEF CmdNext, Callback

(* The steps of the control path keep the types of all variables.          *)
LEMMA ControlTypes == TypeOK /\ [Next]_vars => TypeOK'
  <1> SUFFICES ASSUME TypeOK, [Next]_vars
               PROVE  TypeOK'
    OBVIOUS
  <1>n. CmdNext \/ UNCHANGED cmdVars => CmdTypeOK'
    BY CmdTypes DEF TypeOK
  <1>e. EndCall => pc' = "idle" /\ unresolved' \in BOOLEAN
    BY Zenon DEF EndCall
  <1>z. CmdReset => CmdTypeOK'
    BY NewTypes DEF CmdReset, CmdTypeOK
  <1>a. Abort => /\ CmdTypeOK' /\ client' = "broken" /\ token' = FALSE /\ simulator' = simulator
                 /\ session' = "none" /\ host' = "down"
    BY DEF Abort, TypeOK, CmdTypeOK
  <1>b. AbortInterrupted => /\ CmdTypeOK' /\ token' = FALSE
                            /\ UNCHANGED <<client, simulator, session, host>>
    BY <1>n DEF AbortInterrupted
  <1> USE BoundsAssumption DEF TypeOK, Places
  <1>1. CASE Start
    BY <1>1, <1>z DEF Start
  <1>2. ASSUME NEW mode \in {"LAB", "READ_ONLY", "SIMULATOR"}, Connect(mode)
        PROVE  TypeOK'
    <2>1. token' = TRUE \/ token' = FALSE
      BY <1>2 DEF Connect
    <2>2. simulator' = TRUE \/ simulator' = FALSE
      BY <1>2 DEF Connect
    <2> QED
      BY <1>2, <2>1, <2>2, <1>n DEF Connect
  <1>3. CASE Disconnect
    BY <1>3, <1>n DEF Disconnect, CmdNext
  <1>4. CASE Close
    BY <1>4, <1>z DEF Close
  <1>5. CASE BeginControl
    <2>1. controls' \in 0..MaxControls
      BY <1>5 DEF BeginControl
    <2>2. CmdTypeOK'
      BY <1>5, NewTypes DEF BeginControl, CmdTypeOK
    <2> QED
      BY <1>5, <2>1, <2>2 DEF BeginControl
  <1>6. CASE Send
    BY <1>6, <1>n DEF Send
  <1>7. CASE HostExecute
    BY <1>7, <1>n DEF HostExecute, clientVars, CmdNext
  <1>8. CASE HostStep
    <2>1. unresolved' \in BOOLEAN
      BY <1>8, Zenon DEF HostStep
    <2> QED
      BY <1>8, <2>1, <1>n DEF HostStep, CmdNext
  <1>9. CASE HostThrows
    BY <1>9 DEF HostThrows, clientVars, CmdTypeOK, Reply, Codes
  <1>10. CASE HostDies
    BY <1>10 DEF HostDies, CmdTypeOK, NoReply, Reply, Codes, Nothing
  <1>11. CASE RequestFails
    BY <1>11, <1>a DEF RequestFails
  <1>12. CASE Receive
    BY <1>12, <1>n DEF Receive
  <1>13. CASE ExchangeFails
    BY <1>13, <1>a DEF ExchangeFails
  <1>14. CASE AcceptAnswer
    BY <1>14, <1>n, <1>e DEF AcceptAnswer
  <1>15. CASE DoubtAnswer
    BY <1>15, <1>n DEF DoubtAnswer
  <1>16. CASE Record
    BY <1>16, <1>n DEF Record
  <1>17. CASE Teardown
    BY <1>17, <1>a, <1>e DEF Teardown
  <1>18. CASE Interrupt
    <2>1. interrupts' \in 0..MaxInterrupts
      BY <1>18 DEF Interrupt
    <2>2. /\ CmdTypeOK' /\ client' \in {"new", "running", "broken", "closed"}
          /\ token' \in BOOLEAN /\ simulator' \in BOOLEAN
          /\ session' \in {"none", "LAB", "READ_ONLY", "SIMULATOR"} /\ host' \in {"up", "down"}
      BY <1>18, <1>n, <1>a, <1>b DEF Interrupt
    <2>3. pc' \in Places /\ unresolved' \in BOOLEAN
      BY <1>18, <1>e DEF Interrupt
    <2>4. lock' \in BOOLEAN
      BY <1>18 DEF Interrupt
    <2> QED
      BY <1>18, <2>1, <2>2, <2>3, <2>4 DEF Interrupt
  <1>19. CASE Acknowledge
    BY <1>19, <1>n DEF Acknowledge
  <1>20. CASE UNCHANGED vars
    BY <1>20, <1>n DEF vars, clientVars
  <1> QED
    BY <1>1, <1>2, <1>3, <1>4, <1>5, <1>6, <1>7, <1>8, <1>9, <1>10, <1>11, <1>12, <1>13, <1>14,
       <1>15, <1>16, <1>17, <1>18, <1>19, <1>20 DEF Next

----------------------------------------------------------------------------
(* The invariant of the host inside the control path.                      *)

(* _abort_process leaves no task behind, whatever it interrupts.           *)
LEMMA AbortKeeps == CmdInv /\ Abort => CmdInv' /\ Quiet' /\ rpc' = "idle"
  <1> SUFFICES ASSUME CmdInv, Abort
               PROVE  CmdInv' /\ Quiet' /\ rpc' = "idle"
    OBVIOUS
  <1> USE DEF Abort, CmdInv, Live
  <1>1. CmdTypeOK'
    BY DEF CmdTypeOK
  <1>2. OperationEnded' /\ WaitKnows'
    BY DEF OperationEnded, WaitKnows
  <1>3. AnswerIsFinal' /\ CertainAnswersAreTrue'
    BY DEF AnswerIsFinal, CertainAnswersAreTrue, Certain
  <1> QED
    BY <1>1, <1>2, <1>3 DEF Quiet

(* A host that has just started satisfies it.                              *)
LEMMA ResetKeeps == CmdReset => CmdInv' /\ Quiet' /\ rpc' = "idle"
  <1> SUFFICES ASSUME CmdReset
               PROVE  CmdInv' /\ Quiet' /\ rpc' = "idle"
    OBVIOUS
  <1>1. CmdTypeOK'
    BY NewTypes DEF CmdReset, CmdTypeOK
  <1>2. OperationEnded' /\ WaitKnows'
    BY NewTypes DEF CmdReset, OperationEnded, WaitKnows, Live
  <1>3. reply'.code = Nothing
    BY DEF CmdReset, NoReply
  <1>4. AnswerIsFinal' /\ CertainAnswersAreTrue'
    BY <1>3 DEF AnswerIsFinal, CertainAnswersAreTrue, Certain, Nothing
  <1> QED
    BY <1>1, <1>2, <1>4 DEF CmdInv, Quiet, Live, CmdReset

(* Every step of the control path preserves the host's invariant, up to a  *)
(* second interrupt and as long as main.cpp does not answer for an         *)
(* exception that dispatch threw after a submission.                       *)
LEMMA HostInv ==
  ASSUME TypeOK, CallInv, [Next]_vars, ~HostMayThrow
  PROVE  CmdInv'
  <1>n. CmdNext \/ UNCHANGED cmdVars => CmdInv'
    BY NextCmdInv DEF CallInv
  <1>a. Abort => CmdInv'
    BY AbortKeeps DEF CallInv
  <1>1. CASE Start
    BY <1>1, ResetKeeps DEF Start
  <1>2. ASSUME NEW mode \in {"LAB", "READ_ONLY", "SIMULATOR"}, Connect(mode)
        PROVE  CmdInv'
    BY <1>2, <1>n DEF Connect
  <1>3. CASE Disconnect
    BY <1>3, <1>n DEF Disconnect, CmdNext
  <1>4. CASE Close
    BY <1>4, ResetKeeps DEF Close
  <1>5. CASE BeginControl
    <2>1. CmdInv /\ rpc = "idle"
      BY <1>5 DEF BeginControl, CallInv, HostKnown
    <2>2. CmdTypeOK'
      BY <1>5, <2>1, NewTypes DEF BeginControl, CmdInv, CmdTypeOK
    <2>3. OperationEnded' /\ WaitKnows'
      BY <1>5, <2>1 DEF BeginControl, CmdInv, OperationEnded, WaitKnows
    <2>4. reply'.code = Nothing
      BY <1>5 DEF BeginControl, NoReply
    <2> QED
      BY <2>2, <2>3, <2>4 DEF CmdInv, AnswerIsFinal, CertainAnswersAreTrue, Nothing
  <1>6. CASE Send
    BY <1>6, <1>n DEF Send
  <1>7. CASE HostExecute
    BY <1>7, <1>n DEF HostExecute, CmdNext
  <1>8. CASE HostStep
    BY <1>8, <1>n DEF HostStep, CmdNext
  <1>9. CASE HostThrows
    <2>1. Pending /\ NotSubmitted /\ CmdInv
      BY <1>9 DEF HostThrows, CallInv, HostKnown
    <2>2. CmdTypeOK'
      BY <1>9, <2>1 DEF HostThrows, CmdInv, CmdTypeOK, Reply, Codes
    <2>3. OperationEnded' /\ WaitKnows'
      BY <1>9, <2>1 DEF HostThrows, CmdInv, OperationEnded, WaitKnows
    <2>4. AnswerIsFinal' /\ CertainAnswersAreTrue'
      BY <1>9, <2>1 DEF HostThrows, AnswerIsFinal, CertainAnswersAreTrue, NotSubmitted, Quiet, Live
    <2> QED
      BY <2>2, <2>3, <2>4 DEF CmdInv
  <1>10. CASE HostDies
    <2>1. CmdTypeOK'
      BY <1>10, NewTypes DEF HostDies, TypeOK, CmdTypeOK
    <2>2. OperationEnded' /\ WaitKnows'
      BY <1>10 DEF HostDies, CallInv, CmdInv, OperationEnded, WaitKnows, Live
    <2>3. AnswerIsFinal'
      BY <1>10 DEF HostDies, AnswerIsFinal, Live
    <2>4. CertainAnswersAreTrue'
      BY <1>10 DEF HostDies, CallInv, CmdInv, CertainAnswersAreTrue, Certain, NoReply, Nothing
    <2> QED
      BY <2>1, <2>2, <2>3, <2>4 DEF CmdInv
  <1>11. CASE RequestFails
    BY <1>11, <1>a DEF RequestFails
  <1>12. CASE Receive
    BY <1>12, <1>n DEF Receive
  <1>13. CASE ExchangeFails
    BY <1>13, <1>a DEF ExchangeFails
  <1>14. CASE AcceptAnswer
    BY <1>14, <1>n DEF AcceptAnswer
  <1>15. CASE DoubtAnswer
    BY <1>15, <1>n DEF DoubtAnswer
  <1>16. CASE Record
    BY <1>16, <1>n DEF Record
  <1>17. CASE Teardown
    BY <1>17, <1>a DEF Teardown
  <1>18. CASE Interrupt
    BY <1>18, <1>n, <1>a DEF Interrupt, AbortInterrupted
  <1>19. CASE Acknowledge
    BY <1>19, <1>n DEF Acknowledge
  <1>20. CASE UNCHANGED vars
    BY <1>20, <1>n DEF vars
  <1> QED
    BY <1>1, <1>2, <1>3, <1>4, <1>5, <1>6, <1>7, <1>8, <1>9, <1>10, <1>11, <1>12, <1>13, <1>14,
       <1>15, <1>16, <1>17, <1>18, <1>19, <1>20 DEF Next

----------------------------------------------------------------------------
(* The invariant of the control call.                                      *)

(* An answer the caller may take for certain leaves nothing in doubt: the  *)
(* command was answered for or never sent, and its task is over.           *)
LEMMA CertainIsResolved ==
  ASSUME TypeOK, CallInv, pc = "received", Certain(reply)
  PROVE  ~(transmitted /\ ~answered) /\ Quiet
  <1>1. reply \in Reply
    BY DEF TypeOK, CmdTypeOK
  <1>2. reply.code # Nothing
    BY <1>1 DEF Reply, Certain, NoReply, CallInv, HostKnown
  <1>3. reply.code \in {"OK", "REFUSED", "COMMAND_FAILED", "PROTOCOL_ERROR", "INTERNAL_ERROR"}
    BY <1>1, <1>2 DEF Reply, Codes, Certain, CallInv, AnswerKnown
  <1>4. CASE reply.code = "REFUSED"
    BY <1>4 DEF CallInv, AnswerKnown, NotSubmitted
  <1>5. CASE reply.code # "REFUSED"
    BY <1>3, <1>5 DEF CallInv, CmdInv, AnswerIsFinal, CertainAnswersAreTrue, Quiet
  <1> QED
    BY <1>4, <1>5

(* Every step preserves what is known of the host and of its answer.       *)
LEMMA HostKnownStep ==
  ASSUME TypeOK, CallInv, [Next]_vars, ~HostMayThrow, interrupts' <= 1
  PROVE  HostKnown' /\ AnswerKnown'
  <1> USE DEF CallInv, HostKnown, AnswerKnown
  <1>a. Abort => /\ Quiet' /\ rpc' = "idle" /\ host' = "down"
                 /\ UNCHANGED <<reply, transmitted>>
    BY AbortKeeps DEF Abort
  <1>q. UNCHANGED cmdVars => /\ Quiet' = Quiet /\ NotSubmitted' = NotSubmitted
                             /\ UNCHANGED <<rpc, reply>>
    BY DEF cmdVars, Quiet, NotSubmitted
  <1>r. NoReply.code = "nothing" /\ reply \in Reply
    BY DEF NoReply, Nothing, TypeOK, CmdTypeOK
  <1>1. CASE Start
    <2>1. CmdReset /\ pc = "idle" /\ pc' = "idle"
      BY <1>1 DEF Start
    <2>2. reply' = NoReply
      BY <2>1 DEF CmdReset
    <2> QED
      BY <2>1, <2>2, <1>r, ResetKeeps DEF Pending
  <1>2. ASSUME NEW mode \in {"LAB", "READ_ONLY", "SIMULATOR"}, Connect(mode)
        PROVE  HostKnown' /\ AnswerKnown'
    BY <1>2, <1>q DEF Connect, Pending
  <1>3. CASE Disconnect
    BY <1>3 DEF Disconnect, CancelActive, Pending, Quiet, Live
  <1>4. CASE Close
    <2>1. CmdReset /\ pc = "idle" /\ pc' = "idle"
      BY <1>4 DEF Close
    <2>2. reply' = NoReply
      BY <2>1 DEF CmdReset
    <2> QED
      BY <2>1, <2>2, <1>r, ResetKeeps DEF Pending
  <1>5. CASE BeginControl
    <2>1. Quiet' /\ ~transmitted' /\ rpc' = "idle" /\ reply' = NoReply
      BY <1>5 DEF BeginControl, Quiet
    <2> QED
      BY <1>5, <2>1, <1>r DEF BeginControl, Pending, NotSubmitted
  <1>6. CASE Send
    BY <1>6, <1>q, <1>r DEF Send, Pending
  <1>7. CASE HostExecute
    <2>1. NotSubmitted /\ pc = "sent" /\ host = "up" /\ written
      BY <1>7 DEF HostExecute, Pending
    <2>2. CASE ExecuteRefused
      BY <1>7, <2>1, <2>2 DEF HostExecute, ExecuteRefused, clientVars, NotSubmitted, Quiet,
         Pending, NoReply, Nothing
    <2>3. CASE ExecuteBusy
      BY <1>7, <2>1, <2>3 DEF HostExecute, ExecuteBusy, clientVars, Pending, NoReply, Nothing
    <2>4. CASE Execute
      BY <1>7, <2>1, <2>4, <1>r DEF HostExecute, Execute, clientVars, Pending
    <2>5. CASE ExecuteThrows
      BY <1>7, <2>1, <2>5 DEF HostExecute, ExecuteThrows, clientVars, Pending, NoReply, Nothing
    <2> QED
      BY <1>7, <2>2, <2>3, <2>4, <2>5 DEF HostExecute
  <1>8. CASE HostStep
    <2>1. /\ UNCHANGED <<host, pc, written>> /\ host = "up"
          /\ Callback \/ Answer \/ ClearIfActive
      BY <1>8 DEF HostStep
    <2>2. CASE Callback
      <3>1. UNCHANGED <<rpc, reply>>
        BY <2>2 DEF Callback, OnStart, OnComplete, ResultCallback, TaskDropped, OnDestroyed
      <3>2. Quiet => Quiet' /\ transmitted' = transmitted
        BY <2>2 DEF Callback, OnStart, OnComplete, ResultCallback, TaskDropped, OnDestroyed,
           Quiet, Live
      <3> QED
        BY <2>1, <3>1, <3>2 DEF Pending, NotSubmitted
    <2>3. CASE Answer
      <3>1. rpc = "waiting" /\ rpc' = "clearing" /\ reply' = Outcome(op) /\ pc = pc'
        BY <2>1, <2>3 DEF Answer
      <3>2. Outcome(op).code \notin {"nothing", "REFUSED", "ALREADY_EXECUTING"}
        BY DEF Outcome
      <3>3. pc \notin {"idle", "checked", "received"} /\ written
        BY <3>1
      <3> QED
        BY <2>1, <3>1, <3>2, <3>3, <1>r DEF Pending
    <2>4. CASE ClearIfActive
      <3>1. /\ rpc = "clearing" /\ rpc' = "idle" /\ UNCHANGED <<task, reply, transmitted>>
        BY <2>4 DEF ClearIfActive
      <3>2. pc \notin {"idle", "checked", "received"} /\ written
        BY <3>1
      <3> QED
        BY <2>1, <3>1, <3>2 DEF Pending, NotSubmitted, Quiet
    <2> QED
      BY <2>1, <2>2, <2>3, <2>4
  <1>9. CASE HostThrows
    <2>1. pc = "sent" /\ host = "up" /\ written
      BY <1>9 DEF HostThrows
    <2> QED
      BY <1>9, <2>1 DEF HostThrows, clientVars, Pending, NoReply, Nothing
  <1>10. CASE HostDies
    BY <1>10, <1>r DEF HostDies, Pending, Quiet, NotSubmitted, Live
  <1>11. CASE RequestFails
    BY <1>11, <1>a DEF RequestFails, Pending
  <1>12. CASE Receive
    BY <1>12, <1>q DEF Receive, Pending
  <1>13. CASE ExchangeFails
    BY <1>13, <1>a DEF ExchangeFails, Pending, NotSubmitted
  <1>14. CASE AcceptAnswer
    BY <1>14, <1>q, CertainIsResolved DEF AcceptAnswer, Classify, EndCall, Pending
  <1>15. CASE DoubtAnswer
    BY <1>15, <1>q DEF DoubtAnswer, Pending
  <1>16. CASE Record
    BY <1>16, <1>q DEF Record, Pending
  <1>17. CASE Teardown
    BY <1>17, <1>a DEF Teardown, EndCall, Pending
  <1>18. CASE Interrupt
    <2>1. interrupts = 0
      BY <1>18, BoundsAssumption DEF Interrupt, TypeOK
    <2>2. pc \notin {"record2", "teardown2"} /\ UNCHANGED written
      BY <1>18, <2>1 DEF LockFirst, Interrupt
    <2>3. CASE pc = "checked"
      BY <1>18, <2>3, <1>q DEF Interrupt, EndCall, Pending, NotSubmitted
    <2>4. CASE pc \in {"sent", "received"}
      BY <1>18, <2>4, <1>q DEF Interrupt, Pending
    <2>5. CASE pc = "record"
      BY <1>18, <2>5, <1>a DEF Interrupt, EndCall, Pending, NotSubmitted
    <2>6. CASE pc = "teardown"
      BY <1>18, <2>6, <1>q DEF Interrupt, AbortInterrupted, EndCall, Pending, NotSubmitted
    <2> QED
      BY <1>18, <2>2, <2>3, <2>4, <2>5, <2>6 DEF Interrupt
  <1>19. CASE Acknowledge
    BY <1>19, <1>q DEF Acknowledge, Pending
  <1>20. CASE UNCHANGED vars
    BY <1>20, <1>q DEF vars, clientVars, Pending
  <1> QED
    BY <1>1, <1>2, <1>3, <1>4, <1>5, <1>6, <1>7, <1>8, <1>9, <1>10, <1>11, <1>12, <1>13, <1>14,
       <1>15, <1>16, <1>17, <1>18, <1>19, <1>20 DEF Next

(* Every step keeps the order of lock and teardown, and the doubt locked.  *)
LEMMA LockStep ==
  ASSUME TypeOK, CallInv, [Next]_vars, ~HostMayThrow, interrupts' <= 1
  PROVE  LockFirst' /\ DoubtIsLocked'
  <1> USE DEF CallInv, LockFirst, DoubtIsLocked, TypeOK
  <1>1. CASE Start
    BY <1>1 DEF Start
  <1>2. ASSUME NEW mode \in {"LAB", "READ_ONLY", "SIMULATOR"}, Connect(mode)
        PROVE  LockFirst' /\ DoubtIsLocked'
    BY <1>2 DEF Connect
  <1>3. CASE Disconnect
    BY <1>3 DEF Disconnect
  <1>4. CASE Close
    BY <1>4 DEF Close
  <1>5. CASE BeginControl
    BY <1>5 DEF BeginControl
  <1>6. CASE Send
    BY <1>6 DEF Send
  <1>7. CASE HostExecute
    BY <1>7 DEF HostExecute, clientVars
  <1>8. CASE HostStep
    <2>1. pc = "idle" => transmitted' = transmitted
      BY <1>8 DEF HostStep, Callback, OnStart, OnComplete, ResultCallback, TaskDropped,
         OnDestroyed, Answer, ClearIfActive, HostKnown, Quiet, Live
    <2>2. unresolved' = unresolved
      BY <1>8, <2>1 DEF HostStep
    <2> QED
      BY <1>8, <2>2 DEF HostStep
  <1>9. CASE HostThrows
    BY <1>9 DEF HostThrows, clientVars
  <1>10. CASE HostDies
    BY <1>10 DEF HostDies
  <1>11. CASE RequestFails
    BY <1>11 DEF RequestFails, Abort
  <1>12. CASE Receive
    BY <1>12 DEF Receive
  <1>13. CASE ExchangeFails
    BY <1>13 DEF ExchangeFails, Abort
  <1>14. CASE AcceptAnswer
    <2>1. unresolved' = unresolved
      BY <1>14, CertainIsResolved DEF AcceptAnswer, Classify, EndCall
    <2> QED
      BY <1>14, <2>1 DEF AcceptAnswer, EndCall
  <1>15. CASE DoubtAnswer
    BY <1>15 DEF DoubtAnswer
  <1>16. CASE Record
    BY <1>16 DEF Record
  <1>17. CASE Teardown
    <2>1. pc' = "idle" /\ UNCHANGED <<simulator, lock, alarm>>
      BY <1>17 DEF Teardown, Abort, EndCall
    <2>2. unresolved' => unresolved \/ ~simulator
      BY <1>17 DEF Teardown, EndCall
    <2> QED
      BY <1>17, <2>1, <2>2 DEF Teardown
  <1>18. CASE Interrupt
    <2>0. interrupts = 0 /\ interrupts' # 0
      BY <1>18, BoundsAssumption DEF Interrupt
    <2>1. UNCHANGED <<simulator, written, alarm>>
      BY <1>18 DEF Interrupt, Abort, AbortInterrupted
    <2>2. pc \notin {"record2", "teardown2"}
      BY <2>0
    <2>3. lock => lock'
      BY <1>18, <2>2 DEF Interrupt
    <2>4. CASE pc \in {"sent", "received"} \/ (pc \in {"record", "teardown"} /\ written)
      <3>1. pc' \in {"teardown2", "record2"} /\ unresolved' = unresolved
        BY <1>18, <2>4 DEF Interrupt
      <3>2. pc' = "teardown2" => simulator
        BY <1>18, <2>4 DEF Interrupt
      <3> QED
        BY <2>0, <2>1, <2>3, <2>4, <3>1, <3>2
    <2>5. CASE pc = "checked" \/ (pc \in {"record", "teardown"} /\ ~written)
      <3>1. EndCall
        BY <1>18, <2>5 DEF Interrupt
      <3>2. ~transmitted
        BY <2>5 DEF HostKnown, NotSubmitted
      <3>3. pc' = "idle" /\ unresolved' = unresolved
        BY <3>1, <3>2 DEF EndCall
      <3> QED
        BY <2>1, <2>3, <3>3
    <2> QED
      BY <1>18, <2>2, <2>4, <2>5 DEF Interrupt
  <1>19. CASE Acknowledge
    BY <1>19 DEF Acknowledge
  <1>20. CASE UNCHANGED vars
    BY <1>20 DEF vars, clientVars
  <1> QED
    BY <1>1, <1>2, <1>3, <1>4, <1>5, <1>6, <1>7, <1>8, <1>9, <1>10, <1>11, <1>12, <1>13, <1>14,
       <1>15, <1>16, <1>17, <1>18, <1>19, <1>20 DEF Next

----------------------------------------------------------------------------
(* The theorems.                                                           *)

(* The invariant holds at the start, when no control was ever sent.        *)
LEMMA InitControlInv == Init => ControlInv
  <1> SUFFICES ASSUME Init
               PROVE  ControlInv
    OBVIOUS
  <1>1. CmdInv
    BY InitCmdInv DEF Init
  <1>2. reply.code = "nothing"
    BY DEF Init, CmdInit, NoReply, Nothing
  <1>3. TypeOK
    <2>1. 0 \in 0..MaxControls /\ 0 \in 0..MaxInterrupts
      BY BoundsAssumption
    <2> QED
      BY <1>1, <2>1 DEF Init, CmdInv, TypeOK, Places
  <1>4. HostKnown
    BY DEF Init, CmdInit, HostKnown, Quiet, Live, Pending
  <1>5. AnswerKnown /\ LockFirst /\ DoubtIsLocked
    BY <1>2 DEF Init, AnswerKnown, LockFirst, DoubtIsLocked
  <1> QED
    BY <1>1, <1>3, <1>4, <1>5 DEF ControlInv, CallInv

(* Every step preserves the invariant.                                     *)
LEMMA NextControlInv ==
  ASSUME ~HostMayThrow
  PROVE  ControlInv /\ [Next]_vars => ControlInv'
  <1> SUFFICES ASSUME ControlInv, [Next]_vars
               PROVE  ControlInv'
    OBVIOUS
  <1>1. TypeOK /\ TypeOK'
    BY ControlTypes DEF ControlInv
  <1>2. ASSUME interrupts' <= 1
        PROVE  CallInv'
    <2>1. interrupts <= interrupts'
      <3>1. interrupts \in Nat
        BY <1>1, BoundsAssumption DEF TypeOK
      <3>2. CASE Interrupt
        BY <3>1, <3>2 DEF Interrupt
      <3>3. ~Interrupt => interrupts' = interrupts
        BY DEF Next, vars, clientVars, Start, Connect, Disconnect, Close,
           BeginControl, Send, HostExecute, HostStep, HostThrows, HostDies, RequestFails, Receive,
           ExchangeFails, AcceptAnswer, DoubtAnswer, Record, Teardown, Acknowledge
      <3> QED
        BY <3>1, <3>2, <3>3
    <2>2. interrupts <= 1
      BY <1>1, <1>2, <2>1, BoundsAssumption DEF TypeOK
    <2>3. CallInv
      BY <2>2 DEF ControlInv
    <2>4. CmdInv'
      BY <1>1, <2>3, HostInv
    <2>5. HostKnown' /\ AnswerKnown'
      BY <1>1, <1>2, <2>3, HostKnownStep
    <2>6. LockFirst' /\ DoubtIsLocked'
      BY <1>1, <1>2, <2>3, LockStep
    <2> QED
      BY <2>4, <2>5, <2>6 DEF CallInv
  <1> QED
    BY <1>1, <1>2 DEF ControlInv

(* The variables of the client, of the host and of the control call keep   *)
(* their types, however often the call is interrupted and whatever main.cpp *)
(* answers for an exception.                                               *)
THEOREM ControlTypeCorrect == Spec => []TypeOK
  <1>1. Init => TypeOK
    BY InitControlInv DEF ControlInv
  <1> QED
    BY <1>1, ControlTypes, PTL DEF Spec

(* The inductive invariant holds in every reachable state.                 *)
THEOREM ControlInvariant ==
  ASSUME ~HostMayThrow
  PROVE  Spec => []ControlInv
  BY InitControlInv, NextControlInv, PTL DEF Spec

(***************************************************************************)
(* Fail-closed control: as long as at most one KeyboardInterrupt has       *)
(* arrived and dispatch does not throw after a submission, a LAB control   *)
(* whose effect the caller does not know has locked the DUT, or told the   *)
(* caller that the lock could not be verified.  _handle_uncertain_command  *)
(* records before it tears the host down, and everything that ends a call  *)
(* without it is certain.                                                  *)
(***************************************************************************)
THEOREM DoubtLocksTheDut ==
  ASSUME ~HostMayThrow
  PROVE  Spec => [](interrupts <= 1 => DoubtIsLocked)
  <1>1. ControlInv => (interrupts <= 1 => DoubtIsLocked)
    BY DEF ControlInv, CallInv
  <1> QED
    BY <1>1, ControlInvariant, PTL

(* Inside the control path too, where hosts die and are restarted and      *)
(* calls are interrupted, an answer that is certain is true.               *)
THEOREM ClientAnswersAreTrue ==
  ASSUME ~HostMayThrow
  PROVE  Spec => [](interrupts <= 1 => CertainAnswersAreTrue)
  <1>1. ControlInv => (interrupts <= 1 => CertainAnswersAreTrue)
    BY DEF ControlInv, CallInv, CmdInv
  <1> QED
    BY <1>1, ControlInvariant, PTL

(***************************************************************************)
(* No control is sent blindly: the gate (assert_clear and the token), the  *)
(* lock and the teardown together let no LAB frame out while the effect of *)
(* an earlier LAB control is unresolved, unless the caller was told to     *)
(* stop, for any number of calls, sessions and host processes.             *)
(***************************************************************************)
THEOREM NoControlIsBlind ==
  ASSUME ~HostMayThrow, MaxInterrupts <= 1
  PROVE  Spec => NoBlindControl
  <1>1. ControlInv /\ [Next]_vars =>
          [~transmitted /\ transmitted' /\ ~simulator => ~unresolved \/ alarm]_vars
    <2> SUFFICES ASSUME ControlInv, Next, ~transmitted, transmitted', ~simulator
                 PROVE  ~unresolved \/ alarm
      OBVIOUS
    <2>1. CallInv
      BY BoundsAssumption DEF ControlInv, TypeOK
    <2>2. CASE HostStep
      <3>1. OnStart
        BY <2>2 DEF HostStep, Callback, OnComplete, ResultCallback, TaskDropped, OnDestroyed,
           Answer, ClearIfActive
      <3>2. pc # "idle"
        BY <2>1, <3>1 DEF OnStart, CallInv, HostKnown, Quiet, Live
      <3> QED
        BY <2>1, <3>2 DEF CallInv, LockFirst
    <2>3. CASE HostExecute
      <3>1. pc = "sent"
        BY <2>3 DEF HostExecute, Pending
      <3> QED
        BY <2>1, <3>1 DEF CallInv, LockFirst
    <2>4. ~HostStep /\ ~HostExecute => transmitted' = transmitted \/ transmitted' = FALSE
      BY DEF Next, Start, CmdReset, Connect, Disconnect, CancelActive, Close, BeginControl, Send,
         HostThrows, HostDies, RequestFails, Receive, ExchangeFails, AcceptAnswer, DoubtAnswer,
         Record, Teardown, Interrupt, Acknowledge, Abort, AbortInterrupted, cmdVars
    <2> QED
      BY <2>2, <2>3, <2>4
  <1> QED
    BY <1>1, ControlInvariant, PTL DEF Spec, NoBlindControl

----------------------------------------------------------------------------
(***************************************************************************)
(* The client uses the lock as IncidentLock promises it: the one bit of    *)
(* this module is the lock of one DUT, and a control that has ended with   *)
(* an unknown effect is the report somebody relies on.  As the store       *)
(* implements the same specification with its files                        *)
(* (SafetyIncidentStore_proofs), the two meet there.                       *)
(***************************************************************************)
Dut == {"dut"}
Client == INSTANCE IncidentLock WITH
             Duts <- Dut,
             locked <- {d \in Dut : lock},
             doubt <- {d \in Dut : unresolved /\ ~alarm},
             alarmed <- {d \in Dut : alarm}

(* What a step does to the lock decides which step of IncidentLock it is.  *)
LEMMA ClientSteps ==
  ASSUME TypeOK, TypeOK', DoubtIsLocked',
         \/ UNCHANGED <<lock, alarm>> /\ (unresolved => unresolved')
         \/ lock' /\ UNCHANGED <<alarm, unresolved>>
         \/ alarm' /\ UNCHANGED <<lock, unresolved>>
         \/ lock /\ ~lock' /\ ~unresolved' /\ UNCHANGED alarm
  PROVE  [Client!LockNext]_(Client!lockVars)
  <1> USE DEF TypeOK, Dut
  <1>1. ASSUME \/ Client!Lock("dut") \/ Client!Report("dut") \/ Client!Acknowledge("dut")
               \/ Client!Withdraw("dut") \/ Client!Raise("dut")
        PROVE  Client!LockNext
    BY <1>1 DEF Client!LockNext
  <1>2. CASE UNCHANGED <<lock, alarm>> /\ (unresolved => unresolved')
    <2>1. CASE unresolved' = unresolved \/ alarm
      BY <1>2, <2>1 DEF Client!lockVars
    <2>2. CASE unresolved' # unresolved /\ ~alarm
      <3>1. unresolved' /\ ~unresolved /\ lock /\ ~alarm
        BY <1>2, <2>2 DEF DoubtIsLocked
      <3>2. Client!Report("dut")
        BY <1>2, <3>1 DEF Client!Report
      <3> QED
        BY <1>1, <3>2
    <2> QED
      BY <2>1, <2>2
  <1>3. CASE lock' /\ UNCHANGED <<alarm, unresolved>>
    <2>1. Client!Lock("dut")
      BY <1>3 DEF Client!Lock
    <2> QED
      BY <1>1, <2>1
  <1>4. CASE alarm' /\ UNCHANGED <<lock, unresolved>>
    <2>1. Client!Raise("dut")
      BY <1>4 DEF Client!Raise
    <2> QED
      BY <1>1, <2>1
  <1>5. CASE lock /\ ~lock' /\ ~unresolved' /\ UNCHANGED alarm
    <2>1. Client!Acknowledge("dut")
      BY <1>5 DEF Client!Acknowledge
    <2> QED
      BY <1>1, <2>1
  <1> QED
    BY <1>2, <1>3, <1>4, <1>5

(* Only record_uncertain, the interrupted one included, and the operator's *)
(* acknowledgment change the lock; a step that leaves it alone leaves an   *)
(* effect in doubt if it was.                                              *)
LEMMA ClientTouchesLock ==
  ASSUME TypeOK, CallInv, Next, interrupts' <= 1
  PROVE  \/ UNCHANGED <<lock, alarm>> /\ (unresolved => unresolved')
         \/ lock' /\ UNCHANGED <<alarm, unresolved>>
         \/ alarm' /\ UNCHANGED <<lock, unresolved>>
         \/ lock /\ ~lock' /\ ~unresolved' /\ UNCHANGED alarm
  <1>1. CASE Record
    BY <1>1 DEF Record
  <1>2. CASE Acknowledge
    BY <1>2 DEF Acknowledge
  <1>3. CASE Interrupt
    <2>1. pc \notin {"record2", "teardown2"}
      BY <1>3, BoundsAssumption DEF Interrupt, CallInv, LockFirst, TypeOK
    <2>2. UNCHANGED alarm
      BY <1>3 DEF Interrupt
    <2>3. CASE pc # "record"
      BY <1>3, <2>1, <2>2, <2>3 DEF Interrupt, EndCall
    <2>4. CASE pc = "record"
      <3>1. unresolved' = unresolved
        <4>1. CASE written
          BY <1>3, <2>4, <4>1 DEF Interrupt
        <4>2. CASE ~written
          <5>1. ~transmitted
            BY <2>4, <4>2 DEF CallInv, HostKnown, NotSubmitted
          <5>2. EndCall
            BY <1>3, <2>4, <4>2 DEF Interrupt
          <5> QED
            BY <5>1, <5>2 DEF EndCall, TypeOK
        <4> QED
          BY <4>1, <4>2
      <3>2. lock' = lock \/ lock' = TRUE
        BY <1>3, <2>4 DEF Interrupt
      <3> QED
        BY <2>2, <3>1, <3>2
    <2> QED
      BY <2>3, <2>4
  <1>4. CASE ~Record /\ ~Acknowledge /\ ~Interrupt
    BY <1>4 DEF Next, vars, clientVars, Start, Connect, Disconnect, Close, BeginControl, Send,
       HostExecute, HostStep, HostThrows, HostDies, RequestFails, Receive, ExchangeFails,
       AcceptAnswer, DoubtAnswer, Teardown, EndCall
  <1> QED
    BY <1>1, <1>2, <1>3, <1>4

(***************************************************************************)
(* The client implements the incident lock: whatever the host, its death   *)
(* and one Ctrl+C do to a LAB control, each step of the calls in client.py *)
(* is for the DUT a lock, a report of a doubt that is locked already, an   *)
(* acknowledgment that settles the doubt, or an error that says so, and    *)
(* no step takes a lock away by which somebody is protected.               *)
(***************************************************************************)
THEOREM ClientImplementsLock ==
  ASSUME ~HostMayThrow, MaxInterrupts <= 1
  PROVE  Spec => Client!LockSpec
  <1>1. Init => Client!LockInit
    BY DEF Init, Client!LockInit, Dut
  <1>2. ControlInv /\ ControlInv' /\ [Next]_vars => [Client!LockNext]_(Client!lockVars)
    <2> SUFFICES ASSUME ControlInv, ControlInv', [Next]_vars
                 PROVE  [Client!LockNext]_(Client!lockVars)
      OBVIOUS
    <2>1. /\ TypeOK /\ TypeOK' /\ interrupts <= 1 /\ interrupts' <= 1
          /\ CallInv /\ DoubtIsLocked'
      BY BoundsAssumption DEF ControlInv, TypeOK, CallInv
    <2>2. CASE UNCHANGED vars
      BY <2>2 DEF vars, clientVars, Client!lockVars
    <2>3. CASE Next
      BY <2>1, <2>3, ClientSteps, ClientTouchesLock
    <2> QED
      BY <2>2, <2>3
  <1> QED
    BY <1>1, <1>2, ControlInvariant, PTL DEF Spec, Client!LockSpec

=============================================================================
