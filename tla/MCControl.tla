----------------------------- MODULE MCControl -----------------------------
(***************************************************************************)
(* The control path for TLC.  In each behaviour the host is driven either  *)
(* by the Python client (ControlPath) or by any client at all, which sends *)
(* its commands however the last one ended (CommandSupport alone).  The    *)
(* second shows what the host guarantees by itself: the Python client      *)
(* would have destroyed it first.                                          *)
(***************************************************************************)
EXTENDS ControlPath

VARIABLE driver   \* "client" or "any"

MCInit == Init /\ driver \in {"client", "any"}

MCNext ==
    \/ driver = "client" /\ Next /\ UNCHANGED driver
    \/ driver = "any" /\ CmdNext /\ UNCHANGED <<driver, clientVars>>

MCSpec == MCInit /\ [][MCNext]_<<driver, vars>>

(* The fairness of ControlPath: with another driver no control call is     *)
(* under way and none of these steps is enabled.                           *)
MCFairSpec ==
    MCSpec /\ WF_vars(Send) /\ WF_vars(ExchangeFails) /\ WF_vars(AcceptAnswer)
           /\ WF_vars(DoubtAnswer) /\ WF_vars(Record) /\ WF_vars(Teardown)
=============================================================================
