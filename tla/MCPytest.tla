------------------------------ MODULE MCPytest ------------------------------
(***************************************************************************)
(* The pytest side for TLC: in each behaviour either a session of the      *)
(* plugin or a configuration on its way to the device takes its steps, and *)
(* the other stays in one fixed initial state.  The two share no state:    *)
(* the plugin reads the documents that EmsPlan loads only as accepted or   *)
(* refused.                                                                *)
(***************************************************************************)
EXTENDS MCPytestSession, MCEmsPlan

VARIABLE subject   \* "session" or "plan"

mcVars == <<subject, vars, planVars>>

MCInit ==
    \/ subject = "session" /\ Init /\ doc = Good /\ PlanStart
    \/ subject = "plan" /\ PlanInit /\ c = Quiet /\ items = <<ReadTest>> /\ SessionStart

MCNext ==
    \/ subject = "session" /\ Next /\ UNCHANGED <<subject, planVars>>
    \/ subject = "plan" /\ PlanNext /\ UNCHANGED <<subject, vars>>

MCSpec == MCInit /\ [][MCNext]_mcVars
=============================================================================
