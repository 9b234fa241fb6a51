---------------------------- MODULE IncidentLock ----------------------------
(***************************************************************************)
(* What the incident lock promises, without files, processes or hosts: a   *)
(* DUT of which somebody was told that the effect of a control is unknown  *)
(* stays locked until an operator acknowledges it, and the step that takes *)
(* the lock away settles the doubt.  Where the promise cannot be kept, an  *)
(* error was raised instead, and from then on it no longer binds.          *)
(*                                                                         *)
(* SafetyIncidentStore implements it with files (StoreIsLock), and the     *)
(* client of ControlPath with the one bit it sees of them.                 *)
(***************************************************************************)
CONSTANT Duts    \* the devices under test

VARIABLES
    locked,    \* those assert_clear refuses
    doubt,     \* those with a reported and unsettled incident
    alarmed    \* those whose lock could not be verified, as an error has said

lockVars == <<locked, doubt, alarmed>>

LockInit == locked \subseteq Duts /\ doubt = {} /\ alarmed = {}

(* A lock appears, complete or not. *)
Lock(d) ==
    /\ locked' = locked \cup {d}
    /\ UNCHANGED <<doubt, alarmed>>

(* Somebody is told of an incident of d, and relies on the lock. *)
Report(d) ==
    /\ d \in locked /\ d \notin alarmed
    /\ doubt' = doubt \cup {d}
    /\ UNCHANGED <<locked, alarmed>>

(* The operator's acknowledgment takes the lock and the doubt together. *)
Acknowledge(d) ==
    /\ d \in locked
    /\ locked' = locked \ {d} /\ doubt' = doubt \ {d}
    /\ UNCHANGED alarmed

(* A lock nobody relies on, or can rely on any more, is removed. *)
Withdraw(d) ==
    /\ d \notin doubt
    /\ locked' = locked \ {d}
    /\ UNCHANGED <<doubt, alarmed>>

(* The promise cannot be kept, and an error says so. *)
Raise(d) ==
    /\ locked' \in {locked, locked \ {d}}
    /\ doubt' = doubt \ {d} /\ alarmed' = alarmed \cup {d}

LockNext ==
    \E d \in Duts : Lock(d) \/ Report(d) \/ Acknowledge(d) \/ Withdraw(d) \/ Raise(d)

LockSpec == LockInit /\ [][LockNext]_lockVars

(* What it is for: every DUT in doubt is locked, and no error revokes it. *)
Protected == doubt \subseteq locked /\ doubt \cap alarmed = {}

=============================================================================
