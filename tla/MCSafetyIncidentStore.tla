----------------------- MODULE MCSafetyIncidentStore -----------------------
(***************************************************************************)
(* Instances of SafetyIncidentStore for TLC.  Only acknowledgers call      *)
(* acknowledge, so permuting the other processes, the incident identities  *)
(* and the time stamps is a symmetry of the safety runs.                   *)
(***************************************************************************)
EXTENDS SafetyIncidentStore, TLC

Symmetry == Permutations(Procs \ Acknowledgers) \cup Permutations(Ids)
              \cup Permutations(Times) \cup Permutations(Readbacks)
=============================================================================
