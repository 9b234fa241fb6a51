------------------------ MODULE MCMeasurementCapture ------------------------
(***************************************************************************)
(* An instance of MeasurementCapture for TLC: two expected points, one     *)
(* foreign one, and a manifest of two events.                              *)
(***************************************************************************)
EXTENDS MeasurementCapture

CONSTANTS p1, p2

MCManifest == <<p1, p2>>
=============================================================================
