----------------------------- MODULE MCRegistry -----------------------------
(***************************************************************************)
(* The instance of Registry that TLC checks.                               *)
(***************************************************************************)
EXTENDS Registry

CONSTANTS a, b

=============================================================================
