--------------------------- MODULE MCEngineClaims ---------------------------
(***************************************************************************)
(* The hosts of MCEngine for the refinement of Claims.                     *)
(***************************************************************************)
EXTENDS EngineClaims, MCEngine

\* What the theorem StartedStayRecorded asks of the payloads.
ASSUME SharedPayloadsSteady == SteadyUnits
=============================================================================
