----------------------------- MODULE MCFleetJob -----------------------------
(***************************************************************************)
(* Three hosts for TLC, two of which an alert's id does not tell apart.    *)
(***************************************************************************)
EXTENDS FleetJob

MCHosts == {"h1", "h2", "h3"}

MCPrefix == [h \in MCHosts |-> IF h = "h3" THEN "8a3b0c11" ELSE "4c4c4544"]

MCNamed == {"4c4c4544", "unknown", ""}
=============================================================================
