--------------------------- MODULE MCFleetExecution ---------------------------
(***************************************************************************)
(* Small instances of FleetExecution: the .cfg files give the constants.   *)
(* One call is followed at a time: calls share nothing but Fleet, where    *)
(* each has its own executions.                                            *)
(***************************************************************************)
EXTENDS FleetExecution
=============================================================================
