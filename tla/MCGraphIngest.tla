-------------------------- MODULE MCGraphIngest --------------------------
(***************************************************************************)
(* Three alerts for TLC.  Two are about one device and disagree on the     *)
(* names and on the time; the third is another tenant's, with the same     *)
(* device id and no alert id.                                              *)
(***************************************************************************)
EXTENDS GraphIngest, TLC

CONSTANTS t1, t2, high

Alert(t, alert, name, time) ==
    [tenant |-> t, source |-> "sciencelogic", device |-> <<"d">>, alert |-> <<alert>>,
     tenantName |-> name, hostname |-> name, observed |-> time, severity |-> high]

Early == Alert(t1, "a1", "one", 1)
Late == Alert(t1, "a2", "uno", 2)
Other == Alert(t2, "unknown", "two", 1)

Alerts == {Early, Late, Other}

EmitterSymmetry == Permutations(Emitters)
=============================================================================
