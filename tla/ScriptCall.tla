------------------------------ MODULE ScriptCall ------------------------------
(***************************************************************************)
(* What a caller of an execution port may rely on when it asks for one     *)
(* script to be run on one device: the contract behind                     *)
(* FleetExecutor.execute_on_device, with no hosts, clocks or HTTP.         *)
(*                                                                         *)
(* The contract is at-most-Attempts, not at-most-once.  A copy of the      *)
(* script may be started for each attempt, and only the copy started last  *)
(* speaks for the call.                                                    *)
(***************************************************************************)
EXTENDS Integers

CONSTANTS Calls,      \* the calls in flight
          MaxAttempts \* copies of the script one call may start

VARIABLES outcome,  \* outcome[c]: what the caller has been told
          started,  \* started[c]: the attempts whose copy reached the device
          ended     \* ended[c][k]: how copy k ended, "no" while it has not

callVars == <<outcome, started, ended>>

Attempts == 1..MaxAttempts
Outcomes == {"pending", "ok", "error", "notfound", "failed", "raised"}

Init ==
    /\ outcome = [c \in Calls |-> "pending"]
    /\ started = [c \in Calls |-> {}]
    /\ ended = [c \in Calls |-> [k \in Attempts |-> "no"]]

\* A copy starts; the call may end in the same step, told nothing of the copy.
Start(c) ==
    /\ outcome[c] = "pending"
    /\ \E k \in Attempts :
          /\ \A j \in started[c] : j < k
          /\ started' = [started EXCEPT ![c] = @ \union {k}]
    /\ \E o \in {"pending", "failed", "raised"} :
          outcome' = [outcome EXCEPT ![c] = o]
    /\ UNCHANGED ended

\* The device finishes a copy, whether or not anyone still waits for it.
End(c, k) ==
    /\ k \in started[c]
    /\ ended[c][k] = "no"
    /\ \E r \in {"ok", "error"} : ended' = [ended EXCEPT ![c][k] = r]
    /\ UNCHANGED <<outcome, started>>

\* The caller is told how the copy started last ended.
Answer(c) ==
    /\ outcome[c] = "pending"
    /\ \E k \in started[c] :
          /\ \A j \in started[c] : j <= k
          /\ ended[c][k] # "no"
          /\ outcome' = [outcome EXCEPT ![c] = ended[c][k]]
    /\ UNCHANGED <<started, ended>>

\* The caller is told nothing is known, or that the device does not exist; the
\* latter is a promise that no copy was ever started.
GiveUp(c) ==
    /\ outcome[c] = "pending"
    /\ \E o \in {"failed", "raised", "notfound"} :
          /\ o = "notfound" => started[c] = {}
          /\ outcome' = [outcome EXCEPT ![c] = o]
    /\ UNCHANGED <<started, ended>>

Next ==
    \E c \in Calls :
        \/ Start(c)
        \/ \E k \in Attempts : End(c, k)
        \/ Answer(c)
        \/ GiveUp(c)

Spec == Init /\ [][Next]_callVars
=============================================================================
