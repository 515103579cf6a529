------------------------------ MODULE PolicyGate ------------------------------
(***************************************************************************)
(* ReferenceGate.decide, and the callers that ask it.                      *)
(*                                                                         *)
(* The gate keeps no state and writes nothing: what a caller learns comes  *)
(* from one decision, or from two decisions compared.  A step is one call  *)
(* of decide, on any request, so that two successive states hold any two   *)
(* requests and their decisions: the second may be the first with a signal *)
(* computed, withheld or changed.  An identical request is answered        *)
(* identically but for the id_factory's decision_id, which is left out     *)
(* with the fields decide copies and the reason's wording.                 *)
(***************************************************************************)
EXTENDS Integers

CONSTANTS
    Capability,        \* the closed vocabulary
    WriteRisk,         \* the capabilities whose CAPABILITIES entry says WRITE
    MaxCrossed,        \* bound: tenants_crossed is not enumerated past it
    RequiredApprovers, \* ReferenceGate.required_approvers
    ApprovalTtl,       \* ReferenceGate.approval_ttl
    None               \* Python's None

ASSUME CapabilityAssumption == WriteRisk \subseteq Capability
ASSUME CrossedAssumption == MaxCrossed \in Nat
\* ReferenceGate.__post_init__ refuses the others.
ASSUME ApproversAssumption == RequiredApprovers \in Nat \ {0}
ASSUME NoneAssumption == None \notin Nat \union BOOLEAN /\ ApprovalTtl # None

VARIABLES request, \* the GateRequest of the latest call
          reply   \* the GateDecision it returned

gateVars == <<request, reply>>

\* Of an actor the gate reads its kind and whether sign_permission is among
\* its permissions; of a blast radius, tenants_crossed; of a breaker, tripped.
Actor == [kind : {"human", "service"}, signs : BOOLEAN]
GateRequest ==
    [capability : Capability,
     actor : Actor,
     blast_radius : (0..MaxCrossed) \union {None},
     breaker : BOOLEAN \union {None}]

GateDecision ==
    [decision : {"allow", "hold", "deny"},
     tier : {"observe-only", "approval-required", "blocked-by-default"},
     required_approvers : {0, RequiredApprovers},
     approval_ttl : {ApprovalTtl, None}]

Deny == [decision |-> "deny", tier |-> "blocked-by-default",
         required_approvers |-> RequiredApprovers, approval_ttl |-> None]
Observe == [decision |-> "allow", tier |-> "observe-only",
            required_approvers |-> 0, approval_ttl |-> None]
Signed == [decision |-> "allow", tier |-> "approval-required",
           required_approvers |-> RequiredApprovers, approval_ttl |-> None]
Hold == [decision |-> "hold", tier |-> "approval-required",
         required_approvers |-> RequiredApprovers, approval_ttl |-> ApprovalTtl]

Crosses(r) == r.blast_radius # None /\ r.blast_radius > 0
Reads(r) == r.capability \notin WriteRisk
Tripped(r) == r.breaker # None /\ r.breaker
CanSign(r) == r.actor.kind = "human" /\ r.actor.signs

\* Mutation: the table as ADR-0013 first had it, the read rule on top.
decideReadsFirst(r) ==
    IF Reads(r) THEN Observe
    ELSE IF Crosses(r) THEN Deny
    ELSE IF Tripped(r) THEN Hold
    ELSE IF CanSign(r) THEN Signed
    ELSE Hold

\* Mutation: a breaker nobody evaluated holds the act.
decideUnknownHolds(r) ==
    IF Crosses(r) THEN Deny
    ELSE IF Reads(r) THEN Observe
    ELSE IF r.breaker = None \/ Tripped(r) THEN Hold
    ELSE IF CanSign(r) THEN Signed
    ELSE Hold

\* Mutation: a signed act is classed as safe to run by itself.
decideAutoHeals(r) ==
    IF Crosses(r) THEN Deny
    ELSE IF Reads(r) THEN Observe
    ELSE IF Tripped(r) THEN Hold
    ELSE IF CanSign(r) THEN [Signed EXCEPT !.tier = "safe-auto-heal"]
    ELSE Hold

\* ReferenceGate.decide: the rows of the table, first match wins.
decide(r) ==
    IF Crosses(r) THEN Deny
    ELSE IF Reads(r) THEN Observe
    ELSE IF Tripped(r) THEN Hold
    ELSE IF CanSign(r) THEN Signed
    ELSE Hold

-----------------------------------------------------------------------------

GateInit ==
    /\ request \in GateRequest
    /\ reply = decide(request)

AskGate ==
    /\ request' \in GateRequest
    /\ reply' = decide(request')

GateNext == AskGate

GateSpec == GateInit /\ [][GateNext]_gateVars

-----------------------------------------------------------------------------
(* Properties. *)

\* decide answers every request with a decision, a tier and approvers that the
\* gate's vocabulary and configuration know.
TypeOK == request \in GateRequest /\ reply \in GateDecision

\* An act is more permitted the higher its decision stands.
Permits(d) == CASE d.decision = "allow" -> 2
                [] d.decision = "hold" -> 1
                [] d.decision = "deny" -> 0

\* r is q with one or both of its signals computed.
Completes(q, r) ==
    /\ r.capability = q.capability
    /\ r.actor = q.actor
    /\ q.blast_radius \in {None, r.blast_radius}
    /\ q.breaker \in {None, r.breaker}

\* Computing a signal and asking again never turns a hold or a deny into
\* something more permitted, whichever signal comes first, and for a capability
\* of either risk (BlastRadius, "a present value can only narrow").
SignalsOnlyNarrow ==
    [][Completes(request, request') => Permits(reply') <= Permits(reply)]_gateVars

\* What the gate allows never crosses a tenant boundary, be it a read, and a
\* write it allows was signed by a human, while no tripped breaker sent the
\* class of action to review: no row lets through what another row stops.
AllowIsEarned ==
    reply.decision = "allow" =>
        /\ ~Crosses(request)
        /\ ~Reads(request) => CanSign(request) /\ ~Tripped(request)
=============================================================================
