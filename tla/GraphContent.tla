---------------------------- MODULE GraphContent ----------------------------
(***************************************************************************)
(* What a sink into the graph promises its caller: the graph shows nothing *)
(* that no emitted envelope justifies, it never forgets, and when emit     *)
(* returns all of the envelope is there.  While emit runs, and after it    *)
(* was cut short, any part of it may be.                                   *)
(***************************************************************************)
CONSTANTS
    Envelopes,
    Justified(_) \* the elements an envelope justifies

VARIABLES
    begun,   \* envelopes an emit was called for
    done,    \* envelopes an emit returned for
    content  \* elements the graph shows

vars == <<begun, done, content>>

Init == begun = {} /\ done = {} /\ content = {}

Begin(v) == begun' = begun \union {v} /\ UNCHANGED <<done, content>>

Show(v) ==
    /\ v \in begun
    /\ \E x \in Justified(v) : content' = content \union {x}
    /\ UNCHANGED <<begun, done>>

Return(v) ==
    /\ v \in begun
    /\ Justified(v) \subseteq content
    /\ done' = done \union {v}
    /\ UNCHANGED <<begun, content>>

Next == \E v \in Envelopes : Begin(v) \/ Show(v) \/ Return(v)

Spec == Init /\ [][Next]_vars
=============================================================================
