-------------------------- MODULE StoreAndForward --------------------------
(***************************************************************************)
(* What the edge relay promises a decoy: a payload whose POST was answered *)
(* with 200 is stored upstream, or still held by the relay, or was lost in *)
(* one of the ways the relay is known to lose payloads.  A payload that is *)
(* held does not stay held for ever.                                       *)
(*                                                                         *)
(* Module EdgeRelay implements this specification (EdgeRelay!Promise).     *)
(***************************************************************************)
CONSTANT Payload

VARIABLES
    accepted,   \* payloads acknowledged to the decoy with status 200
    held,       \* payloads in the relay's spool files or in its memory
    stored,     \* payloads the control plane has stored
    lost        \* payloads of which the relay has dropped a copy

vars == <<accepted, held, stored, lost>>

Init ==
    /\ accepted = {}
    /\ held = {}
    /\ stored = {}
    /\ lost = {}

(* A payload reaches the control plane; only if it did may the same step *)
(* acknowledge it or let go of it.                                       *)
Store(p) ==
    /\ stored' = stored \cup {p}
    /\ held' \in {held, held \ {p}}
    /\ accepted' \in {accepted, accepted \cup {p}}
    /\ UNCHANGED lost

(* A copy of each payload of dropped is lost; a payload that is no longer *)
(* held afterwards must be one of them.                                   *)
Drop(dropped) ==
    /\ lost' = lost \cup dropped
    /\ held \ held' \subseteq dropped

(* The relay takes charge of a payload, possibly dropping others. *)
Keep(p) ==
    /\ \E h \in SUBSET (held \cup {p}) : p \in h /\ held' = h
    /\ \E d \in SUBSET held : Drop(d)
    /\ UNCHANGED <<accepted, stored>>

(* Held payloads are lost. *)
Lose ==
    /\ \E h \in SUBSET held : held' = h
    /\ \E d \in SUBSET held : Drop(d)
    /\ UNCHANGED <<accepted, stored>>

(* A 200 without a forward is sent only for a payload that is held. *)
Accept(p) ==
    /\ p \in held
    /\ accepted' = accepted \cup {p}
    /\ UNCHANGED <<held, stored, lost>>

Next ==
    \/ \E p \in Payload : Store(p) \/ Keep(p) \/ Accept(p)
    \/ Lose

Spec == Init /\ [][Next]_vars

(* The safety half of the promise, as a state predicate: an acknowledged *)
(* payload never just vanishes.                                          *)
Accounted == accepted \subseteq stored \cup held \cup lost
=============================================================================
