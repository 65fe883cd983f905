---------------------------- MODULE MCIngestApi ----------------------------
(***************************************************************************)
(* Small instances of IngestApi for TLC.                                   *)
(***************************************************************************)
EXTENDS IngestApi, TLC

CONSTANTS a1, a2, d1, d2, ip

MCDetections == {d1, d2}
MCSources == {ip}
MCInvestigationOf == [d \in MCDetections |-> ip]

(* Two events of one source: the second repeats the request of the first  *)
(* and breaks another rule besides.                                       *)
TwoEvents == 1..2
MCEmits == (1 :> <<d1>>) @@ (2 :> <<d1, d2>>)
MCSourceOf == [e \in Events |-> ip]

(* Three events: one breaks no rule; of the others, a batch with both and  *)
(* one with the last record their detections in different orders.          *)
ThreeEvents == 1..3
MCEmitsQuiet == (1 :> <<>>) @@ (2 :> <<d2>>) @@ (3 :> <<d1, d2>>)

OneApi == {a1}
TwoApis == {a1, a2}

(* The requests being served are interchangeable. *)
Symmetry == Permutations(Apis)
=============================================================================
