----------------------------- MODULE MCEdgeHost -----------------------------
(***************************************************************************)
(* A small instance of EdgeHost for TLC: a client that asks for a page and *)
(* one that connects and says nothing.                                     *)
(***************************************************************************)
EXTENDS EdgeHost

CONSTANTS asking, waiting, garbling

MCClients == {asking, waiting, garbling}
MCManner ==
    [c \in MCClients |-> CASE c = asking -> "asks"
                           [] c = waiting -> "waits"
                           [] c = garbling -> "garbles"]
=============================================================================
