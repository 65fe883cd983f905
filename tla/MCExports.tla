----------------------------- MODULE MCExports -----------------------------
(***************************************************************************)
(* A small instance of Exports for TLC: one analyst with three requests at *)
(* a time, for two connections.                                            *)
(***************************************************************************)
EXTENDS Exports

CONSTANTS r1, r2, r3, analyst

MCApis == {r1, r2, r3}
MCAnalysts == {analyst}
=============================================================================
