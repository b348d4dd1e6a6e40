------------------------------ MODULE MCExchange ------------------------------
(* Small instances of Exchange for TLC.                                      *)
EXTENDS Exchange, TLC
=============================================================================
