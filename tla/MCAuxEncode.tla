---------------------------- MODULE MCAuxEncode ----------------------------
(* Small instances of AuxEncode for TLC.                                   *)
EXTENDS AuxEncode
=============================================================================
