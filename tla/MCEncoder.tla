------------------------------ MODULE MCEncoder ------------------------------
(* Small instances of Encoder for TLC.                                     *)
EXTENDS EncoderInv
=============================================================================
