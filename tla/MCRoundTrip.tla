---------------------------- MODULE MCRoundTrip ----------------------------
(* Small instances of RoundTrip for TLC.                                   *)
EXTENDS RoundTrip
=============================================================================
