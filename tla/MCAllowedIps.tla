---------------------------- MODULE MCAllowedIps ----------------------------
(***************************************************************************)
(* AllowedIps for TLC: two hosts that may share or swap their addresses,   *)
(* and one or two tries instead of ten, so that they run out.              *)
(***************************************************************************)
EXTENDS AllowedIps
=============================================================================
