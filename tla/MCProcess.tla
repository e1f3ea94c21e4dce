------------------------------ MODULE MCProcess ------------------------------
(***************************************************************************)
(* Process for TLC: two requests that push tasks, one that shows the       *)
(* status page, and four errors in a log of two entries.                   *)
(***************************************************************************)
EXTENDS Process
=============================================================================
