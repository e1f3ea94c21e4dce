----------------------------- MODULE MCListPages -----------------------------
(***************************************************************************)
(* ListPages for TLC: two customers, two rows and one inserted entry, with *)
(* dates that may be missing, equal or different, and ints of three bits,  *)
(* whose products overflow.                                                *)
(***************************************************************************)
EXTENDS ListPages, TLC

MCGdt == 1 :> 5 @@ 2 :> -2 @@ 3 :> 30 @@ 4 :> 11
MCElement == Entry
=============================================================================
