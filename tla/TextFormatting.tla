--------------------------- MODULE TextFormatting ---------------------------
(***************************************************************************)
(* What the program writes out and what it looks up: NumberFormat and      *)
(* EmailText. They share nothing, so that e-mails are looked up only       *)
(* before the first number is formatted.                                   *)
(***************************************************************************)
EXTENDS NumberFormat, EmailText

TextVars == <<numberVars, emailVars>>

TextTypeOK == NumberTypeOK /\ EmailTypeOK

Init == NumberInit /\ EmailInit

Next ==
    \/ \E t \in Thread : FormatStep(t) /\ stored = <<>> /\ UNCHANGED emailVars
    \/ /\ firstTime /\ mutex = Free
       /\ EmailStep /\ UNCHANGED numberVars

Spec == Init /\ [][Next]_TextVars
=============================================================================
