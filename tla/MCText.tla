------------------------------- MODULE MCText -------------------------------
(***************************************************************************)
(* TextFormatting for TLC. Numbers differ in length and in the zeros at    *)
(* their ends; e-mails have up to three characters, blanks and a letter    *)
(* outside ASCII among them, or five or six letters to be masked.          *)
(***************************************************************************)
EXTENDS TextFormatting, SequencesExt

MCNumber ==
    [negative : BOOLEAN, hundredths : {0, 5, 50, 1200, 10000, 123456}]

MCTolower == [c \in Char |-> IF c = "A" THEN "a" ELSE c]

\* U umlaut and u umlaut in UTF-8.
Capital == <<"C3", "9C">>
Small == <<"C3", "BC">>

MCLower(s) ==
    [k \in DOMAIN s |->
        IF k > 1 /\ SubSeq(s, k - 1, k) = Capital THEN "BC" ELSE tolower[s[k]]]

Character == {<<"a">>, <<"A">>, Capital, Small, <<" ">>, <<"TAB">>}

MCEmail ==
    {FlattenSeq(w) : w \in UNION {[1 .. n -> Character] : n \in 1 .. 3}}
        \cup {<<"b", "A", "a", "b", "A">>, <<" ", "a", "b", "b", "a", "b", "b">>}
=============================================================================
