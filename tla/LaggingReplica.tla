--------------------------- MODULE LaggingReplica ---------------------------
(***************************************************************************)
(* What the cache promises about the GDT entries of a customer: it shows a *)
(* state the database has really had, possibly an old one, and never goes  *)
(* back to an older state than it has shown before. The states a customer  *)
(* goes through in the database are numbered; 0 is to have no entries.     *)
(***************************************************************************)
EXTENDS Naturals

CONSTANT Customer

VARIABLES source,   \* the number of the state in the database
          replica   \* the number of the state the cache shows

lrVars == <<source, replica>>

Init ==
    /\ source \in [Customer -> Nat]
    /\ replica = source

Write(c) ==
    /\ source' = [source EXCEPT ![c] = @ + 1]
    /\ UNCHANGED replica

\* One list or all of them at once are brought forward, or stay.
Refresh ==
    /\ replica' \in [Customer -> Nat]
    /\ \A c \in Customer : replica[c] <= replica'[c] /\ replica'[c] <= source[c]
    /\ UNCHANGED source

Next == (\E c \in Customer : Write(c)) \/ Refresh

Spec == Init /\ [][Next]_lrVars
=============================================================================
