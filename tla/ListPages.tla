------------------------------ MODULE ListPages ------------------------------
(***************************************************************************)
(* From the table to a page: lists are loaded by either query, and then    *)
(* pages of them are written, one after another. A page is written while   *)
(* the access mutex of the cache is held, so that its list rests.          *)
(***************************************************************************)
EXTENDS GdtEntryLoading, Paging, FiniteSets

\* The lists are the ones pages are made of; none is longer than the table
\* and what has been inserted.
ASSUME ListPagesAssumption ==
    /\ IsFiniteSet(Id) /\ Entry \subseteq Element
    /\ Cardinality(Id) + MaxInserts <= MaxSize

vars == <<loadVars, pageVars>>

TypeOK == LoadTypeOK /\ PageTypeOK

Init == LoadInit /\ PageInit

Load == LoadNext /\ pagePc = "idle" /\ UNCHANGED pageVars

Show ==
    /\ \/ PageStep
       \/ /\ loadPc = "done"
          /\ \E c \in Customer, p, n \in CInt, o \in {"ASC", "DESC"} :
                /\ gdtEntries[c] # NoList
                /\ Begin(gdtEntries[c].mGdtEntries, p, n, o)
    /\ UNCHANGED loadVars

\* A failed load ends the attempt.
Failed == loadPc = "failed" /\ UNCHANGED vars

Next == Load \/ Show \/ Failed

Spec == Init /\ [][Next]_vars

-----------------------------------------------------------------------------
\* From the table to the client: a page lists its entries by date, in the
\* direction asked for, by whichever query and insertions its list came about
\* and whatever ints were sent, those whose product overflows included.
PageIsInOrder ==
    \A j, k \in DOMAIN out : j < k =>
        IF order = "ASC" THEN out[j].date <= out[k].date
        ELSE out[k].date <= out[j].date
=============================================================================
