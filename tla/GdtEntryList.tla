---------------------------- MODULE GdtEntryList ----------------------------
(***************************************************************************)
(* The class model::GdtEntryList: the entries of one customer in the order *)
(* of their dates, with their number and their sum kept beside them.       *)
(*                                                                         *)
(* An entry is a record of what the list looks at, its date and its gdt,   *)
(* and whatever else its user needs. Amounts are integers; the code adds   *)
(* doubles. A definition whose name ends in Mutant is a faulty variant of  *)
(* the one after it and no part of the specification.                      *)
(***************************************************************************)
EXTENDS Integers, FiniteSets, SequencesExt

EmptyList == [mGdtEntries |-> <<>>, mTotalCount |-> 0, mTotalGDTSum |-> 0]

CountedMutant(l, e) == [l EXCEPT !.mTotalCount = @ + 1]

Counted(l, e) == [l EXCEPT !.mTotalCount = @ + 1, !.mTotalGDTSum = @ + e.gdt]

IsLate(l, e) ==
    l.mGdtEntries = <<>> \/ Last(l.mGdtEntries).date <= e.date

\* Appends whatever the date is; an entry that is not late only gives rise to
\* the warning "gdt entry arrived out of order".
addGdtEntry(l, e) == [Counted(l, e) EXCEPT !.mGdtEntries = Append(@, e)]

FirstNotBeforeMutant(s, date) ==
    CHOOSE i \in DOMAIN s :
        s[i].date >= date /\ \A j \in DOMAIN s : j > i => s[j].date < date

FirstNotBefore(s, date) ==
    CHOOSE i \in DOMAIN s :
        s[i].date >= date /\ \A j \in DOMAIN s : j < i => s[j].date < date

insertGdtEntry(l, e) ==
    IF IsLate(l, e) THEN addGdtEntry(l, e)
    ELSE [Counted(l, e) EXCEPT
            !.mGdtEntries = InsertAt(@, FirstNotBefore(@, e.date), e)]

Ordered(l) ==
    \A i, j \in DOMAIN l.mGdtEntries :
        i < j => l.mGdtEntries[i].date <= l.mGdtEntries[j].date
=============================================================================
