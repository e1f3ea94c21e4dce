------------------------------- MODULE Paging -------------------------------
(***************************************************************************)
(* view::GdtEntryList::toJsonString for one page: an iterator skips the    *)
(* entries of the pages before and then collects up to count entries, from *)
(* the beginning of a copy of the list (ASC) or from its end (DESC).       *)
(*                                                                         *)
(* Position k stands for the k-th element, Len + 1 for end(). page and     *)
(* count are ints, the size of the list is a size_t. A definition whose    *)
(* name ends in Mutant is a faulty variant of the one after it and no part *)
(* of the specification.                                                   *)
(***************************************************************************)
EXTENDS Integers, Sequences

CONSTANTS
    Element,   \* entries
    IntMax,    \* 2^31 - 1 in the code
    SizeMax,   \* 2^64 - 1 in the code
    MaxSize    \* bound on the length of lists

ASSUME PagingAssumption ==
    /\ IntMax \in Nat /\ SizeMax \in Nat /\ MaxSize \in Nat
    /\ MaxSize + (IntMax + 2) * (IntMax + 1) <= SizeMax

IntMin == -(IntMax + 1)
CInt == IntMin .. IntMax

Wrap(n) == ((n - IntMin) % (2 * (IntMax + 1))) + IntMin

ProductsMutant(p, n) == {Wrap(p * n), p * n}

\* (page-1)*count. Signed overflow is undefined: a build wraps around or has
\* computed in 64 bits.
Products(p, n) ==
    {Wrap(Wrap(p - 1) * n), (p - 1) * n}

\* What a negative int is compared as.
AsSize(n) == IF n < 0 THEN n + SizeMax + 1 ELSE n

VARIABLES
    pagePc, gdtEntriesList, page, count, order,
    product,   \* (page-1)*count
    it, i,
    out        \* the entries written

callVars == <<gdtEntriesList, page, count, order>>
pageVars == <<pagePc, callVars, product, it, i, out>>

Size == Len(gdtEntriesList)

PageTypeOK ==
    /\ pagePc \in {"idle", "check", "skip", "collect", "done"}
    /\ gdtEntriesList \in Seq(Element) /\ Size <= MaxSize
    /\ page \in CInt /\ count \in CInt /\ order \in {"ASC", "DESC"}
    /\ product \in Int /\ it \in 1 .. Size + 1 /\ i \in Nat
    /\ out \in Seq(Element)

PageInit ==
    /\ pagePc = "idle" /\ gdtEntriesList = <<>>
    /\ page = 0 /\ count = 0 /\ order = "ASC"
    /\ product = 0 /\ it = 1 /\ i = 0 /\ out = <<>>

Begin(list, p, c, o) ==
    /\ pagePc = "idle" /\ pagePc' = "check"
    /\ gdtEntriesList' = list /\ page' = p /\ count' = c /\ order' = o
    /\ UNCHANGED <<product, it, i, out>>

StartMutant == IF order = "ASC" THEN 1 ELSE Size + 1

\* begin(), or end() and one step back.
Start == IF order = "ASC" THEN 1 ELSE Size

Check ==
    /\ pagePc = "check"
    /\ product' \in Products(page, count)
    /\ IF Size > AsSize(product')
       THEN pagePc' = "skip" /\ it' = Start
       ELSE pagePc' = "done" /\ UNCHANGED it
    /\ UNCHANGED <<callVars, i, out>>

Further == IF order = "ASC" THEN it + 1 ELSE it - 1

Skip ==
    /\ pagePc = "skip" /\ page > 1 /\ i < product
    /\ it' = Further /\ i' = i + 1
    /\ UNCHANGED <<pagePc, callVars, product, out>>

Skipped ==
    /\ pagePc = "skip" /\ ~(page > 1 /\ i < product)
    /\ pagePc' = "collect" /\ i' = 0
    /\ UNCHANGED <<callVars, product, it, out>>

AtLastMutant == IF order = "ASC" THEN it + 1 = Size + 1 ELSE it = 0

\* it++ gives end(), or it is begin().
AtLast == IF order = "ASC" THEN it + 1 = Size + 1 ELSE it = 1

Collect ==
    /\ pagePc = "collect" /\ i < count
    /\ out' = Append(out, gdtEntriesList[it])
    /\ i' = i + 1
    /\ it' = IF order = "DESC" /\ AtLast THEN it ELSE Further
    /\ pagePc' = IF AtLast THEN "done" ELSE "collect"
    /\ UNCHANGED <<callVars, product>>

Collected ==
    /\ pagePc = "collect" /\ i >= count
    /\ pagePc' = "done"
    /\ UNCHANGED <<callVars, product, it, i, out>>

Return ==
    /\ pagePc = "done"
    /\ pagePc' = "idle" /\ gdtEntriesList' = <<>>
    /\ page' = 0 /\ count' = 0 /\ order' = "ASC"
    /\ product' = 0 /\ it' = 1 /\ i' = 0 /\ out' = <<>>

PageStep == Check \/ Skip \/ Skipped \/ Collect \/ Collected \/ Return

BeginAny ==
    \E list \in Seq(Element), p, c \in CInt, o \in {"ASC", "DESC"} :
        Len(list) <= MaxSize /\ Begin(list, p, c, o)

PagingSpec == PageInit /\ [][BeginAny \/ PageStep]_pageVars

-----------------------------------------------------------------------------
(***************************************************************************)
(* Properties.                                                             *)
(***************************************************************************)

\* No int that a client can send, negative, zero or so large that the product
\* overflows, makes the iterator leave the list or read at end().
IteratorStaysInside ==
    /\ pagePc = "skip" => it \in 1 .. Size
    /\ pagePc = "collect" => it \in 1 .. Size

Entries(k) == IF order = "ASC" THEN gdtEntriesList[k]
              ELSE gdtEntriesList[Size + 1 - k]

\* Where the page begins, in the order asked for, and how long it is.
Before == (page - 1) * count

PageLength ==
    IF page < 1 \/ count < 1 \/ Before >= Size THEN 0
    ELSE IF Size - Before < count THEN Size - Before ELSE count

\* "collect max count gdt entries", starting after those of the pages before:
\* every page below the overflow is the right piece of the list in the order
\* asked for, so that the pages together show each entry once, in both orders
\* and with a short last page.
PageIsRight ==
    pagePc = "done" /\ page - 1 \in CInt /\ Before \in CInt =>
        /\ Len(out) = PageLength
        /\ \A k \in DOMAIN out : out[k] = Entries(Before + k)
=============================================================================
