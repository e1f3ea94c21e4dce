---------------------------- MODULE PagingProofs ----------------------------
(***************************************************************************)
(* A page is the right piece of the list and its iterator stays inside,    *)
(* for lists of any length, any width of int and every pair of ints.       *)
(***************************************************************************)
EXTENDS Paging, TLAPS

\* A product is no further from 0 than the product of the bounds.
LEMMA ProductBounds ==
    ASSUME NEW A \in Nat, NEW B \in Nat, NEW a \in Int, NEW b \in Int,
           -A <= a, a <= A, -B <= b, b <= B
    PROVE  -(A * B) <= a * b /\ a * b <= A * B
<1> DEFINE AmA == A - a  ApA == A + a  BmB == B - b  BpB == B + b
<1>1. \A x, y \in Nat : x * y >= 0
    BY SMT
<1>2. AmA \in Nat /\ ApA \in Nat /\ BmB \in Nat /\ BpB \in Nat
    OBVIOUS
<1>3. AmA * BpB >= 0 /\ ApA * BmB >= 0 /\ AmA * BmB >= 0 /\ ApA * BpB >= 0
    BY <1>1, <1>2
<1>4. /\ AmA * BpB = A * B + A * b - a * B - a * b
      /\ ApA * BmB = A * B - A * b + a * B - a * b
      /\ AmA * BmB = A * B - A * b - a * B + a * b
      /\ ApA * BpB = A * B + A * b + a * B + a * b
    BY SMT
<1> QED
    BY <1>3, <1>4, SMT

LEMMA WrapInRange == \A n \in Int : Wrap(n) \in CInt
<1> SUFFICES ASSUME NEW n \in Int PROVE Wrap(n) \in CInt
    OBVIOUS
<1> DEFINE m == 2 * (IntMax + 1)
           d == n - IntMin
<1>1. m \in Nat /\ m > 0 /\ d \in Int /\ IntMin \in Int
    BY PagingAssumption DEF IntMin
<1>2. d % m \in 0 .. m - 1
  <2> HIDE DEF m, d
  <2> QED
      BY <1>1
<1>3. m - 1 + IntMin = IntMax
    BY PagingAssumption DEF IntMin
<1>4. Wrap(n) = (d % m) + IntMin
    BY DEF Wrap
<1> HIDE DEF m, d
<1> QED
    BY <1>1, <1>2, <1>3, <1>4, PagingAssumption DEF CInt, IntMin

LEMMA WrapKeepsInts == \A n \in CInt : Wrap(n) = n
<1> SUFFICES ASSUME NEW n \in CInt PROVE Wrap(n) = n
    OBVIOUS
<1> DEFINE m == 2 * (IntMax + 1)
           d == n - IntMin
<1>1. m \in Nat /\ m > 0 /\ d \in 0 .. m - 1 /\ d + IntMin = n
    BY PagingAssumption DEF IntMin, CInt
<1>2. d % m = d
  <2> HIDE DEF m, d
  <2> QED
      BY <1>1
<1> QED
    BY <1>1, <1>2 DEF Wrap

\* However the build computes the product, it is an integer whose conversion
\* to size_t lies beyond every list if it is negative, and it is the product
\* if that fits.
LEMMA ProductFacts ==
    ASSUME NEW p \in CInt, NEW n \in CInt, NEW x \in Products(p, n)
    PROVE  /\ x \in Int /\ AsSize(x) \in Int
           /\ x < 0 => AsSize(x) > MaxSize
           /\ p - 1 \in CInt /\ (p - 1) * n \in CInt => x = (p - 1) * n
<1> DEFINE bound == (IntMax + 2) * (IntMax + 1)
<1>1. p \in Int /\ n \in Int /\ IntMax \in Nat /\ p - 1 \in Int /\ (p - 1) * n \in Int
    BY PagingAssumption DEF CInt, IntMin
<1>2. Wrap(p - 1) \in CInt /\ Wrap(p - 1) * n \in Int
    BY <1>1, WrapInRange DEF CInt, IntMin
<1>3. Wrap(Wrap(p - 1) * n) \in CInt
    BY <1>2, WrapInRange
<1>4. -bound <= (p - 1) * n
  <2>1. /\ -(IntMax + 2) <= p - 1 /\ p - 1 <= IntMax + 2
        /\ -(IntMax + 1) <= n /\ n <= IntMax + 1
      BY <1>1 DEF CInt, IntMin
  <2> QED
      BY <1>1, <2>1, ProductBounds
<1>5. -bound <= -(IntMax + 1) /\ bound \in Int
    BY <1>1, SMT
<1>6. x \in Int /\ -bound <= x
  <2>1. CASE x = (p - 1) * n
      BY <1>1, <1>4, <2>1
  <2>2. CASE x = Wrap(Wrap(p - 1) * n)
      BY <1>1, <1>3, <1>5, <2>2 DEF CInt, IntMin
  <2> QED
      BY <2>1, <2>2 DEF Products
<1>7. x < 0 => AsSize(x) > MaxSize
  <2> HIDE DEF bound
  <2>1. MaxSize + bound <= SizeMax
      BY PagingAssumption DEF bound
  <2> QED
      BY <1>5, <1>6, <2>1, PagingAssumption DEF AsSize
<1>8. p - 1 \in CInt /\ (p - 1) * n \in CInt => x = (p - 1) * n
    BY WrapKeepsInts DEF Products
<1>9. AsSize(x) \in Int
    BY <1>6, PagingAssumption DEF AsSize
<1> QED
    BY <1>6, <1>7, <1>8, <1>9

-----------------------------------------------------------------------------
(***************************************************************************)
(* While entries are skipped the iterator is i steps from where it began,  *)
(* and i is at most the product, which is below the size of the list.      *)
(***************************************************************************)
At(k) == IF order = "ASC" THEN k ELSE Size + 1 - k

InsideInv ==
    /\ PageTypeOK
    /\ pagePc \in {"idle", "check"} => it = 1 /\ i = 0 /\ out = <<>>
    /\ pagePc = "skip" =>
          /\ 0 <= product /\ product < Size /\ i <= product
          /\ it = At(i + 1) /\ out = <<>> /\ (page <= 1 => i = 0)
    /\ pagePc = "collect" => it \in 1 .. Size

LEMMA CheckInside == InsideInv /\ Check => InsideInv'
<1> USE DEF PageTypeOK, callVars
<1> SUFFICES ASSUME InsideInv, Check PROVE InsideInv'
    OBVIOUS
<1>1. /\ product' \in Int /\ AsSize(product') \in Int
      /\ product' < 0 => AsSize(product') > MaxSize
    BY ProductFacts DEF InsideInv, Check
<1>2. CASE Size > AsSize(product')
  <2>1. Size \in Nat /\ Size <= MaxSize /\ i = 0 /\ out = <<>>
      BY DEF InsideInv, Check, Size
  <2>2. 0 <= product' /\ product' < Size
    <3>1. CASE product' < 0
        BY <1>1, <1>2, <2>1, <3>1, PagingAssumption
    <3>2. CASE ~(product' < 0)
        BY <1>1, <1>2, <2>1, <3>2 DEF AsSize
    <3> QED
        BY <3>1, <3>2
  <2>3. Start = At(1) /\ Start \in 1 .. Size
      BY <1>1, <2>1, <2>2 DEF Start, At
  <2>4. /\ pagePc' = "skip" /\ it' = Start /\ i' = i /\ out' = out
        /\ UNCHANGED <<gdtEntriesList, page, count, order>>
      BY <1>2 DEF Check
  <2>5. Size' = Size /\ At(1)' = At(1)
      BY <2>4 DEF Size, At
  <2> QED
      BY <1>1, <2>1, <2>2, <2>3, <2>4, <2>5 DEF InsideInv
<1>3. CASE ~(Size > AsSize(product'))
    BY <1>1, <1>3 DEF InsideInv, Check, Size
<1> QED
    BY <1>2, <1>3

LEMMA SkipInside == InsideInv /\ (Skip \/ Skipped) => InsideInv'
<1> USE DEF PageTypeOK, callVars, InsideInv, At, Size
<1> SUFFICES ASSUME InsideInv, Skip \/ Skipped PROVE InsideInv'
    OBVIOUS
<1>1. CASE Skip
  <2> USE <1>1 DEF Skip
  <2>1. /\ i \in Nat /\ product \in Int /\ i' = i + 1 /\ Size \in Nat /\ it \in Int
        /\ page > 1 /\ page \in Int
      BY PagingAssumption DEF CInt, IntMin
  <2>2. i' \in Nat /\ i' <= product
      BY <2>1
  <2>3. it' = At(i' + 1) /\ it' \in 1 .. Size
    <3>1. CASE order = "ASC"
        BY <2>1, <2>2, <3>1 DEF Further
    <3>2. CASE order # "ASC"
        BY <2>1, <2>2, <3>2 DEF Further
    <3> QED
        BY <3>1, <3>2
  <2> QED
      BY <2>1, <2>2, <2>3
<1>2. CASE Skipped
    BY <1>2 DEF Skipped
<1> QED
    BY <1>1, <1>2

LEMMA CollectInside ==
    InsideInv /\ (Collect \/ Collected \/ Return) => InsideInv'
<1> USE DEF PageTypeOK, callVars, InsideInv, At, Size
<1> SUFFICES ASSUME InsideInv, Collect \/ Collected \/ Return PROVE InsideInv'
    OBVIOUS
<1>1. CASE Collect
  <2>1. gdtEntriesList[it] \in Element /\ out' \in Seq(Element)
      BY <1>1 DEF Collect
  <2>2. it' \in 1 .. Size + 1 /\ (pagePc' = "collect" => it' \in 1 .. Size)
      BY <1>1 DEF Collect, AtLast, Further
  <2> QED
      BY <1>1, <2>1, <2>2 DEF Collect
<1>2. CASE Collected
    BY <1>2 DEF Collected
<1>3. CASE Return
    BY <1>3, PagingAssumption DEF Return, CInt, IntMin
<1> QED
    BY <1>1, <1>2, <1>3

LEMMA BeginInside == InsideInv /\ BeginAny => InsideInv'
<1> SUFFICES ASSUME InsideInv, NEW list \in Seq(Element), NEW p \in CInt,
                    NEW c \in CInt, NEW o \in {"ASC", "DESC"},
                    Len(list) <= MaxSize, Begin(list, p, c, o)
             PROVE  InsideInv'
    BY DEF BeginAny
<1>1. Size' = Len(list) /\ Len(list) \in Nat /\ it' = 1
    BY DEF InsideInv, Begin, Size
<1> QED
    BY <1>1 DEF InsideInv, Begin, PageTypeOK

LEMMA PageInitInside == PageInit => InsideInv
<1> SUFFICES ASSUME PageInit PROVE InsideInv
    OBVIOUS
<1>1. 0 \in CInt
    BY PagingAssumption DEF CInt, IntMin
<1>2. Size = 0 /\ gdtEntriesList \in Seq(Element) /\ out \in Seq(Element)
    BY DEF PageInit, Size
<1> QED
    BY <1>1, <1>2, PagingAssumption DEF PageInit, InsideInv, PageTypeOK

LEMMA InsideStep == InsideInv /\ [BeginAny \/ PageStep]_pageVars => InsideInv'
<1>1. InsideInv /\ UNCHANGED pageVars => InsideInv'
    BY DEF InsideInv, PageTypeOK, pageVars, callVars, Size, At
<1> QED
    BY <1>1, CheckInside, SkipInside, CollectInside, BeginInside DEF PageStep

LEMMA AlwaysInside == PagingSpec => []InsideInv
    BY PageInitInside, InsideStep, PTL DEF PagingSpec

\* The variables of a call keep their types: the iterator is a position of the
\* list or end(), whatever the client asks for.
THEOREM PageTypes == PagingSpec => []PageTypeOK
<1>1. InsideInv => PageTypeOK
    BY DEF InsideInv
<1> QED
    BY <1>1, AlwaysInside, PTL

\* No page, count, length or build makes the iterator leave the list while it
\* skips or is read.
THEOREM IteratorInside == PagingSpec => []IteratorStaysInside
<1>1. ASSUME InsideInv PROVE IteratorStaysInside
  <2> USE <1>1 DEF InsideInv, PageTypeOK
  <2>1. Size \in Nat /\ i \in Nat /\ product \in Int
      BY DEF Size
  <2>2. CASE pagePc = "skip"
      BY <2>1, <2>2 DEF At, IteratorStaysInside
  <2>3. CASE pagePc # "skip"
      BY <2>3 DEF IteratorStaysInside
  <2> QED
      BY <2>2, <2>3
<1> QED
    BY <1>1, AlwaysInside, PTL

-----------------------------------------------------------------------------
(***************************************************************************)
(* While entries are collected those written are the first i of the page,  *)
(* and the iterator stands at the next one.                                *)
(***************************************************************************)
InRange == page - 1 \in CInt /\ Before \in CInt

PieceInv ==
    InRange =>
        /\ pagePc = "skip" => product = Before
        /\ pagePc = "collect" =>
              IF page >= 1 /\ count >= 1
              THEN /\ Len(out) = i /\ i <= count
                   /\ Before + i < Size /\ it = At(Before + i + 1)
                   /\ \A k \in DOMAIN out : out[k] = Entries(Before + k)
              ELSE count < 1 /\ out = <<>>
        /\ PageIsRight

\* Where a page begins.
LEMMA BeforeSign ==
    ASSUME PageTypeOK
    PROVE  /\ page \in Int /\ count \in Int /\ Before \in Int /\ Size \in Nat
           /\ page >= 1 /\ count >= 1 => Before >= 0
           /\ page = 1 => Before = 0
           /\ page < 1 /\ count >= 1 => Before < 0
<1>1. page \in Int /\ count \in Int /\ Size \in Nat
    BY PagingAssumption DEF PageTypeOK, CInt, IntMin, Size
<1>2. \A a, b \in Int :
        /\ a * b \in Int
        /\ a >= 0 /\ b >= 1 => a * b >= 0
        /\ a = 0 => a * b = 0
        /\ a < 0 /\ b >= 1 => a * b < 0
    BY SMT
<1>3. page - 1 \in Int
    BY <1>1
<1> QED
    BY <1>1, <1>2, <1>3 DEF Before

LEMMA CheckPiece == InsideInv /\ PieceInv /\ Check => PieceInv'
<1> SUFFICES ASSUME InsideInv, PieceInv, Check, InRange' PROVE PieceInv'
    BY DEF PieceInv
<1>1. InRange /\ Before' = Before /\ Size' = Size /\ PageLength' = PageLength
    BY DEF Check, callVars, InRange, Before, Size, PageLength
<1>2. product' = Before
    BY <1>1, ProductFacts DEF InsideInv, PageTypeOK, Check, InRange, Before
<1>3. CASE Size > AsSize(product')
    BY <1>1, <1>2, <1>3 DEF Check, PieceInv, PageIsRight
<1>4. CASE ~(Size > AsSize(product'))
  <2>1. PageLength = 0
      BY <1>2, <1>4, BeforeSign DEF InsideInv, AsSize, PageLength
  <2>2. out' = <<>> /\ pagePc' = "done"
      BY <1>4 DEF Check, InsideInv
  <2> QED
      BY <1>1, <2>1, <2>2 DEF PieceInv, PageIsRight
<1> QED
    BY <1>3, <1>4

LEMMA SkipPiece == InsideInv /\ PieceInv /\ (Skip \/ Skipped) => PieceInv'
<1> SUFFICES ASSUME InsideInv, PieceInv, Skip \/ Skipped, InRange' PROVE PieceInv'
    BY DEF PieceInv
<1>1. /\ InRange /\ Before' = Before /\ Size' = Size /\ out' = out
      /\ UNCHANGED <<gdtEntriesList, page, count, order, product>>
    BY DEF Skip, Skipped, callVars, InRange, Before, Size
<1>2. CASE Skip
    BY <1>1, <1>2 DEF Skip, PieceInv, PageIsRight
<1>3. CASE Skipped
  <2>1. product = Before /\ 0 <= Before /\ Before < Size /\ out = <<>>
      BY <1>1, <1>3 DEF Skipped, PieceInv, InsideInv
  <2>2. CASE page >= 1 /\ count >= 1
    <3>1. i = Before
        BY <1>3, <2>1, <2>2, BeforeSign DEF Skipped, InsideInv, PageTypeOK
    <3>2. it' = At(Before + 0 + 1)'
        BY <1>1, <1>3, <2>1, <3>1, BeforeSign DEF Skipped, InsideInv, At
    <3> QED
        BY <1>1, <1>3, <2>1, <2>2, <3>2, BeforeSign
        DEF Skipped, PieceInv, PageIsRight, InsideInv
  <2>3. CASE ~(page >= 1 /\ count >= 1)
    <3>1. count < 1
        BY <2>1, <2>3, BeforeSign DEF InsideInv
    <3> QED
        BY <1>1, <1>3, <2>1, <2>3, <3>1 DEF Skipped, PieceInv, PageIsRight
  <2> QED
      BY <2>2, <2>3
<1> QED
    BY <1>2, <1>3

LEMMA CollectPiece == InsideInv /\ PieceInv /\ (Collect \/ Collected) => PieceInv'
<1> SUFFICES ASSUME InsideInv, PieceInv, Collect \/ Collected, InRange'
             PROVE  PieceInv'
    BY DEF PieceInv
<1>1. /\ InRange /\ Before' = Before /\ Size' = Size /\ PageLength' = PageLength
      /\ UNCHANGED <<gdtEntriesList, page, count, order, product>>
    BY DEF Collect, Collected, callVars, InRange, Before, Size, PageLength
<1>2. \A k \in Int : Entries(k)' = Entries(k) /\ Entries(k) = gdtEntriesList[At(k)]
    BY <1>1 DEF Entries, At
<1>3. CASE ~(page >= 1 /\ count >= 1)
  <2>1. count < 1 /\ out = <<>> /\ pagePc = "collect"
      BY <1>1, <1>3 DEF PieceInv, Collect, Collected
  <2>2. Collected
      BY <2>1, BeforeSign DEF InsideInv, PageTypeOK, Collect
  <2> QED
      BY <1>1, <1>3, <2>1, <2>2 DEF Collected, PieceInv, PageIsRight, PageLength
<1>4. CASE page >= 1 /\ count >= 1
  <2>1. /\ Len(out) = i /\ i <= count /\ Before + i < Size /\ it = At(Before + i + 1)
        /\ \A k \in DOMAIN out : out[k] = Entries(Before + k)
        /\ pagePc = "collect" /\ i \in Nat /\ out \in Seq(Element)
      BY <1>1, <1>4 DEF PieceInv, Collect, Collected, InsideInv, PageTypeOK
  <2>2. /\ page \in Int /\ count \in Int /\ Before \in Int /\ Size \in Nat
        /\ Before >= 0
      BY <1>4, BeforeSign DEF InsideInv
  <2>3. CASE Collected
    <3>1. i = count /\ PageLength = count
        BY <1>4, <2>1, <2>2, <2>3 DEF Collected, PageLength
    <3>2. out' = out /\ pagePc' = "done"
        BY <2>3 DEF Collected
    <3> QED
        BY <1>1, <1>2, <2>1, <2>2, <3>1, <3>2 DEF PieceInv, PageIsRight
  <2>4. CASE Collect
    <3>1. Len(out') = i + 1 /\ i' = i + 1 /\ i + 1 <= count
        BY <2>1, <2>2, <2>4 DEF Collect
    <3>2. \A k \in DOMAIN out' : out'[k] = Entries(Before + k)
      <4>1. gdtEntriesList[it] = Entries(Before + (i + 1))
          BY <1>2, <2>1, <2>2
      <4>2. out' = Append(out, gdtEntriesList[it])
          BY <2>4 DEF Collect
      <4> HIDE DEF Entries
      <4> QED
          BY <2>1, <4>1, <4>2
    <3>3. CASE AtLast
      <4>1. Before + i + 1 = Size
          BY <2>1, <2>2, <3>3 DEF AtLast, At
      <4>2. PageLength = i + 1 /\ pagePc' = "done"
          BY <1>4, <2>1, <2>2, <2>4, <3>1, <3>3, <4>1 DEF PageLength, Collect
      <4> QED
          BY <1>1, <1>2, <2>2, <3>1, <3>2, <4>2 DEF PieceInv, PageIsRight
    <3>4. CASE ~AtLast
      <4>1. Before + i + 1 # Size
          BY <2>1, <2>2, <3>4 DEF AtLast, At
      <4>2. it' = Further /\ pagePc' = "collect" /\ Before + i' < Size
          BY <2>1, <2>2, <2>4, <3>1, <3>4, <4>1 DEF Collect
      <4>3. CASE order = "ASC"
        <5>1. At(Before + i + 1) = Before + i + 1 /\ Further = it + 1
            BY <4>3 DEF At, Further
        <5>2. At(Before + i + 1)' = Before + i' + 1
            BY <1>1, <4>3 DEF At
        <5> QED
            BY <1>1, <1>2, <1>4, <2>1, <2>2, <3>1, <3>2, <4>2, <5>1, <5>2
            DEF PieceInv, PageIsRight
      <4>4. CASE order # "ASC"
        <5>1. At(Before + i + 1) = Size + 1 - (Before + i + 1) /\ Further = it - 1
            BY <4>4 DEF At, Further
        <5>2. At(Before + i + 1)' = Size + 1 - (Before + i' + 1)
            BY <1>1, <4>4 DEF At
        <5> QED
            BY <1>1, <1>2, <1>4, <2>1, <2>2, <3>1, <3>2, <4>2, <5>1, <5>2
            DEF PieceInv, PageIsRight
      <4> QED
          BY <4>3, <4>4
    <3> QED
        BY <3>3, <3>4
  <2> QED
      BY <2>3, <2>4
<1> QED
    BY <1>3, <1>4

LEMMA PieceStep ==
    InsideInv /\ PieceInv /\ [BeginAny \/ PageStep]_pageVars => PieceInv'
<1>1. BeginAny \/ Return => PieceInv'
    BY DEF BeginAny, Begin, Return, PieceInv, PageIsRight
<1>2. PieceInv /\ UNCHANGED pageVars => PieceInv'
    BY DEF PieceInv, InRange, Before, Size, PageIsRight, PageLength, Entries, At,
           pageVars, callVars
<1> QED
    BY <1>1, <1>2, CheckPiece, SkipPiece, CollectPiece DEF PageStep

\* Every page whose product fits an int is the piece of the list it should be,
\* in both orders, for every length of the list and also if the page is short
\* or empty.
THEOREM PagesAreRight == PagingSpec => []PageIsRight
<1>1. PageInit => PieceInv
    BY DEF PageInit, PieceInv, PageIsRight
<1>2. PieceInv => PageIsRight
    BY DEF PieceInv, InRange, PageIsRight
<1> QED
    BY <1>1, <1>2, AlwaysInside, PieceStep, PTL DEF PagingSpec
=============================================================================
