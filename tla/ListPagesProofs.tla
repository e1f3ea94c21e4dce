--------------------------- MODULE ListPagesProofs ---------------------------
(***************************************************************************)
(* Lists are in the order of dates for any table, any number of rows and   *)
(* any entries inserted later, and after a query they are complete.        *)
(***************************************************************************)
EXTENDS ListPages, PagingProofs, Induction, SequenceTheorems, FiniteSetTheorems

\* A value of the class GdtEntryList.
LEMMA EmptyListIsOrdered == EmptyList \in List /\ Ordered(EmptyList)
    BY DEF EmptyList, List, Ordered

LEMMA EntryDates ==
    \A e \in Entry : e.date \in Nat /\ e.date \in Int /\ e.gdt \in Int
<1> SUFFICES ASSUME NEW e \in Entry
             PROVE  e.date \in Nat /\ e.date \in Int /\ e.gdt \in Int
    OBVIOUS
<1>1. e.date \in Date /\ e.gdt \in Int
    BY LoadingAssumption DEF Entry
<1>2. Date \subseteq Nat
    BY LoadingAssumption
<1>3. e.date \in Nat
    BY <1>1, <1>2, Zenon
<1> QED
    BY <1>1, <1>3

\* The list after an addition, with s for its entries.
WithEntries(l, e, s) == [Counted(l, e) EXCEPT !.mGdtEntries = s]

\* What addGdtEntry counts.
LEMMA CountedIsList ==
    ASSUME NEW l \in List, NEW e \in Entry, NEW s \in Seq(Entry)
    PROVE  /\ Counted(l, e) \in List /\ Counted(l, e).mGdtEntries = l.mGdtEntries
           /\ WithEntries(l, e, s) \in List
           /\ WithEntries(l, e, s).mGdtEntries = s
<1>1. Counted(l, e) \in List /\ Counted(l, e).mGdtEntries = l.mGdtEntries
  <2>1. l.mTotalCount + 1 \in Nat /\ l.mTotalGDTSum + e.gdt \in Int
      BY EntryDates DEF List
  <2> QED
      BY <2>1 DEF Counted, List
<1> QED
    BY <1>1 DEF List, WithEntries

\* addGdtEntry makes a list, whatever the date.
LEMMA AddIsList ==
    ASSUME NEW l \in List, NEW e \in Entry
    PROVE  addGdtEntry(l, e) \in List
<1>1. l.mGdtEntries \in Seq(Entry) /\ Append(l.mGdtEntries, e) \in Seq(Entry)
    BY DEF List
<1>2. addGdtEntry(l, e) = WithEntries(l, e, Append(l.mGdtEntries, e))
  <2>1. Counted(l, e).mGdtEntries = l.mGdtEntries
      BY <1>1, CountedIsList
  <2> QED
      BY <2>1, Zenon DEF addGdtEntry, WithEntries
<1> QED
    BY <1>1, <1>2, CountedIsList

\* What addGdtEntry makes of a list and a late entry.
LEMMA AddKeepsOrder ==
    ASSUME NEW l \in List, Ordered(l), NEW e \in Entry, IsLate(l, e)
    PROVE  /\ addGdtEntry(l, e) \in List /\ Ordered(addGdtEntry(l, e))
           /\ addGdtEntry(l, e).mGdtEntries # <<>>
           /\ Last(addGdtEntry(l, e).mGdtEntries) = e
<1> DEFINE s == l.mGdtEntries
           t == addGdtEntry(l, e).mGdtEntries
<1>1. s \in Seq(Entry) /\ t = Append(s, e) /\ addGdtEntry(l, e) \in List
  <2>1. s \in Seq(Entry) /\ Append(s, e) \in Seq(Entry)
      BY DEF List
  <2>2. addGdtEntry(l, e) = WithEntries(l, e, Append(s, e))
    <3>1. Counted(l, e).mGdtEntries = s
        BY CountedIsList, <2>1
    <3> HIDE DEF s
    <3> QED
        BY <3>1, Zenon DEF addGdtEntry, WithEntries
  <2>3. /\ WithEntries(l, e, Append(s, e)) \in List
        /\ WithEntries(l, e, Append(s, e)).mGdtEntries = Append(s, e)
      BY CountedIsList, <2>1
  <2> QED
      BY <2>1, <2>2, <2>3, Zenon
<1>2. \A k \in 1 .. Len(s) : s[k] \in Entry
    BY <1>1
<1>3. \A k \in 1 .. Len(s) : s[k].date <= e.date
  <2> SUFFICES ASSUME NEW k \in 1 .. Len(s) PROVE s[k].date <= e.date
      OBVIOUS
  <2>1. Len(s) \in Nat /\ Len(s) \in 1 .. Len(s) /\ s # <<>>
      BY <1>1
  <2>2. s[Len(s)].date <= e.date
      BY <2>1 DEF IsLate, Last
  <2>3. k = Len(s) \/ s[k].date <= s[Len(s)].date
      BY <1>1, <2>1 DEF Ordered
  <2> QED
      BY <1>2, <2>1, <2>2, <2>3, EntryDates
<1>4. Len(t) = Len(s) + 1 /\ t[Len(t)] = e /\ \A k \in 1 .. Len(s) : t[k] = s[k]
    BY <1>1
<1>5. \A a, b \in DOMAIN t : a < b => t[a].date <= t[b].date
    BY <1>1, <1>2, <1>3, <1>4 DEF Ordered
<1> QED
    BY <1>1, <1>4, <1>5 DEF Ordered, Last

\* The place insertGdtEntry looks for exists if the entry is not late: the
\* smallest index at which the date is not before that of the entry.
LEMMA PlaceExists ==
    ASSUME NEW s \in Seq(Entry), NEW date \in Nat,
           NEW n \in DOMAIN s, s[n].date >= date
    PROVE  LET f == FirstNotBefore(s, date) IN
           /\ f \in DOMAIN s /\ s[f].date >= date
           /\ \A j \in DOMAIN s : j < f => s[j].date < date
<1> DEFINE T == {k \in DOMAIN s : s[k].date >= date}
<1>1. T \subseteq Nat /\ T # {}
    OBVIOUS
<1>2. PICK x \in T : \A y \in T : ~(<<y, x>> \in OpToRel(<, Nat))
  <2> HIDE DEF T
  <2> QED
      BY <1>1, WFMin, NatLessThanWellFounded, Zenon
<1>3. \A y \in T : ~(y < x)
  <2> HIDE DEF T
  <2> QED
      BY <1>1, <1>2, Zenon DEF OpToRel
<1>4. \A j \in DOMAIN s : j < x => s[j].date < date
    BY <1>1, <1>3, EntryDates
<1> QED
    BY <1>4 DEF FirstNotBefore

\* The entries t are those of s with e put before the f-th.
PutInto(s, f, e, t) ==
    /\ t \in Seq(Entry) /\ Len(t) = Len(s) + 1
    /\ \A k \in 1 .. Len(s) + 1 :
          t[k] = IF k < f THEN s[k] ELSE IF k = f THEN e ELSE s[k - 1]

\* What insertGdtEntry makes of a list and an entry that is not late.
LEMMA InsertPuts ==
    ASSUME NEW l \in List, NEW e \in Entry, ~IsLate(l, e)
    PROVE  LET s == l.mGdtEntries
               f == FirstNotBefore(s, e.date)
               t == insertGdtEntry(l, e).mGdtEntries
           IN  /\ f \in DOMAIN s /\ s[f].date >= e.date
               /\ \A j \in DOMAIN s : j < f => s[j].date < e.date
               /\ PutInto(s, f, e, t)
               /\ insertGdtEntry(l, e) \in List
               /\ insertGdtEntry(l, e) = WithEntries(l, e, t)
<1> DEFINE s == l.mGdtEntries
           f == FirstNotBefore(s, e.date)
           front == SubSeq(s, 1, f - 1)
           rest == SubSeq(s, f, Len(s))
           t == InsertAt(s, f, e)
<1>1. s \in Seq(Entry) /\ s # <<>> /\ Len(s) \in DOMAIN s /\ ~(s[Len(s)].date <= e.date)
    BY DEF List, IsLate, Last
<1>2. \A k \in DOMAIN s : s[k] \in Entry /\ s[k].date \in Int
    BY <1>1, EntryDates
<1>3. e.date \in Nat /\ e.date \in Int
    BY EntryDates
<1>4. /\ f \in DOMAIN s /\ s[f].date >= e.date
      /\ \A j \in DOMAIN s : j < f => s[j].date < e.date
  <2>1. s[Len(s)].date >= e.date
      BY <1>1, <1>2, <1>3
  <2> QED
      BY <1>1, <1>3, <2>1, PlaceExists
<1> HIDE DEF f
<1>6. f \in Nat /\ f >= 1 /\ f <= Len(s) /\ Len(s) \in Nat
    BY <1>1, <1>4
<1>7. /\ front \in Seq(Entry) /\ Len(front) = f - 1
      /\ \A k \in 1 .. f - 1 : front[k] = s[k]
      /\ rest \in Seq(Entry) /\ Len(rest) = Len(s) - f + 1
      /\ \A k \in 1 .. Len(s) - f + 1 : rest[k] = s[f + k - 1]
  <2> HIDE DEF s
  <2>1. 1 \in Int /\ f - 1 \in Int /\ \A k \in 1 .. f - 1 : s[k] \in Entry
      BY <1>1, <1>2, <1>6
  <2>2. f \in Int /\ Len(s) \in Int /\ \A k \in f .. Len(s) : s[k] \in Entry
      BY <1>1, <1>2, <1>6
  <2>3. /\ front \in Seq(Entry) /\ Len(front) = f - 1
        /\ \A k \in 1 .. f - 1 : front[k] = s[k]
      BY <1>6, <2>1, SubSeqProperties
  <2>4. /\ rest \in Seq(Entry) /\ Len(rest) = Len(s) - f + 1
        /\ \A k \in 1 .. Len(s) - f + 1 : rest[k] = s[f + k - 1]
      BY <1>6, <2>2, SubSeqProperties
  <2> QED
      BY <2>3, <2>4
<1>8. /\ t \in Seq(Entry) /\ Len(t) = Len(s) + 1
      /\ \A k \in 1 .. Len(s) + 1 :
            t[k] = IF k < f THEN s[k] ELSE IF k = f THEN e ELSE s[k - 1]
  <2> HIDE DEF front, rest, s
  <2>1. t = front \o <<e>> \o rest
      BY DEF InsertAt, front, rest
  <2> DEFINE u == front \o <<e>>
  <2> HIDE DEF t
  <2>2. /\ u \in Seq(Entry) /\ Len(u) = f
        /\ \A k \in 1 .. f : u[k] = IF k < f THEN s[k] ELSE e
    <3>1. <<e>> \in Seq(Entry) /\ Len(<<e>>) = 1 /\ <<e>>[1] = e
        OBVIOUS
    <3>2. /\ u \in Seq(Entry) /\ Len(u) = Len(front) + Len(<<e>>)
          /\ \A k \in 1 .. Len(front) + Len(<<e>>) :
                u[k] = IF k <= Len(front) THEN front[k] ELSE <<e>>[k - Len(front)]
        BY <1>7, <3>1, ConcatProperties
    <3> HIDE DEF u, front, s
    <3>3. Len(u) = f /\ Len(front) = f - 1 /\ Len(front) + Len(<<e>>) = f
        BY <1>6, <1>7, <3>1, <3>2
    <3>4. ASSUME NEW k \in 1 .. f PROVE u[k] = IF k < f THEN s[k] ELSE e
      <4>1. CASE k < f
          BY <1>6, <1>7, <3>2, <3>3, <4>1
      <4>2. CASE ~(k < f)
        <5>1. k - Len(front) = 1 /\ ~(k <= Len(front))
            BY <1>6, <3>3, <4>2
        <5> QED
            BY <3>1, <3>2, <3>3, <4>2, <5>1
      <4> QED
          BY <4>1, <4>2
    <3> QED
        BY <3>2, <3>3, <3>4
  <2>3. /\ t \in Seq(Entry) /\ Len(t) = Len(s) + 1
        /\ \A k \in 1 .. Len(s) + 1 :
              t[k] = IF k <= f THEN u[k] ELSE rest[k - f]
    <3>1. t = u \o rest
        BY <2>1
    <3> HIDE DEF u
    <3>2. /\ t \in Seq(Entry) /\ Len(t) = Len(u) + Len(rest)
          /\ \A k \in 1 .. Len(u) + Len(rest) :
                t[k] = IF k <= Len(u) THEN u[k] ELSE rest[k - Len(u)]
        BY <1>7, <2>2, <3>1, ConcatProperties
    <3> QED
        BY <1>6, <1>7, <2>2, <3>2
  <2> HIDE DEF u
  <2>4. ASSUME NEW k \in 1 .. Len(s) + 1
        PROVE  t[k] = IF k < f THEN s[k] ELSE IF k = f THEN e ELSE s[k - 1]
    <3>1. CASE k <= f
        BY <1>6, <2>2, <2>3, <3>1
    <3>2. CASE k > f
      <4>1. k - f \in 1 .. Len(s) - f + 1 /\ f + (k - f) - 1 = k - 1
          BY <1>6, <3>2
      <4>2. rest[k - f] = s[k - 1]
          BY <1>7, <4>1
      <4> QED
          BY <1>6, <2>3, <3>2, <4>2
    <3> QED
        BY <1>6, <3>1, <3>2
  <2> QED
      BY <2>3, <2>4
<1>9. /\ insertGdtEntry(l, e) \in List
      /\ insertGdtEntry(l, e) = WithEntries(l, e, t)
      /\ insertGdtEntry(l, e).mGdtEntries = t
  <2>1. Counted(l, e).mGdtEntries = s
      BY <1>1, CountedIsList
  <2>2. insertGdtEntry(l, e) = WithEntries(l, e, t)
    <3> DEFINE old == Counted(l, e).mGdtEntries
    <3>1. insertGdtEntry(l, e) =
              WithEntries(l, e, InsertAt(old, FirstNotBefore(old, e.date), e))
        BY Zenon DEF insertGdtEntry, WithEntries
    <3>2. old = s
        BY <2>1
    <3> HIDE DEF old, s
    <3> QED
        BY <3>1, <3>2, Zenon DEF f
  <2>3. WithEntries(l, e, t) \in List /\ WithEntries(l, e, t).mGdtEntries = t
    <3>1. t \in Seq(Entry)
        BY <1>8
    <3> HIDE DEF t
    <3> QED
        BY <3>1, CountedIsList
  <2> QED
      BY <2>2, <2>3, Zenon
<1> QED
    BY <1>4, <1>8, <1>9 DEF PutInto, f, s

LEMMA InsertKeepsOrder ==
    ASSUME NEW l \in List, Ordered(l), NEW e \in Entry, ~IsLate(l, e)
    PROVE  insertGdtEntry(l, e) \in List /\ Ordered(insertGdtEntry(l, e))
<1> DEFINE s == l.mGdtEntries
           f == FirstNotBefore(s, e.date)
           t == insertGdtEntry(l, e).mGdtEntries
<1>1. s \in Seq(Entry)
    BY DEF List
<1>2. \A k \in DOMAIN s : s[k] \in Entry /\ s[k].date \in Int
    BY <1>1, EntryDates
<1>3. e.date \in Nat /\ e.date \in Int
    BY EntryDates
<1>4. /\ f \in DOMAIN s /\ s[f].date >= e.date
      /\ \A j \in DOMAIN s : j < f => s[j].date < e.date
    BY InsertPuts
<1>5. \A a, b \in DOMAIN s : a < b => s[a].date <= s[b].date
    BY DEF Ordered
<1>7. PutInto(s, f, e, t) /\ insertGdtEntry(l, e) \in List
    BY InsertPuts
<1> HIDE DEF f, t
<1>6. f \in Nat /\ f >= 1 /\ f <= Len(s) /\ Len(s) \in Nat
    BY <1>1, <1>4
<1>8. /\ t \in Seq(Entry) /\ Len(t) = Len(s) + 1
      /\ \A k \in 1 .. Len(s) + 1 :
            t[k] = IF k < f THEN s[k] ELSE IF k = f THEN e ELSE s[k - 1]
    BY <1>7 DEF PutInto
<1>9. \A a, b \in DOMAIN t : a < b => t[a].date <= t[b].date
  <2> SUFFICES ASSUME NEW m \in 1 .. Len(s) + 1, NEW n \in 1 .. Len(s) + 1, m < n
               PROVE  t[m].date <= t[n].date
      BY <1>8
  <2>1. CASE n < f
    <3>1. t[m] = s[m] /\ t[n] = s[n] /\ m \in DOMAIN s /\ n \in DOMAIN s
        BY <1>1, <1>6, <1>8, <2>1
    <3> QED
        BY <1>5, <3>1
  <2>2. CASE m < f /\ n = f
    <3>1. t[m] = s[m] /\ t[n] = e /\ m \in DOMAIN s
        BY <1>1, <1>6, <1>8, <2>2
    <3> QED
        BY <1>2, <1>3, <1>4, <2>2, <3>1
  <2>3. CASE m < f /\ n > f
    <3>1. t[m] = s[m] /\ t[n] = s[n - 1] /\ m < n - 1 /\ m \in DOMAIN s /\ n - 1 \in DOMAIN s
        BY <1>1, <1>6, <1>8, <2>3
    <3> QED
        BY <1>5, <3>1
  <2>4. CASE m = f
    <3>1. t[m] = e /\ t[n] = s[n - 1] /\ n - 1 \in DOMAIN s /\ f <= n - 1
        BY <1>1, <1>6, <1>8, <2>4
    <3>2. s[f].date <= s[n - 1].date
        BY <1>2, <1>4, <1>5, <1>6, <3>1
    <3> QED
        BY <1>2, <1>3, <1>4, <3>1, <3>2
  <2>5. CASE m > f
    <3>1. /\ t[m] = s[m - 1] /\ t[n] = s[n - 1] /\ m - 1 < n - 1
          /\ m - 1 \in DOMAIN s /\ n - 1 \in DOMAIN s
        BY <1>1, <1>6, <1>8, <2>5
    <3> QED
        BY <1>5, <3>1
  <2> QED
      BY <1>6, <2>1, <2>2, <2>3, <2>4, <2>5
<1> QED
    BY <1>7, <1>9 DEF Ordered, t

-----------------------------------------------------------------------------
(***************************************************************************)
(* While rows are read no list ends with a date after that of a row still  *)
(* to be read: the query sorts by date, for all customers together.        *)
(***************************************************************************)
NotYetPassed(l) ==
    l.mGdtEntries # <<>> =>
        \A r \in unread : Last(l.mGdtEntries).date <= gdt_entries[r].date

OrderInv ==
    /\ gdt_entries \in [Id -> Row] /\ unread \subseteq Id
    /\ gdtEntries \in [Customer -> List \cup {NoList}]
    /\ outOfOrder = FALSE
    /\ loadPc = "done" => unread = {}
    /\ \A c \in Customer : gdtEntries[c] # NoList =>
          Ordered(gdtEntries[c]) /\ NotYetPassed(gdtEntries[c])

LEMMA QueryOrder ==
    ASSUME OrderInv, NEW q, Query(q)
    PROVE  OrderInv'
<1>1. gdtEntries' \in [Customer -> List \cup {NoList}]
    BY EmptyListIsOrdered DEF Query
<1>2. \A c \in Customer : gdtEntries'[c] # NoList => gdtEntries'[c] = EmptyList
    BY DEF Query
<1>3. \A c \in Customer : gdtEntries'[c] # NoList =>
          Ordered(gdtEntries[c])' /\ NotYetPassed(gdtEntries[c])'
  <2> SUFFICES ASSUME NEW c \in Customer, gdtEntries'[c] = EmptyList
               PROVE  Ordered(gdtEntries'[c]) /\ gdtEntries'[c].mGdtEntries = <<>>
      BY <1>2 DEF NotYetPassed
  <2> QED
      BY EmptyListIsOrdered DEF EmptyList
<1>4. unread' \subseteq Id /\ gdt_entries' = gdt_entries /\ outOfOrder' = outOfOrder
      /\ loadPc' = "rows"
    BY DEF Query, RowsOf
<1> QED
    BY <1>1, <1>3, <1>4 DEF OrderInv

LEMMA ReadRowOrder ==
    ASSUME OrderInv, NEW r \in Id, ReadRow(r)
    PROVE  OrderInv'
<1> DEFINE c == gdt_entries[r].customer
           e == EntryOf(r)
           l == ListFor(c)
<1>1. c \in Customer /\ e \in Entry /\ e.date = gdt_entries[r].date /\ r \in unread
    BY LoadingAssumption DEF OrderInv, Row, EntryOf, Entry, ReadRow, NextRows
<1>2. l \in List /\ Ordered(l) /\ NotYetPassed(l)
  <2>1. CASE gdtEntries[c] = NoList
    <3>1. l = EmptyList
        BY <2>1 DEF ListFor
    <3> QED
        BY <3>1, EmptyListIsOrdered DEF NotYetPassed, EmptyList
  <2>2. CASE gdtEntries[c] # NoList
    <3>1. l = gdtEntries[c]
        BY <2>2 DEF ListFor
    <3> QED
        BY <1>1, <2>2, <3>1 DEF OrderInv
  <2> QED
      BY <2>1, <2>2
<1> HIDE DEF l, c, e
<1>3. IsLate(l, e)
    BY <1>1, <1>2 DEF IsLate, NotYetPassed
<1>4. /\ addGdtEntry(l, e) \in List /\ Ordered(addGdtEntry(l, e))
      /\ Last(addGdtEntry(l, e).mGdtEntries) = e
    BY <1>1, <1>2, <1>3, AddKeepsOrder
<1>5. /\ gdtEntries' = [gdtEntries EXCEPT ![c] = addGdtEntry(l, e)]
      /\ outOfOrder' = (outOfOrder \/ ~IsLate(l, e))
      /\ unread' = unread \ {r} /\ gdt_entries' = gdt_entries /\ loadPc' = loadPc
      /\ loadPc = "rows"
      /\ \A s \in unread : gdt_entries[r].date <= gdt_entries[s].date
    BY DEF ReadRow, c, e, l, NextRows
<1> HIDE DEF OrderInv
<1>6. ASSUME NEW d \in Customer, gdtEntries'[d] # NoList
      PROVE  Ordered(gdtEntries[d])' /\ NotYetPassed(gdtEntries[d])'
  <2>1. CASE d = c
    <3>1. gdtEntries'[d] = addGdtEntry(l, e)
        BY <1>1, <1>5, <2>1 DEF OrderInv
    <3>2. \A s \in unread' : Last(gdtEntries'[d].mGdtEntries).date <= gdt_entries'[s].date
        BY <1>1, <1>4, <1>5, <3>1
    <3> QED
        BY <1>4, <3>1, <3>2 DEF NotYetPassed
  <2>2. CASE d # c
    <3>1. gdtEntries'[d] = gdtEntries[d]
        BY <1>5, <2>2 DEF OrderInv
    <3>2. Ordered(gdtEntries[d]) /\ NotYetPassed(gdtEntries[d])
        BY <1>6, <3>1 DEF OrderInv
    <3> QED
        BY <1>5, <3>1, <3>2 DEF NotYetPassed
  <2> QED
      BY <2>1, <2>2
<1>7. gdtEntries' \in [Customer -> List \cup {NoList}]
    BY <1>1, <1>4, <1>5 DEF OrderInv
<1>8. outOfOrder' = FALSE
    BY <1>3, <1>5 DEF OrderInv
<1> QED
    BY <1>5, <1>6, <1>7, <1>8 DEF OrderInv

LEMMA InsertOrder ==
    ASSUME OrderInv, NEW c \in Customer, NEW id \in NewId, NEW date \in Date,
           Insert(c, id, date)
    PROVE  OrderInv'
<1> DEFINE e == [id |-> id, date |-> date, gdt |-> Gdt[id]]
           l == gdtEntries[c]
<1>1. e \in Entry
    BY LoadingAssumption DEF Entry
<1>2. l \in List /\ Ordered(l) /\ unread = {}
    BY DEF OrderInv, Insert
<1>3. gdtEntries' = [gdtEntries EXCEPT ![c] = insertGdtEntry(l, e)]
    BY Zenon DEF Insert
<1>4. UNCHANGED <<gdt_entries, unread, loadPc, outOfOrder>>
    BY DEF Insert
<1> HIDE DEF l, e
<1>5. insertGdtEntry(l, e) \in List /\ Ordered(insertGdtEntry(l, e))
  <2>1. CASE IsLate(l, e)
      BY <1>1, <1>2, <2>1, AddKeepsOrder DEF insertGdtEntry
  <2>2. CASE ~IsLate(l, e)
      BY <1>1, <1>2, <2>2, InsertKeepsOrder
  <2> QED
      BY <2>1, <2>2
<1>6. ASSUME NEW d \in Customer, gdtEntries'[d] # NoList
      PROVE  Ordered(gdtEntries[d])' /\ NotYetPassed(gdtEntries[d])'
  <2>1. CASE d = c
      BY <1>2, <1>3, <1>4, <1>5, <2>1 DEF OrderInv, NotYetPassed
  <2>2. CASE d # c
      BY <1>2, <1>3, <1>4, <1>6, <2>2 DEF OrderInv, NotYetPassed
  <2> QED
      BY <2>1, <2>2
<1>7. gdtEntries' \in [Customer -> List \cup {NoList}]
    BY <1>3, <1>5 DEF OrderInv
<1> QED
    BY <1>4, <1>6, <1>7 DEF OrderInv

LEMMA OrderStep == OrderInv /\ [Next]_vars => OrderInv'
<1> SUFFICES ASSUME OrderInv, [Next]_vars PROVE OrderInv'
    OBVIOUS
<1>1. CASE LoadNext
  <2>1. ASSUME NEW r \in Id, RowThrows(r) PROVE OrderInv'
      BY <2>1 DEF RowThrows, OrderInv
  <2>2. CASE RowsEnd
      BY <2>2 DEF RowsEnd, OrderInv, NotYetPassed
  <2> QED
      BY <1>1, <2>1, <2>2, QueryOrder, ReadRowOrder, InsertOrder DEF LoadNext
<1>2. CASE UNCHANGED loadVars
    BY <1>2 DEF loadVars, OrderInv, NotYetPassed
<1> QED
    BY <1>1, <1>2 DEF Next, Load, Show, Failed, vars

\* Both queries fill the lists in the order of dates, without a warning and
\* with the rows of the customers mixed, and insertGdtEntry keeps the order.
THEOREM OrderedLists == Spec => []ListsAreOrdered
<1>1. Init => OrderInv
    BY DEF Init, LoadInit, OrderInv
<1>2. OrderInv => ListsAreOrdered
    BY DEF OrderInv, ListsAreOrdered
<1> QED
    BY <1>1, <1>2, OrderStep, PTL DEF Spec

-----------------------------------------------------------------------------
(***************************************************************************)
(* A list that is being filled has the rows of its customer that have been *)
(* read, and its count is their number.                                    *)
(***************************************************************************)
ReadOf(c) == RowsOf(c) \ unread

HasRows(l, rows) ==
    IdsIn(l) = rows /\ IsFiniteSet(rows) /\ l.mTotalCount = Cardinality(rows)

Filled(c) ==
    IF gdtEntries[c] = NoList THEN query # c /\ (query = "all" => ReadOf(c) = {})
    ELSE /\ query = c \/ (query = "all" /\ ReadOf(c) # {})
         /\ HasRows(gdtEntries[c], ReadOf(c))

CompleteInv ==
    /\ OrderInv
    /\ inserts \in Nat
    /\ loadPc = "rows" /\ query # "all" => unread \subseteq RowsOf(query)
    /\ loadPc \in {"rows", "done"} /\ inserts = 0 => \A c \in Customer : Filled(c)

\* What addGdtEntry adds to the rows and to their number.
LEMMA AddToRows ==
    ASSUME NEW l \in List, NEW e \in Entry, NEW rows, HasRows(l, rows), e.id \notin rows
    PROVE  HasRows(addGdtEntry(l, e), rows \cup {e.id})
<1> DEFINE s == l.mGdtEntries
           a == addGdtEntry(l, e)
<1>1. s \in Seq(Entry) /\ l.mTotalCount \in Nat
    BY DEF List
<1>2. a.mGdtEntries = Append(s, e) /\ a.mTotalCount = l.mTotalCount + 1
  <2>1. /\ Counted(l, e) \in List /\ Counted(l, e).mGdtEntries = s
        /\ Counted(l, e).mTotalCount = l.mTotalCount + 1
      BY <1>1, CountedIsList DEF Counted, List
  <2> QED
      BY <2>1 DEF addGdtEntry, List
<1> HIDE DEF a, s
<1>3. /\ DOMAIN Append(s, e) = DOMAIN s \cup {Len(s) + 1}
      /\ Append(s, e)[Len(s) + 1] = e
      /\ \A k \in DOMAIN s : Append(s, e)[k] = s[k]
    BY <1>1
<1>4. IdsIn(a) = rows \cup {e.id}
  <2>1. {s[k].id : k \in DOMAIN s} = rows
      BY DEF HasRows, IdsIn, s
  <2>2. IdsIn(a) = {Append(s, e)[k].id : k \in DOMAIN Append(s, e)}
      BY <1>2 DEF IdsIn
  <2> QED
      BY <1>3, <2>1, <2>2
<1>5. IsFiniteSet(rows) /\ l.mTotalCount = Cardinality(rows)
    BY DEF HasRows
<1>6. /\ IsFiniteSet(rows \cup {e.id})
      /\ Cardinality(rows \cup {e.id}) = Cardinality(rows) + 1
    BY <1>5, FS_AddElement
<1> QED
    BY <1>2, <1>4, <1>5, <1>6 DEF HasRows, a

LEMMA QueryFills ==
    ASSUME CompleteInv, NEW q \in Customer \cup {"all"}, Query(q)
    PROVE  CompleteInv'
<1>1. OrderInv'
    BY QueryOrder DEF CompleteInv
<1>2. /\ query' = q /\ inserts' = inserts /\ gdt_entries' = gdt_entries
      /\ unread' = IF q = "all" THEN Id ELSE RowsOf(q)
      /\ gdtEntries' = [c \in Customer |-> IF c = q THEN EmptyList ELSE NoList]
    BY DEF Query
<1>3. \A c : RowsOf(c)' = RowsOf(c) /\ RowsOf(c) \subseteq Id
    BY <1>2 DEF RowsOf
<1>4. EmptyList # NoList /\ HasRows(EmptyList, {})
    BY EmptyListIsOrdered, NoListAssumption, FS_EmptySet
       DEF HasRows, IdsIn, EmptyList
<1>5. ASSUME NEW c \in Customer PROVE Filled(c)'
  <2>1. CASE c = q
    <3>1. ReadOf(c)' = {} /\ gdtEntries'[c] = EmptyList
        BY <1>2, <1>3, <2>1, LoadingAssumption DEF ReadOf
    <3>2. HasRows(gdtEntries[c], ReadOf(c))'
        BY <1>4, <3>1 DEF HasRows, IdsIn
    <3>3. query' = c /\ gdtEntries'[c] # NoList
        BY <1>2, <1>4, <2>1, <3>1
    <3> QED
        BY <3>2, <3>3 DEF Filled
  <2>2. CASE c # q
    <3>1. gdtEntries'[c] = NoList /\ (q = "all" => ReadOf(c)' = {})
        BY <1>2, <1>3, <2>2 DEF ReadOf
    <3> QED
        BY <1>2, <2>2, <3>1 DEF Filled
  <2> QED
      BY <2>1, <2>2
<1>6. query' # "all" => unread' \subseteq RowsOf(query)'
    BY <1>2, <1>3
<1>7. inserts' \in Nat
    BY <1>2 DEF CompleteInv
<1> QED
    BY <1>1, <1>5, <1>6, <1>7 DEF CompleteInv

LEMMA ReadRowFills ==
    ASSUME CompleteInv, NEW r \in Id, ReadRow(r)
    PROVE  CompleteInv'
<1> DEFINE c == gdt_entries[r].customer
           e == EntryOf(r)
           l == ListFor(c)
<1>1. OrderInv'
    BY ReadRowOrder DEF CompleteInv
<1>2. /\ c \in Customer /\ e \in Entry /\ e.id = r
      /\ r \in unread /\ r \in RowsOf(c) /\ r \notin ReadOf(c)
    BY LoadingAssumption DEF CompleteInv, OrderInv, Row, EntryOf, Entry, ReadRow,
       NextRows, RowsOf, ReadOf
<1>3. /\ gdtEntries' = [gdtEntries EXCEPT ![c] = addGdtEntry(l, e)]
      /\ unread' = unread \ {r} /\ gdt_entries' = gdt_entries /\ loadPc' = loadPc
      /\ loadPc = "rows" /\ query' = query /\ inserts' = inserts
    BY DEF ReadRow
<1>4. \A d : RowsOf(d)' = RowsOf(d)
    BY <1>3 DEF RowsOf
<1>5. ReadOf(c)' = ReadOf(c) \cup {r}
    BY <1>2, <1>3, <1>4 DEF ReadOf
<1>6. \A d \in Customer : d # c => ReadOf(d)' = ReadOf(d)
    BY <1>2, <1>3, <1>4 DEF ReadOf, RowsOf
<1>7. gdtEntries \in [Customer -> List \cup {NoList}]
    BY DEF CompleteInv, OrderInv
<1>8. query = c \/ query = "all"
    BY <1>2, <1>3 DEF CompleteInv, RowsOf
<1>9. ASSUME inserts = 0, NEW d \in Customer PROVE Filled(d)'
  <2>1. Filled(d) /\ Filled(c)
      BY <1>2, <1>3, <1>9 DEF CompleteInv
  <2>2. CASE d = c
    <3>1. l \in List /\ HasRows(l, ReadOf(c))
      <4>1. CASE gdtEntries[c] = NoList
        <5>1. l = EmptyList /\ ReadOf(c) = {}
            BY <1>8, <2>1, <4>1 DEF ListFor, Filled
        <5> QED
            BY <5>1, EmptyListIsOrdered, FS_EmptySet DEF HasRows, IdsIn, EmptyList
      <4>2. CASE gdtEntries[c] # NoList
        <5>1. l = gdtEntries[c]
            BY <4>2 DEF ListFor
        <5> QED
            BY <1>2, <1>7, <2>1, <4>2, <5>1 DEF Filled
      <4> QED
          BY <4>1, <4>2
    <3> HIDE DEF l, e
    <3>2. HasRows(addGdtEntry(l, e), ReadOf(c)')
        BY <1>2, <1>5, <3>1, AddToRows
    <3>3. gdtEntries'[c] = addGdtEntry(l, e) /\ gdtEntries'[c] # NoList
      <4>1. gdtEntries'[c] = addGdtEntry(l, e)
          BY <1>2, <1>3, <1>7
      <4>2. addGdtEntry(l, e) \in List
          BY <1>2, <3>1, AddIsList
      <4> QED
          BY <4>1, <4>2, NoListAssumption
    <3> QED
        BY <1>3, <1>5, <1>8, <2>2, <3>2, <3>3 DEF Filled, HasRows, IdsIn
  <2>3. CASE d # c
    <3>1. gdtEntries'[d] = gdtEntries[d] /\ ReadOf(d)' = ReadOf(d)
        BY <1>3, <1>6, <1>7, <2>3
    <3> QED
        BY <1>3, <2>1, <3>1 DEF Filled, HasRows, IdsIn
  <2> QED
      BY <2>2, <2>3
<1>10. query' # "all" => unread' \subseteq RowsOf(query)'
    BY <1>3, <1>4 DEF CompleteInv
<1>11. inserts' \in Nat
    BY <1>3 DEF CompleteInv
<1> QED
    BY <1>1, <1>3, <1>9, <1>10, <1>11 DEF CompleteInv

LEMMA CompleteStep == CompleteInv /\ [Next]_vars => CompleteInv'
<1> SUFFICES ASSUME CompleteInv, [Next]_vars PROVE CompleteInv'
    OBVIOUS
<1>1. OrderInv'
    BY OrderStep DEF CompleteInv
<1>2. CASE LoadNext
  <2>1. ASSUME NEW r \in Id, RowThrows(r) PROVE CompleteInv'
      BY <1>1, <2>1 DEF RowThrows, CompleteInv
  <2>2. CASE RowsEnd
    <3>1. /\ UNCHANGED <<gdt_entries, query, unread, gdtEntries, inserts>>
          /\ loadPc = "rows" /\ loadPc' = "done"
        BY <2>2 DEF RowsEnd
    <3>2. \A c \in Customer : Filled(c)' = Filled(c)
        BY <3>1 DEF Filled, ReadOf, RowsOf, HasRows, IdsIn
    <3> QED
        BY <1>1, <3>1, <3>2 DEF CompleteInv
  <2>3. ASSUME NEW c \in Customer, NEW id \in NewId, NEW date \in Date,
               Insert(c, id, date)
        PROVE  CompleteInv'
    <3>1. loadPc' = "done" /\ inserts' \in Nat /\ inserts' # 0
        BY <2>3 DEF Insert, CompleteInv
    <3> QED
        BY <1>1, <3>1 DEF CompleteInv
  <2> QED
      BY <1>2, <2>1, <2>2, <2>3, QueryFills, ReadRowFills DEF LoadNext
<1>3. CASE UNCHANGED loadVars
  <2>1. \A c \in Customer : Filled(c)' = Filled(c)
      BY <1>3 DEF loadVars, Filled, ReadOf, RowsOf, HasRows, IdsIn
  <2>2. RowsOf(query)' = RowsOf(query)
      BY <1>3 DEF loadVars, RowsOf
  <2> QED
      BY <1>1, <1>3, <2>1, <2>2 DEF loadVars, CompleteInv
<1> QED
    BY <1>2, <1>3 DEF Next, Load, Show, Failed, vars

\* After either query each customer it is about has a list of exactly the rows
\* of that customer, with their number, and no other customer has one.
THEOREM CompleteLists == Spec => []LoadedListsAreComplete
<1>1. Init => CompleteInv
    BY DEF Init, LoadInit, OrderInv, CompleteInv
<1>2. CompleteInv => LoadedListsAreComplete
  <2> SUFFICES ASSUME CompleteInv, loadPc = "done", inserts = 0, NEW c \in Customer
               PROVE  IF query = c \/ (query = "all" /\ RowsOf(c) # {})
                      THEN gdtEntries[c] # NoList /\ HasRows(gdtEntries[c], RowsOf(c))
                      ELSE gdtEntries[c] = NoList
      BY DEF LoadedListsAreComplete, HasRows
  <2>1. ReadOf(c) = RowsOf(c) /\ Filled(c)
      BY DEF CompleteInv, OrderInv, ReadOf
  <2> QED
      BY <2>1 DEF Filled
<1> QED
    BY <1>1, <1>2, CompleteStep, PTL DEF Spec

-----------------------------------------------------------------------------
(***************************************************************************)
(* Sums of lists. A sum is a recursive function; that there is one and     *)
(* that its values are integers goes by induction on the prefix.           *)
(***************************************************************************)
IsSums(f, s, n) ==
    f = [k \in 0 .. n |-> IF k = 0 THEN 0 ELSE f[k - 1] + s[k].gdt]

LEMMA SumsExist ==
    ASSUME NEW s \in Seq(Entry)
    PROVE  \E f : IsSums(f, s, Len(s))
<1> DEFINE S == {n \in Nat : \E f : IsSums(f, s, n)}
<1>1. 0 \in S
  <2> DEFINE f == [k \in 0 .. 0 |-> 0]
  <2>1. f = [k \in 0 .. 0 |-> IF k = 0 THEN 0 ELSE f[k - 1] + s[k].gdt]
      OBVIOUS
  <2> HIDE DEF f
  <2> QED
      BY <2>1 DEF IsSums
<1>2. ASSUME NEW n \in Nat, n \in S PROVE n + 1 \in S
  <2>1. PICK f : f = [k \in 0 .. n |-> IF k = 0 THEN 0 ELSE f[k - 1] + s[k].gdt]
      BY <1>2 DEF IsSums
  <2> DEFINE g == [k \in 0 .. n + 1 |-> IF k = n + 1 THEN f[n] + s[k].gdt ELSE f[k]]
  <2>2. \A k \in 0 .. n : g[k] = f[k]
      OBVIOUS
  <2>3. \A k \in 0 .. n + 1 : g[k] = IF k = 0 THEN 0 ELSE g[k - 1] + s[k].gdt
    <3> SUFFICES ASSUME NEW k \in 0 .. n + 1
                 PROVE  g[k] = IF k = 0 THEN 0 ELSE g[k - 1] + s[k].gdt
        OBVIOUS
    <3>1. CASE k = n + 1
      <4>1. g[k] = f[n] + s[k].gdt /\ k - 1 = n /\ n \in 0 .. n /\ k # 0
          BY <3>1
      <4>2. g[k - 1] = f[n]
          BY <2>2, <4>1
      <4> HIDE DEF g
      <4> QED
          BY <4>1, <4>2
    <3>2. CASE k # n + 1
      <4>1. k \in 0 .. n /\ (k # 0 => k - 1 \in 0 .. n)
          BY <3>2
      <4>2. g[k] = f[k] /\ (k # 0 => g[k - 1] = f[k - 1])
          BY <2>2, <4>1
      <4>3. f[k] = IF k = 0 THEN 0 ELSE f[k - 1] + s[k].gdt
          BY <2>1, <4>1, Zenon
      <4> HIDE DEF g
      <4> QED
          BY <4>2, <4>3
    <3> QED
        BY <3>1, <3>2
  <2>4. g = [k \in 0 .. n + 1 |-> g[k]]
      OBVIOUS
  <2> HIDE DEF g
  <2>5. IsSums(g, s, n + 1)
      BY <2>3, <2>4, Zenon DEF IsSums
  <2> QED
      BY <2>5
<1> HIDE DEF S
<1>3. Nat \subseteq S
    BY <1>1, <1>2, StepInduction
<1>4. Len(s) \in Nat
    OBVIOUS
<1> QED
    BY <1>3, <1>4 DEF S

\* The equations of Sums.
LEMMA SumsFacts ==
    ASSUME NEW s \in Seq(Entry)
    PROVE  /\ Sums(s)[0] = 0
           /\ \A k \in 1 .. Len(s) : Sums(s)[k] = Sums(s)[k - 1] + s[k].gdt
           /\ \A k \in 0 .. Len(s) : Sums(s)[k] \in Int
<1> DEFINE f == Sums(s)
<1>1. f = [k \in 0 .. Len(s) |-> IF k = 0 THEN 0 ELSE f[k - 1] + s[k].gdt]
    BY SumsExist, Zenon DEF Sums, IsSums
<1> HIDE DEF f
<1>2. Len(s) \in Nat /\ \A k \in 1 .. Len(s) : s[k].gdt \in Int
  <2>1. \A k \in 1 .. Len(s) : s[k] \in Entry
      OBVIOUS
  <2> QED
      BY <2>1, EntryDates
<1>3. \A k \in 0 .. Len(s) : f[k] = IF k = 0 THEN 0 ELSE f[k - 1] + s[k].gdt
    BY <1>1, Zenon
<1>4. f[0] = 0 /\ \A k \in 1 .. Len(s) : f[k] = f[k - 1] + s[k].gdt
    BY <1>2, <1>3
<1> DEFINE S == {n \in Nat : n <= Len(s) => f[n] \in Int}
<1>5. 0 \in S
    BY <1>4
<1>6. ASSUME NEW n \in Nat, n \in S PROVE n + 1 \in S
  <2> SUFFICES ASSUME n + 1 <= Len(s) PROVE f[n + 1] \in Int
      OBVIOUS
  <2>1. n + 1 \in 1 .. Len(s) /\ (n + 1) - 1 = n /\ f[n] \in Int
      BY <1>2, <1>6
  <2>2. f[n + 1] = f[n] + s[n + 1].gdt
      BY <1>4, <2>1
  <2> QED
      BY <1>2, <2>1, <2>2
<1> HIDE DEF S
<1>7. Nat \subseteq S
    BY <1>5, <1>6, StepInduction
<1>8. \A k \in 0 .. Len(s) : f[k] \in Int
    BY <1>2, <1>7 DEF S
<1> QED
    BY <1>4, <1>8 DEF f

\* What the sum of a list becomes if an entry is put somewhere into it.
LEMMA SumOfLonger ==
    ASSUME NEW s \in Seq(Entry), NEW t, NEW e \in Entry,
           NEW f \in 1 .. Len(s) + 1, PutInto(s, f, e, t)
    PROVE  SumOf(t) = SumOf(s) + e.gdt /\ SumOf(s) \in Int
<1> DEFINE a == Sums(s)
           b == Sums(t)
<1> USE DEF PutInto
<1>1. /\ a[0] = 0 /\ \A k \in 1 .. Len(s) : a[k] = a[k - 1] + s[k].gdt
      /\ \A k \in 0 .. Len(s) : a[k] \in Int
    BY SumsFacts
<1>2. /\ b[0] = 0 /\ \A k \in 1 .. Len(s) + 1 : b[k] = b[k - 1] + t[k].gdt
    BY SumsFacts
<1>3. Len(s) \in Nat /\ e.gdt \in Int /\ \A k \in 1 .. Len(s) : s[k].gdt \in Int
  <2>1. \A k \in 1 .. Len(s) : s[k] \in Entry
      OBVIOUS
  <2> QED
      BY <2>1, EntryDates
<1> HIDE DEF a, b
<1> DEFINE S == {n \in Nat : n <= Len(s) + 1 =>
                    b[n] = IF n < f THEN a[n] ELSE a[n - 1] + e.gdt}
<1>4. 0 \in S
    BY <1>1, <1>2
<1>5. ASSUME NEW n \in Nat, n \in S PROVE n + 1 \in S
  <2> SUFFICES ASSUME n + 1 <= Len(s) + 1
               PROVE  b[n + 1] = IF n + 1 < f THEN a[n + 1] ELSE a[n] + e.gdt
    <3>1. (n + 1) - 1 = n
        OBVIOUS
    <3> QED
        BY <3>1
  <2>1. /\ n + 1 \in 1 .. Len(s) + 1 /\ (n + 1) - 1 = n /\ n <= Len(s) + 1
        /\ n \in 0 .. Len(s)
      BY <1>3
  <2>2. b[n + 1] = b[n] + t[n + 1].gdt
      BY <1>2, <2>1
  <2>3. b[n] = IF n < f THEN a[n] ELSE a[n - 1] + e.gdt
      BY <1>5, <2>1
  <2>4. CASE n + 1 < f
    <3>1. n + 1 \in 1 .. Len(s) /\ t[n + 1] = s[n + 1] /\ n < f
        BY <1>3, <2>1, <2>4
    <3>2. a[n + 1] = a[n] + s[n + 1].gdt
        BY <1>1, <2>1, <3>1
    <3> QED
        BY <2>2, <2>3, <2>4, <3>1, <3>2
  <2>5. CASE n + 1 = f
    <3>1. t[n + 1] = e /\ n < f /\ ~(n + 1 < f)
        BY <2>1, <2>5
    <3> QED
        BY <2>2, <2>3, <3>1
  <2>6. CASE n + 1 > f
    <3>1. /\ n \in 1 .. Len(s) /\ t[n + 1] = s[n] /\ ~(n < f) /\ ~(n + 1 < f)
          /\ n - 1 \in 0 .. Len(s)
        BY <1>3, <2>1, <2>6
    <3>2. a[n] = a[n - 1] + s[n].gdt /\ a[n - 1] \in Int /\ s[n].gdt \in Int
        BY <1>1, <1>3, <3>1
    <3>3. b[n + 1] = a[n - 1] + e.gdt + s[n].gdt
        BY <2>2, <2>3, <3>1
    <3> QED
        BY <1>3, <3>1, <3>2, <3>3
  <2> QED
      BY <2>4, <2>5, <2>6
<1> HIDE DEF S
<1>6. Nat \subseteq S
    BY <1>4, <1>5, StepInduction
<1>7. Len(s) + 1 \in S /\ ~(Len(s) + 1 < f) /\ (Len(s) + 1) - 1 = Len(s)
    BY <1>3, <1>6
<1>8. b[Len(s) + 1] = a[Len(s)] + e.gdt
    BY <1>7 DEF S
<1>9. a[Len(s)] \in Int
    BY <1>1, <1>3
<1> QED
    BY <1>8, <1>9 DEF SumOf, a, b

-----------------------------------------------------------------------------
(***************************************************************************)
(* The number and the sum kept beside the entries. Every row read makes    *)
(* one list longer by one, which bounds the lists by the table.            *)
(***************************************************************************)
Totals(l) ==
    /\ l.mTotalCount = Len(l.mGdtEntries)
    /\ l.mTotalGDTSum = SumOf(l.mGdtEntries)

LEMMA EmptyTotals == Totals(EmptyList) /\ EmptyList.mTotalCount = 0
<1>1. <<>> \in Seq(Entry) /\ Len(<<>>) = 0
    OBVIOUS
<1>2. SumOf(<<>>) = 0
    BY <1>1, SumsFacts DEF SumOf
<1> QED
    BY <1>1, <1>2 DEF EmptyList, Totals

\* Counted, and then the entries replaced by those with one more.
LEMMA PutKeepsTotals ==
    ASSUME NEW l \in List, NEW e \in Entry, Totals(l), NEW t,
           NEW f \in 1 .. Len(l.mGdtEntries) + 1, PutInto(l.mGdtEntries, f, e, t)
    PROVE  /\ Totals(WithEntries(l, e, t))
           /\ WithEntries(l, e, t).mTotalCount = l.mTotalCount + 1
<1> DEFINE s == l.mGdtEntries
           w == WithEntries(l, e, t)
<1>1. s \in Seq(Entry) /\ t \in Seq(Entry) /\ Len(t) = Len(s) + 1
    BY DEF List, PutInto
<1>2. SumOf(t) = SumOf(s) + e.gdt
    BY <1>1, SumOfLonger
<1>3. /\ w.mGdtEntries = t /\ w.mTotalCount = l.mTotalCount + 1
      /\ w.mTotalGDTSum = l.mTotalGDTSum + e.gdt
  <2>1. /\ Counted(l, e) \in List /\ Counted(l, e).mTotalCount = l.mTotalCount + 1
        /\ Counted(l, e).mTotalGDTSum = l.mTotalGDTSum + e.gdt
    <3>1. Counted(l, e) \in List
        BY <1>1, CountedIsList
    <3> QED
        BY <3>1 DEF Counted, List
  <2> HIDE DEF s
  <2> QED
      BY <2>1 DEF WithEntries, List
<1> HIDE DEF w
<1> QED
    BY <1>1, <1>2, <1>3 DEF Totals, w

LEMMA AddKeepsTotals ==
    ASSUME NEW l \in List, NEW e \in Entry, Totals(l)
    PROVE  /\ addGdtEntry(l, e) \in List /\ Totals(addGdtEntry(l, e))
           /\ addGdtEntry(l, e).mTotalCount = l.mTotalCount + 1
<1> DEFINE s == l.mGdtEntries
           t == Append(s, e)
<1>1. s \in Seq(Entry) /\ t \in Seq(Entry) /\ Len(s) + 1 \in 1 .. Len(s) + 1
    BY DEF List
<1>2. addGdtEntry(l, e) = WithEntries(l, e, t)
  <2>1. Counted(l, e).mGdtEntries = s
      BY <1>1, CountedIsList
  <2> HIDE DEF s
  <2> QED
      BY <2>1, Zenon DEF addGdtEntry, WithEntries
<1>3. PutInto(s, Len(s) + 1, e, t)
  <2> HIDE DEF s
  <2>1. Len(t) = Len(s) + 1 /\ t[Len(s) + 1] = e /\ \A k \in 1 .. Len(s) : t[k] = s[k]
      BY <1>1
  <2> HIDE DEF t
  <2> QED
      BY <1>1, <2>1 DEF PutInto
<1> HIDE DEF t
<1>4. /\ Totals(WithEntries(l, e, t))
      /\ WithEntries(l, e, t).mTotalCount = l.mTotalCount + 1
    BY <1>1, <1>3, PutKeepsTotals
<1> QED
    BY <1>2, <1>4, AddIsList

LEMMA InsertKeepsTotals ==
    ASSUME NEW l \in List, NEW e \in Entry, Totals(l)
    PROVE  /\ insertGdtEntry(l, e) \in List /\ Totals(insertGdtEntry(l, e))
           /\ insertGdtEntry(l, e).mTotalCount = l.mTotalCount + 1
<1>1. CASE IsLate(l, e)
    BY <1>1, AddKeepsTotals DEF insertGdtEntry
<1>2. CASE ~IsLate(l, e)
  <2> DEFINE s == l.mGdtEntries
             f == FirstNotBefore(s, e.date)
             t == insertGdtEntry(l, e).mGdtEntries
  <2>1. /\ f \in DOMAIN s /\ PutInto(s, f, e, t)
        /\ insertGdtEntry(l, e) \in List
        /\ insertGdtEntry(l, e) = WithEntries(l, e, t)
      BY <1>2, InsertPuts
  <2>2. s \in Seq(Entry)
      BY DEF List
  <2> HIDE DEF f, t
  <2>3. f \in 1 .. Len(s) + 1
      BY <2>1, <2>2
  <2>4. /\ Totals(WithEntries(l, e, t))
        /\ WithEntries(l, e, t).mTotalCount = l.mTotalCount + 1
      BY <2>1, <2>3, PutKeepsTotals
  <2> QED
      BY <2>1, <2>4
<1> QED
    BY <1>1, <1>2

TotalsInv ==
    /\ OrderInv /\ TotalsAgree
    /\ query \in Customer \cup {"all"}
    /\ loadPc \in {"query", "rows", "done", "failed"}
    /\ inserts \in 0 .. MaxInserts
    /\ \A c \in Customer : gdtEntries[c] # NoList =>
          gdtEntries[c].mTotalCount <= Cardinality(Id) - Cardinality(unread) + inserts

\* A query starts with nothing read and with an empty list at most.
LEMMA QueryTotals ==
    ASSUME TotalsInv, NEW q \in Customer \cup {"all"}, Query(q)
    PROVE  TotalsInv'
<1>1. OrderInv'
    BY QueryOrder DEF TotalsInv
<1>2. \A c \in Customer : gdtEntries'[c] # NoList => gdtEntries'[c] = EmptyList
    BY DEF Query
<1>3. Totals(EmptyList) /\ EmptyList.mTotalCount = 0
    BY EmptyTotals
<1>4. unread' \subseteq Id
    BY <1>1 DEF OrderInv
<1>5. /\ IsFiniteSet(Id) /\ Cardinality(unread') \in Nat /\ Cardinality(Id) \in Nat
      /\ Cardinality(unread') <= Cardinality(Id)
    BY <1>4, ListPagesAssumption, FS_Subset, FS_CardinalityType
<1>6. query' = q /\ loadPc' = "rows" /\ inserts' = inserts
    BY DEF Query
<1>7. inserts \in Nat
    BY LoadingAssumption DEF TotalsInv
<1>8. TotalsAgree'
    BY <1>2, <1>3 DEF TotalsAgree, Totals
<1>9. \A c \in Customer : gdtEntries'[c] # NoList =>
          gdtEntries'[c].mTotalCount
              <= Cardinality(Id) - Cardinality(unread') + inserts'
    BY <1>2, <1>3, <1>5, <1>6, <1>7
<1> QED
    BY <1>1, <1>6, <1>8, <1>9 DEF TotalsInv

LEMMA ReadRowTotals ==
    ASSUME TotalsInv, NEW r \in Id, ReadRow(r)
    PROVE  TotalsInv'
<1> DEFINE c == gdt_entries[r].customer
           e == EntryOf(r)
           l == ListFor(c)
           left == Cardinality(Id) - Cardinality(unread)
<1>1. OrderInv'
    BY ReadRowOrder DEF TotalsInv
<1>2. c \in Customer /\ e \in Entry /\ r \in unread /\ unread \subseteq Id
    BY LoadingAssumption DEF TotalsInv, OrderInv, Row, EntryOf, Entry, ReadRow, NextRows
<1>3. /\ gdtEntries' = [gdtEntries EXCEPT ![c] = addGdtEntry(l, e)]
      /\ unread' = unread \ {r} /\ UNCHANGED <<query, loadPc, inserts>>
    BY DEF ReadRow
<1>4. /\ IsFiniteSet(unread) /\ Cardinality(unread) \in Nat /\ Cardinality(Id) \in Nat
      /\ Cardinality(unread) <= Cardinality(Id)
    BY <1>2, ListPagesAssumption, FS_Subset, FS_CardinalityType
<1>5. Cardinality(unread') = Cardinality(unread) - 1
    BY <1>2, <1>3, <1>4, FS_RemoveElement
<1>6. inserts \in Nat /\ gdtEntries \in [Customer -> List \cup {NoList}]
    BY LoadingAssumption DEF TotalsInv, OrderInv
<1>7. l \in List /\ Totals(l) /\ l.mTotalCount <= left + inserts
  <2>1. CASE gdtEntries[c] = NoList
    <3>1. l = EmptyList
        BY <2>1 DEF ListFor
    <3> QED
        BY <1>4, <1>6, <3>1, EmptyListIsOrdered, EmptyTotals
  <2>2. CASE gdtEntries[c] # NoList
    <3>1. l = gdtEntries[c]
        BY <2>2 DEF ListFor
    <3> QED
        BY <1>2, <1>6, <2>2, <3>1 DEF TotalsInv, TotalsAgree, Totals
  <2> QED
      BY <2>1, <2>2
<1> HIDE DEF c, e, l, left
<1> DEFINE a == addGdtEntry(l, e)
<1>8. a \in List /\ Totals(a) /\ a.mTotalCount = l.mTotalCount + 1
    BY <1>2, <1>7, AddKeepsTotals
<1> HIDE DEF a
<1>9. a.mTotalCount <= Cardinality(Id) - Cardinality(unread') + inserts
  <2>1. l.mTotalCount \in Nat
      BY <1>7 DEF List
  <2> QED
      BY <1>4, <1>5, <1>6, <1>7, <1>8, <2>1 DEF left
<1>10. ASSUME NEW d \in Customer
       PROVE  gdtEntries'[d] = IF d = c THEN a ELSE gdtEntries[d]
    BY <1>3, <1>6 DEF a
<1>11. TotalsAgree'
    BY <1>8, <1>10 DEF TotalsInv, TotalsAgree, Totals
<1>12. ASSUME NEW d \in Customer, gdtEntries'[d] # NoList
       PROVE  gdtEntries'[d].mTotalCount
                  <= Cardinality(Id) - Cardinality(unread') + inserts'
  <2>1. CASE d = c
      BY <1>3, <1>9, <1>10, <2>1
  <2>2. CASE d # c
    <3>1. gdtEntries'[d] = gdtEntries[d] /\ gdtEntries[d] \in List
        BY <1>6, <1>10, <1>12, <2>2
    <3>2. gdtEntries[d].mTotalCount <= Cardinality(Id) - Cardinality(unread) + inserts
        BY <1>12, <3>1 DEF TotalsInv
    <3>3. gdtEntries[d].mTotalCount \in Nat
        BY <3>1 DEF List
    <3> QED
        BY <1>3, <1>4, <1>5, <1>6, <3>1, <3>2, <3>3
  <2> QED
      BY <2>1, <2>2
<1> QED
    BY <1>1, <1>3, <1>11, <1>12 DEF TotalsInv

LEMMA InsertTotals ==
    ASSUME TotalsInv, NEW c \in Customer, NEW id \in NewId, NEW date \in Date,
           Insert(c, id, date)
    PROVE  TotalsInv'
<1> DEFINE e == [id |-> id, date |-> date, gdt |-> Gdt[id]]
           l == gdtEntries[c]
<1>1. OrderInv'
    BY InsertOrder DEF TotalsInv
<1>2. e \in Entry
    BY DEF Entry
<1>3. gdtEntries' = [gdtEntries EXCEPT ![c] = insertGdtEntry(l, e)]
    BY Zenon DEF Insert
<1>4. /\ UNCHANGED <<gdt_entries, unread, loadPc, query>>
      /\ l # NoList /\ inserts < MaxInserts /\ inserts' = inserts + 1
    BY DEF Insert
<1>5. /\ inserts \in Nat /\ inserts' \in 0 .. MaxInserts
      /\ gdtEntries \in [Customer -> List \cup {NoList}]
    BY <1>4, LoadingAssumption DEF TotalsInv, OrderInv
<1>6. l \in List /\ Totals(l)
    BY <1>4, <1>5 DEF TotalsInv, TotalsAgree, Totals
<1>7. /\ Cardinality(unread) \in Nat /\ Cardinality(Id) \in Nat
    BY ListPagesAssumption, FS_Subset, FS_CardinalityType DEF TotalsInv, OrderInv
<1>8. \A d \in Customer : gdtEntries[d] # NoList =>
          gdtEntries[d].mTotalCount <= Cardinality(Id) - Cardinality(unread) + inserts
    BY DEF TotalsInv
<1>9. l.mTotalCount <= Cardinality(Id) - Cardinality(unread) + inserts
    BY <1>4, <1>8
<1> HIDE DEF e, l
<1> DEFINE a == insertGdtEntry(l, e)
<1>10. a \in List /\ Totals(a) /\ a.mTotalCount = l.mTotalCount + 1
    BY <1>2, <1>6, InsertKeepsTotals
<1> HIDE DEF a
<1>11. ASSUME NEW d \in Customer
       PROVE  gdtEntries'[d] = IF d = c THEN a ELSE gdtEntries[d]
    BY <1>3, <1>5 DEF a
<1>12. TotalsAgree'
    BY <1>10, <1>11 DEF TotalsInv, TotalsAgree, Totals
<1>13. ASSUME NEW d \in Customer, gdtEntries'[d] # NoList
       PROVE  gdtEntries'[d].mTotalCount
                  <= Cardinality(Id) - Cardinality(unread') + inserts'
  <2>1. CASE d = c
    <3>1. l.mTotalCount \in Nat
        BY <1>6 DEF List
    <3> QED
        BY <1>4, <1>5, <1>7, <1>9, <1>10, <1>11, <2>1, <3>1
  <2>2. CASE d # c
    <3>1. gdtEntries'[d] = gdtEntries[d] /\ gdtEntries[d] \in List
        BY <1>5, <1>11, <1>13, <2>2
    <3>2. gdtEntries[d].mTotalCount \in Nat
        BY <3>1 DEF List
    <3> QED
        BY <1>4, <1>5, <1>7, <1>8, <1>13, <3>1, <3>2
  <2> QED
      BY <2>1, <2>2
<1> QED
    BY <1>1, <1>4, <1>5, <1>12, <1>13 DEF TotalsInv

LEMMA TotalsStep == TotalsInv /\ [Next]_vars => TotalsInv'
<1> SUFFICES ASSUME TotalsInv, [Next]_vars PROVE TotalsInv'
    OBVIOUS
<1>1. OrderInv'
    BY OrderStep DEF TotalsInv
<1>2. CASE LoadNext
  <2>1. ASSUME NEW r \in Id, RowThrows(r) PROVE TotalsInv'
      BY <1>1, <2>1 DEF RowThrows, TotalsInv, TotalsAgree
  <2>2. CASE RowsEnd
      BY <1>1, <2>2 DEF RowsEnd, TotalsInv, TotalsAgree
  <2> QED
      BY <1>2, <2>1, <2>2, QueryTotals, ReadRowTotals, InsertTotals DEF LoadNext
<1>3. CASE UNCHANGED loadVars
    BY <1>1, <1>3 DEF loadVars, TotalsInv, TotalsAgree
<1> QED
    BY <1>2, <1>3 DEF Next, Load, Show, Failed, vars

LEMMA AlwaysTotals == Spec => []TotalsInv
<1>1. Init => TotalsInv
    BY LoadingAssumption DEF Init, LoadInit, OrderInv, TotalsInv, TotalsAgree
<1> QED
    BY <1>1, TotalsStep, PTL DEF Spec

\* The count and the sum beside the entries are always those of the entries,
\* on both ways an entry gets into a list and wherever it is put.
THEOREM ListTotals == Spec => []TotalsAgree
<1>1. TotalsInv => TotalsAgree
    BY DEF TotalsInv
<1> QED
    BY <1>1, AlwaysTotals, PTL

-----------------------------------------------------------------------------
(***************************************************************************)
(* The lists that are shown are lists Paging is about.                     *)
(***************************************************************************)
LEMMA ShowIsPaging == TotalsInv /\ [Next]_vars => [BeginAny \/ PageStep]_pageVars
<1> SUFFICES ASSUME TotalsInv, [Next]_vars PROVE [BeginAny \/ PageStep]_pageVars
    OBVIOUS
<1>1. ASSUME NEW c \in Customer, NEW p \in CInt, NEW n \in CInt,
             NEW o \in {"ASC", "DESC"}, gdtEntries[c] # NoList,
             Begin(gdtEntries[c].mGdtEntries, p, n, o)
      PROVE  BeginAny
  <2> DEFINE l == gdtEntries[c]
             list == l.mGdtEntries
  <2>1. l \in List /\ list \in Seq(Entry) /\ l.mTotalCount = Len(list)
      BY <1>1 DEF TotalsInv, TotalsAgree, OrderInv, List
  <2>2. l.mTotalCount <= Cardinality(Id) - Cardinality(unread) + inserts
      BY <1>1 DEF TotalsInv
  <2>3. /\ Cardinality(unread) \in Nat /\ Cardinality(Id) \in Nat
        /\ inserts \in Nat /\ inserts <= MaxInserts /\ MaxInserts \in Nat
        /\ Cardinality(Id) + MaxInserts <= MaxSize
      BY LoadingAssumption, ListPagesAssumption, FS_Subset, FS_CardinalityType
         DEF TotalsInv, OrderInv
  <2>4. Len(list) <= MaxSize
    <3>1. MaxSize \in Nat /\ Len(list) \in Nat
        BY <2>1, PagingAssumption
    <3> HIDE DEF list, l
    <3> QED
        BY <2>1, <2>2, <2>3, <3>1
  <2>5. list \in Seq(Element)
    <3> HIDE DEF list, l
    <3> QED
        BY <2>1, ListPagesAssumption, SeqMonotonic
  <2> QED
      BY <1>1, <2>4, <2>5 DEF BeginAny
<1> QED
    BY <1>1 DEF Next, Load, Show, Failed, vars

\* What PagingProofs says of pages of any list holds of the pages of lists
\* that have been loaded.
THEOREM ListPagesImplementsPaging == Spec => PagingSpec
<1>1. Init => PageInit
    BY DEF Init
<1> QED
    BY <1>1, ShowIsPaging, AlwaysTotals, PTL DEF Spec, PagingSpec

\* Pages of loaded lists are the right pieces of them, and their iterator
\* stays inside.
THEOREM LoadedPages == Spec => []PageIsRight /\ []IteratorStaysInside
    BY ListPagesImplementsPaging, PagesAreRight, IteratorInside, PTL

\* The variables of loading and of paging keep their types; among the types
\* is that no list grows beyond the table and what is inserted into it.
THEOREM ListTypes == Spec => []TypeOK
<1>1. TotalsInv => LoadTypeOK
    BY DEF TotalsInv, OrderInv, LoadTypeOK
<1>2. LoadTypeOK /\ PageTypeOK => TypeOK
    BY DEF TypeOK
<1> QED
    BY <1>1, <1>2, AlwaysTotals, ListPagesImplementsPaging, PageTypes, PTL

-----------------------------------------------------------------------------
(***************************************************************************)
(* Pages in order. What has been written comes, in the direction asked     *)
(* for, before what the iterator stands at, and the list is ordered: of    *)
(* the product and of where the page begins nothing needs to be known.     *)
(***************************************************************************)
ComesBefore(a, b) == IF order = "ASC" THEN a.date <= b.date ELSE b.date <= a.date

SequenceInv ==
    /\ gdtEntriesList \in Seq(Entry) /\ out \in Seq(Entry)
    /\ \A j, k \in 1 .. Size : j < k => gdtEntriesList[j].date <= gdtEntriesList[k].date
    /\ pagePc = "collect" =>
          \A k \in 1 .. Len(out) : ComesBefore(out[k], gdtEntriesList[it])
    /\ \A j, k \in 1 .. Len(out) : j < k => ComesBefore(out[j], out[k])

LEMMA CollectSequence ==
    ASSUME InsideInv, InsideInv', SequenceInv, Collect
    PROVE  SequenceInv'
<1> DEFINE x == gdtEntriesList[it]
           y == gdtEntriesList[it']
           n == Len(out)
<1>1. /\ gdtEntriesList' = gdtEntriesList /\ Size' = Size /\ order' = order
      /\ out' = Append(out, x)
      /\ pagePc = "collect"
      /\ pagePc' = "collect" => ~AtLast /\ it' = Further
    BY DEF Collect, callVars, Size
<1>2. Size \in Nat /\ n \in Nat /\ it \in 1 .. Size /\ (pagePc' = "collect" => it' \in 1 .. Size)
    BY <1>1 DEF InsideInv, SequenceInv, Size
<1>3. x \in Entry /\ (pagePc' = "collect" => y \in Entry)
    BY <1>2 DEF SequenceInv, Size
<1>4. pagePc' = "collect" => ComesBefore(x, y)
  <2> SUFFICES ASSUME pagePc' = "collect" PROVE ComesBefore(x, y)
      OBVIOUS
  <2>1. CASE order = "ASC"
    <3>1. it' = it + 1 /\ it < it'
        BY <1>1, <1>2, <2>1 DEF Further
    <3> QED
        BY <1>2, <2>1, <3>1 DEF SequenceInv, ComesBefore
  <2>2. CASE order # "ASC"
    <3>1. it' = it - 1 /\ it' < it
        BY <1>1, <1>2, <2>2 DEF Further
    <3> QED
        BY <1>2, <2>2, <3>1 DEF SequenceInv, ComesBefore
  <2> QED
      BY <2>1, <2>2
<1>5. /\ \A k \in 1 .. n : out[k] \in Entry /\ ComesBefore(out[k], x)
      /\ \A j, k \in 1 .. n : j < k => ComesBefore(out[j], out[k])
    BY <1>1 DEF SequenceInv
<1> HIDE DEF x, y
<1>6. /\ out' \in Seq(Entry) /\ Len(out') = n + 1
      /\ \A k \in 1 .. n : out'[k] = out[k]
      /\ out'[n + 1] = x
    BY <1>1, <1>3, AppendProperties DEF SequenceInv
<1> HIDE DEF n
<1>7. \A k \in 1 .. n + 1 : k \in 1 .. n \/ k = n + 1
    BY <1>2
<1>8. \A j, k \in 1 .. n + 1 : j < k => ComesBefore(out'[j], out'[k])
  <2> SUFFICES ASSUME NEW j \in 1 .. n + 1, NEW k \in 1 .. n + 1, j < k
               PROVE  ComesBefore(out'[j], out'[k])
      OBVIOUS
  <2>1. j \in 1 .. n
      BY <1>2
  <2>2. CASE k \in 1 .. n
      BY <1>5, <1>6, <2>1, <2>2
  <2>3. CASE k = n + 1
      BY <1>5, <1>6, <2>1, <2>3
  <2> QED
      BY <1>7, <2>2, <2>3
<1>9. pagePc' = "collect" => \A k \in 1 .. n + 1 : ComesBefore(out'[k], y)
  <2> SUFFICES ASSUME pagePc' = "collect", NEW k \in 1 .. n + 1
               PROVE  ComesBefore(out'[k], y)
      OBVIOUS
  <2>1. CASE k \in 1 .. n
    <3>1. ComesBefore(out[k], x) /\ ComesBefore(x, y)
        BY <1>4, <1>5, <2>1
    <3>2. out[k].date \in Nat /\ x.date \in Nat /\ y.date \in Nat
        BY <1>3, <1>5, <2>1, EntryDates
    <3>3. ComesBefore(out[k], y)
        BY <3>1, <3>2 DEF ComesBefore
    <3> QED
        BY <1>6, <2>1, <3>3
  <2>2. CASE k = n + 1
      BY <1>4, <1>6, <2>2
  <2> QED
      BY <1>7, <2>1, <2>2
<1> QED
    BY <1>1, <1>6, <1>8, <1>9 DEF SequenceInv, ComesBefore, y, Size

LEMMA SequenceStep ==
    ASSUME TotalsInv, InsideInv, InsideInv', SequenceInv, [Next]_vars
    PROVE  SequenceInv'
<1>1. ASSUME NEW c \in Customer, NEW p \in CInt, NEW n \in CInt,
             NEW o \in {"ASC", "DESC"}, gdtEntries[c] # NoList,
             Begin(gdtEntries[c].mGdtEntries, p, n, o)
      PROVE  SequenceInv'
  <2> DEFINE list == gdtEntries[c].mGdtEntries
  <2>1. list \in Seq(Entry) /\ Ordered(gdtEntries[c])
      BY <1>1 DEF TotalsInv, OrderInv, List
  <2>2. DOMAIN list = 1 .. Len(list)
      BY <2>1
  <2>3. \A j, k \in 1 .. Len(list) : j < k => list[j].date <= list[k].date
      BY <2>1, <2>2 DEF Ordered
  <2>4. gdtEntriesList' = list /\ pagePc' = "check" /\ out' = <<>>
      BY <1>1 DEF Begin, InsideInv
  <2> HIDE DEF list
  <2> QED
      BY <2>1, <2>3, <2>4 DEF SequenceInv, Size
<1>2. CASE Check \/ Skip \/ Skipped
  <2>1. /\ out = <<>> /\ out' = <<>> /\ gdtEntriesList' = gdtEntriesList
      BY <1>2 DEF Check, Skip, Skipped, callVars, InsideInv
  <2> QED
      BY <2>1 DEF SequenceInv, Size
<1>3. CASE Collected
    BY <1>3 DEF Collected, callVars, SequenceInv, ComesBefore, Size
<1>4. CASE Return
    BY <1>4 DEF Return, SequenceInv, Size
<1>5. CASE UNCHANGED pageVars
    BY <1>5 DEF pageVars, callVars, SequenceInv, ComesBefore, Size
<1> QED
    BY <1>1, <1>2, <1>3, <1>4, <1>5, CollectSequence
       DEF Next, Load, Show, PageStep, Failed, vars

\* From the table to the client: a page lists its entries by date, in the
\* direction asked for, by whichever query and insertions its list came about
\* and whatever ints were sent, those whose product overflows included.
THEOREM PagesInOrder == Spec => []PageIsInOrder
<1>1. Init => SequenceInv
    BY DEF Init, PageInit, SequenceInv, Size
<1>2. PagingSpec => []InsideInv
    BY AlwaysInside
<1>3. SequenceInv => PageIsInOrder
  <2> SUFFICES ASSUME SequenceInv PROVE PageIsInOrder
      OBVIOUS
  <2>1. DOMAIN out = 1 .. Len(out)
      BY DEF SequenceInv
  <2> QED
      BY <2>1 DEF SequenceInv, ComesBefore, PageIsInOrder
<1> QED
    BY <1>1, <1>2, <1>3, SequenceStep, AlwaysTotals, ListPagesImplementsPaging, PTL
       DEF Spec
=============================================================================
