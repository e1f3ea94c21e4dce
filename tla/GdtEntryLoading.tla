-------------------------- MODULE GdtEntryLoading --------------------------
(***************************************************************************)
(* mysql::GdtEntry: the two queries that fill lists from the table         *)
(* gdt_entries, getAll for every customer at once and getByCustomer for    *)
(* one, row by row.                                                        *)
(***************************************************************************)
EXTENDS GdtEntryList

CONSTANTS
    Customer, NoList,
    Id,          \* the rows
    NewId,       \* entries inserted into a list later
    Gdt,         \* per entry: amount * factor * factor2 + amount2
    UnknownType, \* rows whose gdt_entry_type_id is none of GdtEntryType
    Date,        \* 0: the row has none
    MaxInserts   \* bound on insertions

ASSUME LoadingAssumption ==
    /\ "all" \notin Customer
    /\ Id \cap NewId = {} /\ UnknownType \subseteq Id
    /\ Gdt \in [Id \cup NewId -> Int] /\ Date \subseteq Nat
    /\ MaxInserts \in Nat

Row == [customer : Customer, date : Date]
Entry ==
    [id : Id \cup NewId, date : Date, gdt : {Gdt[k] : k \in Id \cup NewId}]
List == [mGdtEntries : Seq(Entry), mTotalCount : Nat, mTotalGDTSum : Int]

ASSUME NoListAssumption == NoList \notin List

VARIABLES
    gdt_entries,  \* the table
    query,        \* "all" or the customer
    unread,       \* rows of the result not yet read
    gdtEntries,   \* the lists being filled; for getByCustomer only one
    loadPc,
    outOfOrder,   \* the warning of addGdtEntry has been given
    inserts

loadVars == <<gdt_entries, query, unread, gdtEntries, loadPc, outOfOrder,
              inserts>>

LoadTypeOK ==
    /\ gdt_entries \in [Id -> Row]
    /\ query \in Customer \cup {"all"} /\ unread \in SUBSET Id
    /\ gdtEntries \in [Customer -> List \cup {NoList}]
    /\ loadPc \in {"query", "rows", "done", "failed"}
    /\ outOfOrder \in BOOLEAN /\ inserts \in 0 .. MaxInserts

LoadInit ==
    /\ gdt_entries \in [Id -> Row]
    /\ query = "all" /\ unread = {} /\ loadPc = "query"
    /\ gdtEntries = [c \in Customer |-> NoList]
    /\ outOfOrder = FALSE /\ inserts = 0

RowsOf(c) == {r \in Id : gdt_entries[r].customer = c}

\* getByCustomer starts with a list, getAll with an empty map.
Query(q) ==
    /\ loadPc = "query" /\ loadPc' = "rows"
    /\ query' = q
    /\ unread' = IF q = "all" THEN Id ELSE RowsOf(q)
    /\ gdtEntries' = [c \in Customer |-> IF c = q THEN EmptyList ELSE NoList]
    /\ UNCHANGED <<gdt_entries, outOfOrder, inserts>>

NextRowsMutant == unread

\* "order by date ASC", rows without a date first, equal dates in any order.
NextRows ==
    {r \in unread : \A s \in unread : gdt_entries[r].date <= gdt_entries[s].date}

\* getAll words a message for a row without a date, in which naming an unknown
\* type of entry throws.
Unnameable(r) ==
    query = "all" /\ gdt_entries[r].date = 0 /\ r \in UnknownType

EntryOf(r) == [id |-> r, date |-> gdt_entries[r].date, gdt |-> Gdt[r]]

ListForMutant(c) == EmptyList

\* A customer met for the first time gets a new list.
ListFor(c) == IF gdtEntries[c] = NoList THEN EmptyList ELSE gdtEntries[c]

ReadRow(r) ==
    /\ loadPc = "rows" /\ r \in NextRows /\ ~Unnameable(r)
    /\ unread' = unread \ {r}
    /\ LET c == gdt_entries[r].customer
           l == ListFor(c)
       IN  /\ gdtEntries' = [gdtEntries EXCEPT ![c] = addGdtEntry(l, EntryOf(r))]
           /\ outOfOrder' = (outOfOrder \/ ~IsLate(l, EntryOf(r)))
    /\ UNCHANGED <<gdt_entries, query, loadPc, inserts>>

RowThrows(r) ==
    /\ loadPc = "rows" /\ loadPc' = "failed"
    /\ r \in NextRows /\ Unnameable(r)
    /\ unread' = {}
    /\ gdtEntries' = [c \in Customer |-> NoList]
    /\ UNCHANGED <<gdt_entries, query, outOfOrder, inserts>>

RowsEnd ==
    /\ loadPc = "rows" /\ unread = {}
    /\ loadPc' = "done"
    /\ UNCHANGED <<gdt_entries, query, unread, gdtEntries, outOfOrder, inserts>>

\* insertGdtEntry, offered by the class; the program does not call it yet.
Insert(c, id, date) ==
    /\ loadPc = "done" /\ gdtEntries[c] # NoList
    /\ inserts < MaxInserts /\ inserts' = inserts + 1
    /\ gdtEntries' = [gdtEntries EXCEPT ![c] =
          insertGdtEntry(@, [id |-> id, date |-> date, gdt |-> Gdt[id]])]
    /\ UNCHANGED <<gdt_entries, query, unread, loadPc, outOfOrder>>

LoadNext ==
    \/ \E q \in Customer \cup {"all"} : Query(q)
    \/ \E r \in Id : ReadRow(r) \/ RowThrows(r)
    \/ RowsEnd
    \/ \E c \in Customer, id \in NewId, date \in Date : Insert(c, id, date)

-----------------------------------------------------------------------------
(***************************************************************************)
(* Properties.                                                             *)
(***************************************************************************)
IdsIn(l) == {l.mGdtEntries[i].id : i \in DOMAIN l.mGdtEntries}

\* What the first k entries are worth together.
Sums(s) ==
    LET sum[k \in 0 .. Len(s)] == IF k = 0 THEN 0 ELSE sum[k - 1] + s[k].gdt
    IN  sum

SumOf(s) == Sums(s)[Len(s)]

\* Either query leaves a customer with a list of exactly the rows of that
\* customer, each once and whatever was read in between for others; a row that
\* aborts the query of everything is no obstacle to the query of one customer.
LoadedListsAreComplete ==
    loadPc = "done" /\ inserts = 0 =>
        \A c \in Customer :
            IF query = c \/ (query = "all" /\ RowsOf(c) # {})
            THEN /\ gdtEntries[c] # NoList
                 /\ IdsIn(gdtEntries[c]) = RowsOf(c)
                 /\ gdtEntries[c].mTotalCount = Cardinality(RowsOf(c))
            ELSE gdtEntries[c] = NoList

\* The count and the sum kept beside the entries are those of the entries, on
\* both ways an entry gets into a list.
TotalsAgree ==
    \A c \in Customer : gdtEntries[c] # NoList =>
        /\ gdtEntries[c].mTotalCount = Len(gdtEntries[c].mGdtEntries)
        /\ gdtEntries[c].mTotalGDTSum = SumOf(gdtEntries[c].mGdtEntries)

\* "compare dates and insert where it is in order": lists are in the order of
\* dates unless there was a warning, and the queries give no cause for one.
ListsAreOrdered ==
    /\ ~outOfOrder
    /\ \A c \in Customer : gdtEntries[c] # NoList => Ordered(gdtEntries[c])
=============================================================================
