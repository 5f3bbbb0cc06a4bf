----------------------------- MODULE StationList -----------------------------
(***************************************************************************)
(* station.Handler.List: the public list, paged by the database when it is *)
(* in name order, and ranked and paged by the handler when it is sorted by *)
(* listeners, whose counts only the poller's cache has.  A client walks    *)
(* through the pages as long as has_more tells it to.  Names need not be   *)
(* unique, and every request is a query of its own.                        *)
(***************************************************************************)
EXTENDS Naturals, Sequences, FiniteSets

CONSTANTS
    ScanLimit,  \* listenersScanLimit: 1000 in the code
    MaxRows,    \* bound on the stations that match
    Names,      \* station names, as numbers in their order
    Counts,     \* listener counts; 0 for a station the poller knows nothing of
    Limits      \* page sizes a client asks for

ASSUME ListAssumption ==
    /\ ScanLimit \in Nat /\ MaxRows \in Nat
    /\ Names \subseteq Nat /\ Counts \subseteq Nat /\ Limits \subseteq Nat \ {0}

VARIABLES
    rows,           \* the matching stations: name and listener count
    byListeners,    \* sort=listeners
    limit, offset,  \* of the request at hand
    shown,          \* the stations the client has been given, by their number in rows
    more            \* has_more of the last answer

listVars == <<rows, byListeners, limit, offset, shown, more>>

Matching == DOMAIN rows

\* Stations are numbered by name, those of one name among themselves anyhow.
ListInit ==
    /\ rows \in UNION {[1..n -> [name : Names, count : Counts]] : n \in 0..MaxRows}
    /\ \A i, j \in Matching : i < j => rows[i].name <= rows[j].name
    /\ byListeners \in BOOLEAN
    /\ limit \in Limits
    /\ offset = 0
    /\ shown = <<>>
    /\ more = TRUE

AtMost(m, n) == IF m <= n THEN m ELSE n

\* What ORDER BY name may return: equal names come in any order.
NameOrders ==
    {o \in [Matching -> Matching] :
        \A p, q \in Matching : p < q => o[p] # o[q] /\ rows[o[p]].name <= rows[o[q]].name}

\* SELECT ... ORDER BY name LIMIT lim OFFSET off, the rows taken in the order o.
ListPublic(o, lim, off) == SubSeq(o, off + 1, AtMost(off + lim, Len(rows)))

pageOf(items, off, lim) ==
    IF off >= Len(items) THEN <<>> ELSE SubSeq(items, off + 1, AtMost(off + lim, Len(items)))

\* sort.SliceStable by descending count, as the place each item comes from: there
\* is one such permutation.
StableSorts(items) ==
    {q \in [DOMAIN items -> DOMAIN items] :
        \A i, j \in DOMAIN items :
            i < j => LET ci == rows[items[q[i]]].count
                         cj == rows[items[q[j]]].count
                     IN  ci > cj \/ (ci = cj /\ q[i] < q[j])}

SortByListeners(items, q) == [i \in DOMAIN items |-> items[q[i]]]

\* The answers to a request whose query returns the order o.
Pages(o) ==
    IF byListeners
    THEN LET scan == ListPublic(o, ScanLimit, 0)
         IN  {pageOf(SortByListeners(scan, q), offset, limit) : q \in StableSorts(scan)}
    ELSE {ListPublic(o, limit, offset)}

\* Mutant: has_more against the match count for every sort.
HasMore_Total == offset + limit < Len(rows)

HasMore == offset + limit < (IF byListeners THEN AtMost(ScanLimit, Len(rows)) ELSE Len(rows))

\* One request, and the client moves on to the next offset.
List ==
    /\ more
    /\ \E o \in NameOrders : \E page \in Pages(o) : shown' = shown \o page
    /\ more' = HasMore
    /\ offset' = offset + limit
    /\ UNCHANGED <<rows, byListeners, limit>>

ListSpec == ListInit /\ [][List]_listVars

-----------------------------------------------------------------------------
\* How far the list goes, and the stations that every scan has, or some scan may
\* have: they differ only for a name that the scan limit cuts through.
Pageable == IF byListeners THEN ScanLimit ELSE Len(rows)
Sure  == {i \in Matching : Cardinality({j \in Matching : rows[j].name <= rows[i].name}) <= Pageable}
Maybe == {i \in Matching : Cardinality({j \in Matching : rows[j].name < rows[i].name}) < Pageable}

\* In the order that was asked for, j comes before i whatever the database does.
Before(j, i) ==
    \/ byListeners /\ rows[j].count > rows[i].count
    \/ (byListeners => rows[j].count = rows[i].count) /\ rows[j].name < rows[i].name

\* A station may stand at place p: all that are sure to come before it have room
\* there, and enough may come before it to fill the places.
MayStandAt(i, p) ==
    /\ i \in Maybe
    /\ Cardinality({j \in Sure : Before(j, i)}) < p
    /\ p <= Cardinality({j \in Maybe : ~Before(i, j)})

(* The pages a client walks are the top of the whole list, not of a page of *)
(* it.  Although each request is a query of its own and rows with one name  *)
(* come in any order, every place holds a station that may stand there      *)
(* (exactly one can when no two stations have the same name, so that each   *)
(* is shown once), a page never repeats a station, and has_more promises no *)
(* page "this endpoint will only ever answer empty" and misses none.        *)
PagesHonest ==
    /\ Len(shown) <= AtMost(Pageable, Len(rows))
    /\ \A p \in DOMAIN shown : MayStandAt(shown[p], p)
    /\ \A p, q \in DOMAIN shown : p + limit > offset /\ p < q => shown[p] # shown[q]
    /\ ~more => Len(shown) = AtMost(Pageable, Len(rows))
    /\ (more /\ offset > 0) => offset < AtMost(Pageable, Len(rows))
=============================================================================
