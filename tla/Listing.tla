------------------------------ MODULE Listing ------------------------------
(***************************************************************************)
(* Queries: the limits on a request (pkg/protocol, limits.go), the filter, *)
(* sort and page of the store (internal/memory, query.go and sort.go), and *)
(* a client that walks the pages of one query while others write.  Each    *)
(* List runs under the store's mutex; nothing is kept between two pages.   *)
(*                                                                         *)
(* An id is compared as a number.  A resource holds an attribute of each   *)
(* kind that sortBy tells apart: `title` is singular, `emails` is a list   *)
(* of objects, sorted by one of two sub-attributes, and `tags` is a list   *)
(* of simple values.  A filter is the set of the resources it accepts.     *)
(***************************************************************************)
EXTENDS Integers, Sequences, FiniteSets, SequencesExt

CONSTANTS
    RowIds,       \* resource ids, numbers in the order of the strings
    Rows,         \* what a resource may hold
    Absent,       \* what an id without a resource holds
    Queries,      \* what clients ask: filter, sortBy, descending, startIndex, count
    MaxCount,     \* Limits.MaxCount
    MaxWrites     \* bound: writes in all

\* Keys are numbers, those of booleans false before true.
Missing == 0
No == 1
Yes == 2

\* A simple value is an element that is no object; `primary` may be left out.
Element == [object : BOOLEAN, value : Nat, primary : {Missing, No, Yes}]

\* Emails stand for emails.value (SortAttribute); a query may also ask for no order.
SortBy == {"none", "title", "value", "primary", "tags"}

\* A list has at most one primary element: characteristics.go, and PatchList.
ASSUME ListingAssumption ==
    /\ RowIds \subseteq Nat /\ IsFiniteSet(RowIds)
    /\ Rows \subseteq [title : Nat, emails : Seq(Element), tags : Seq(Element)] /\ Absent \notin Rows
    /\ \A row \in Rows :
          /\ \A k \in 1..Len(row.emails) : row.emails[k].object
          /\ \A k \in 1..Len(row.tags) : ~row.tags[k].object
          /\ \A k, l \in 1..Len(row.emails) : row.emails[k].primary = Yes /\ row.emails[l].primary = Yes => k = l
    /\ MaxCount \in Nat /\ MaxWrites \in Nat
    /\ \A q \in Queries : /\ q.filter \subseteq Rows /\ q.startIndex \in Int /\ q.count \in Int
                          /\ q.sortBy \in SortBy /\ q.descending \in BOOLEAN

VARIABLES
    table,        \* the resources of one type
    allotted,     \* ids that were ever held
    writes,       \* how many writes there were
    walk          \* the client: its query, the pages it got, and what it should have got

listingVars == <<table, allotted, writes, walk>>

-----------------------------------------------------------------------------
(* limits.go, search_request.go *)

\* normalize
StartIndex(q) == IF q.startIndex < 1 THEN 1 ELSE q.startIndex

Count(q) == LET asked == IF q.count < 0 THEN 0 ELSE q.count
            IN  IF asked < MaxCount THEN asked ELSE MaxCount

\* Mutant: startIndex is taken as zero-based.
OffsetZeroBased(startIndex) == startIndex

Offset(startIndex) == (IF startIndex < 1 THEN 1 ELSE startIndex) - 1

-----------------------------------------------------------------------------
(* sort.go *)

\* Mutant: the first element, primary or not.
firstElement(list) == list[1]

\* The primary element of a list that has one, or else the first one.
primaryOrFirst(list) ==
    LET primaries == {k \in 1..Len(list) : list[k].object /\ list[k].primary = Yes}
    IN  IF primaries = {} THEN list[1]
        ELSE list[CHOOSE k \in primaries : \A l \in primaries : k <= l]

\* Negative when a sorts before b.
compareKeys(a, b) ==
    CASE a = Missing /\ b = Missing -> 0
      [] a = Missing /\ b # Missing -> 1
      [] a # Missing /\ b = Missing -> -1
      [] OTHER -> a - b

\* value.Defaulted: a `primary` that is missing counts as false, whatever it is missing from.
Defaulted(by, a) == IF by = "primary" /\ a = Missing THEN No ELSE a

compareAscending(by, a, b) == compareKeys(Defaulted(by, a), Defaulted(by, b))

compareSortKeys(by, a, b, descending) ==
    IF descending THEN -compareAscending(by, a, b) ELSE compareAscending(by, a, b)

(* query.go *)

\* AsObject(element).Get(name): a simple value is no object and has nothing under any name.
Lookup(element, name) ==
    CASE ~element.object -> Missing
      [] element.object /\ name = "primary" -> element.primary
      [] OTHER -> element.value

sortKey(by, row) ==
    LET list == IF by = "tags" THEN row.tags ELSE row.emails
    IN  IF by = "title" THEN row.title
        ELSE IF list = <<>> THEN Missing
        ELSE Lookup(primaryOrFirst(list), by)

idsOf == {i \in RowIds : table[i] # Absent}

matching(q) == {i \in idsOf : table[i] \in q.filter}

\* The rows are in the order of their ids, and then stably sorted by their keys.
sortsBefore(q, i, j) ==
    LET c == IF q.sortBy = "none" THEN 0
             ELSE compareSortKeys(q.sortBy, sortKey(q.sortBy, table[i]), sortKey(q.sortBy, table[j]), q.descending)
    IN  c < 0 \/ (c = 0 /\ i < j)

Before(q, i) == {j \in matching(q) : sortsBefore(q, j, i)}

sorted(q) ==
    [k \in 1..Cardinality(matching(q)) |-> CHOOSE i \in matching(q) : Cardinality(Before(q, i)) = k - 1]

page(q, startIndex) ==
    LET rows == sorted(q)
        start == IF Offset(startIndex) < Len(rows) THEN Offset(startIndex) ELSE Len(rows)
        left == Len(rows) - start
    IN  SubSeq(rows, start + 1, start + (IF Count(q) < left THEN Count(q) ELSE left))

-----------------------------------------------------------------------------
(* The writers.  Any table can be there when a walk starts, so the writes  *)
(* that matter are the ones during the walk.                               *)

NoWalk == [query |-> Absent, next |-> 1, page |-> <<>>, total |-> 0, got |-> <<>>,
           due |-> {}, shrunk |-> FALSE, wrote |-> FALSE, phase |-> "idle"]

\* An id is allotted before the store is locked, so ids need not arrive in order.
Add(i, row) ==
    /\ walk.phase = "walking"
    /\ i \notin allotted
    /\ writes < MaxWrites
    /\ table' = [table EXCEPT ![i] = row]
    /\ allotted' = allotted \cup {i}
    /\ writes' = writes + 1
    /\ walk' = [walk EXCEPT !.wrote = TRUE]

\* An update, or with Absent a delete.
Change(i, row) ==
    /\ walk.phase = "walking"
    /\ table[i] # Absent
    /\ writes < MaxWrites
    /\ table' = [table EXCEPT ![i] = row]
    /\ writes' = writes + 1
    /\ walk' = [walk EXCEPT !.wrote = TRUE, !.shrunk = TRUE]
    /\ UNCHANGED allotted

(* The client. *)

Start(q) ==
    /\ walk.phase = "idle"
    /\ walk' = [NoWalk EXCEPT !.query = q, !.next = StartIndex(q), !.phase = "walking",
                              !.due = matching(q)]
    /\ UNCHANGED <<table, allotted, writes>>

\* One List call; the client goes on after the last item it got, until it has seen the total.
NextPage ==
    LET q == walk.query
        items == page(q, walk.next)
        total == Cardinality(matching(q))
    IN  /\ walk.phase = "walking"
        /\ walk' = [walk EXCEPT
             !.page = items, !.total = total, !.got = @ \o items,
             !.next = @ + Len(items),
             !.phase = IF items = <<>> \/ walk.next + Len(items) > total THEN "done" ELSE @]
        /\ UNCHANGED <<table, allotted, writes>>

-----------------------------------------------------------------------------
ListingInit ==
    /\ table \in [RowIds -> Rows \cup {Absent}]
    /\ allotted = idsOf
    /\ writes = 0
    /\ walk = NoWalk

ListingNext ==
    \/ \E i \in RowIds, row \in Rows : Add(i, row)
    \/ \E i \in RowIds, row \in Rows \cup {Absent} : Change(i, row)
    \/ \E q \in Queries : Start(q)
    \/ NextPage

ListingSpec == ListingInit /\ [][ListingNext]_listingVars
-----------------------------------------------------------------------------
(* Properties. *)

\* What is sorted by, without an algorithm: at most one value.
KeysOf(by, row) ==
    LET emails == row.emails
        shown == IF \E k \in 1..Len(emails) : emails[k].primary = Yes
                 THEN {k \in 1..Len(emails) : emails[k].primary = Yes}
                 ELSE {1} \cap 1..Len(emails)
    IN  CASE by = "title" -> {row.title} \ {Missing}
          [] by = "value" -> {emails[k].value : k \in shown} \ {Missing}
          [] by = "primary" -> {IF \E k \in 1..Len(emails) : emails[k].primary = Yes THEN Yes ELSE No}
          [] OTHER -> {}

\* One row before another.
Precedes(q, i, j) ==
    LET a == KeysOf(q.sortBy, table[i])
        b == KeysOf(q.sortBy, table[j])
    IN  IF q.descending
        THEN (a = {} /\ b # {}) \/ (\E x \in a, y \in b : x > y)
        ELSE (a # {} /\ b = {}) \/ (\E x \in a, y \in b : x < y)

(***************************************************************************)
(* When nobody writes, a walk from the first page gives every match once,  *)
(* and in the order that the code gives it.  A list of objects sorts by    *)
(* the value of its primary element or else of its first, and resources    *)
(* without one come last when ascending and first when descending.  For    *)
(* `primary` no resource is without a value: it is true of those with a    *)
(* primary element, and false of all others, also of those with no element *)
(* at all.  By a list of simple values nothing is sorted: the rows are in  *)
(* the order of their ids, as all rows are that compare as equal           *)
(* (query.go sorted, sortKey and page, sort.go).                           *)
(***************************************************************************)
QuietWalkExact ==
    walk.phase = "done" /\ ~walk.wrote /\ walk.query.startIndex <= 1 /\ Count(walk.query) > 0 =>
        LET q == walk.query
            got == walk.got
        IN  /\ ToSet(got) = matching(q)
            /\ Len(got) = Cardinality(matching(q))
            /\ \A k, l \in 1..Len(got) :
                  k < l => /\ ~Precedes(q, got[l], got[k])
                           /\ Precedes(q, got[k], got[l]) \/ got[k] < got[l]

(***************************************************************************)
(* Resources that are created during a walk may make a client see another  *)
(* one twice, but never make it miss one that matched from the start: only *)
(* updates and deletes can do that (entries.go idsOf, query.go page).      *)
(***************************************************************************)
CreatesHideNothing ==
    walk.phase = "done" /\ ~walk.shrunk /\ walk.query.startIndex <= 1 /\ Count(walk.query) > 0 =>
        walk.due \subseteq ToSet(walk.got)
=============================================================================
