----------------------------- MODULE PatchList -----------------------------
(***************************************************************************)
(* What the operations of one PATCH request do to one multi-valued         *)
(* attribute (pkg/patch).  An operation reads and writes the document in   *)
(* place; the engine keeps, from one operation to the next, an index of    *)
(* the values the attribute holds, one per spelling of its name, and two   *)
(* budgets.  A refused operation ends the request and its document is      *)
(* discarded (service.patched).                                            *)
(*                                                                         *)
(* An element is the record of what the engine tells apart in it: `id`,    *)
(* the key of value.Identity ("value" with "type"; None when it has none), *)
(* `primary`, and `lock`, an immutable sub-attribute (the type of a group  *)
(* member).  A simple value is an element with only an id.  A value filter *)
(* is the set of elements it accepts, with the number of its clauses.      *)
(***************************************************************************)
EXTENDS Integers, Sequences, FiniteSets, SequencesExt, Selections

CONSTANTS
    None,            \* a value that is not there
    Null,            \* an immutable sub-attribute that is given as null
    Ids,             \* identities
    Locks,           \* values of the immutable sub-attribute
    Spellings,       \* ways of writing the attribute's name, which has no case
    Attributes,      \* the attribute definitions to consider
    Held(_),         \* the lists a stored resource may hold for a definition
    Incoming(_),     \* the lists a client may send for a definition
    Clauses,         \* the clause counts of value filters
    MaxEvaluations,  \* Limits.MaxFilterEvaluations; zero lifts it
    MaxWriteBytes,   \* Limits.MaxWriteBytes, in elements and fields written
    MaxOps,          \* bound: operations of the request
    MaxLen           \* bound: values the attribute ever holds

(* An attribute definition: whether it declares sub-attributes (value.KeyedByIdentity), *)
(* whether its type is simple, and its characteristics.                                *)
Definition == [keyed : BOOLEAN, simple : BOOLEAN, immutable : BOOLEAN, required : BOOLEAN]

Element == [id : Ids \cup {None}, primary : BOOLEAN, lock : Locks \cup {None, Null}]

Primaries(s) == {i \in DOMAIN s : s[i].primary}

(* A simple value has only an id, and a list that was stored passed conforms. *)
ASSUME PatchAssumption ==
    /\ None \notin Ids \cup Locks \cup Element
    /\ Null \notin Locks \cup {None}
    /\ Attributes \subseteq Definition
    /\ \A a \in Attributes : ~ (a.keyed /\ a.simple)
    /\ Clauses \subseteq Nat \ {0}
    /\ {MaxEvaluations, MaxWriteBytes, MaxOps, MaxLen} \subseteq Nat
    /\ \A a \in Attributes : \A s \in Held(a) \cup Incoming(a) :
          /\ s \in Seq(Element)
          /\ a.simple => \A i \in DOMAIN s : ~ s[i].primary
    /\ \A a \in Attributes : \A s \in Held(a) : Cardinality(Primaries(s)) <= 1

VARIABLES
    attr,       \* the definition of the attribute
    list,       \* its elements; a missing attribute is an empty list
    indexes,    \* patcher.indexes, by spelling
    bill,       \* the budget, and the work it is there to bound
    status,     \* "open", "done", or why the request was refused
    ops,        \* operations applied so far
    contested,  \* history: the last promotion named several elements
    repeated    \* history: the list was stored with repeats, or a filter renamed values

vars == <<attr, list, indexes, bill, status, ops, contested, repeated>>

----------------------------------------------------------------------------
(* Sets of values (value.Set) and the index over a list.                   *)

(* The key under which a set holds an element: its identity, or all of it. *)
Key(a, e) == IF a.keyed THEN e.id ELSE e

keysOf(a, s) == {Key(a, s[i]) : i \in DOMAIN s} \ {None}

(* Set.promotePrimary: a keyed element takes over `primary` from a repeat. *)
joined(a, s) ==
    [i \in DOMAIN s |->
        IF a.keyed /\ s[i].id # None
        THEN [s[i] EXCEPT !.primary = \E j \in i .. Len(s) : s[j].id = s[i].id /\ s[j].primary]
        ELSE s[i]]

(* Set.admit: the first of equal elements is kept.                         *)
firsts(a, s) ==
    {i \in DOMAIN s : Key(a, s[i]) # None => \A j \in 1 .. i - 1 : Key(a, s[j]) # Key(a, s[i])}

Unique(a, s) == Selected(joined(a, s), firsts(a, s))

newIndex(a, s) == [keys |-> keysOf(a, s), size |-> Len(s), primaries |-> Primaries(s)]

NoIndex == [keys |-> {}, size |-> -1, primaries |-> {}]

Cleared == [sp \in Spellings |-> NoIndex]

(* The cached index is used whatever has been written since.               *)
lookupAnySize(sp) == IF indexes[sp].size >= 0 THEN indexes[sp] ELSE newIndex(attr, list)

(* indexCache.lookup: an index of another size is stale.                   *)
lookup(sp) ==
    IF indexes[sp].size = Len(list) THEN indexes[sp] ELSE newIndex(attr, list)

fresh(ix, incoming) ==
    Selected(incoming, {i \in DOMAIN incoming : Key(attr, incoming[i]) \notin ix.keys})

promotes(s) == Primaries(s) # {}

(* demote: elements outside `written` stop being primary.                  *)
demote(s, written) ==
    [i \in DOMAIN s |-> IF i \in written THEN s[i] ELSE [s[i] EXCEPT !.primary = FALSE]]

(* The index is extended whatever the set is keyed by.                     *)
recordAlways(sp, ix, added) ==
    [indexes EXCEPT ![sp] =
            [keys      |-> ix.keys \cup keysOf(attr, added),
             size      |-> ix.size + Len(added),
             primaries |-> IF promotes(added)
                           THEN {ix.size + i : i \in Primaries(added)} ELSE ix.primaries]]

(* listAdd.record: the index over `before` covers what was appended.  When *)
(* a promotion has rewritten elements that are held by their whole value,  *)
(* every index is dropped.                                                 *)
record(sp, ix, added) ==
    IF promotes(added) /\ ~ attr.keyed THEN Cleared
    ELSE [indexes EXCEPT ![sp] =
            [keys      |-> ix.keys \cup keysOf(attr, added),
             size      |-> ix.size + Len(added),
             primaries |-> IF promotes(added)
                           THEN {ix.size + i : i \in Primaries(added)} ELSE ix.primaries]]

----------------------------------------------------------------------------
(* The budgets: a charge is made before the work it pays for.              *)

(* Each operation has the whole budget to itself.                          *)
chargeEach(b, n) == [b EXCEPT !.spent = n]

charge(b, n) == [b EXCEPT !.spent = @ + n]

chargeBytes(b, n) == [b EXCEPT !.output = @ + n]

overdrawn(b) ==
    \/ MaxEvaluations > 0 /\ b.spent > MaxEvaluations
    \/ MaxWriteBytes > 0 /\ b.output > MaxWriteBytes

checking(b, n) == [b EXCEPT !.checked = @ + n]
writing(b, n) == [b EXCEPT !.written = @ + n]

----------------------------------------------------------------------------
(* Mutability (merger.go, target.go).                                      *)

(* Only additions are refused.                                             *)
refusesGrowth(after) == attr.immutable /\ list # <<>> /\ Len(after) > Len(list)

(* gateImmutableWrite on the whole list.                                   *)
refusesList(after) == attr.immutable /\ list # <<>> /\ after # list

(* gateImmutableWrite on the immutable sub-attribute of one element.       *)
refusesLock(e, lock) == e.lock \in Locks /\ lock # e.lock

(* What replaces the list is what the client sent.                         *)
carryNothing(s) == s

(* carryForward: an element that replaces one of the same identity keeps   *)
(* the immutable sub-attribute it leaves out, not one that it gives as     *)
(* null or as another value.                                               *)
First(s, id) == s[CHOOSE i \in DOMAIN s : s[i].id = id /\ \A j \in 1 .. i - 1 : s[j].id # id]

carryForward(s) ==
    [i \in DOMAIN s |->
        IF attr.keyed /\ s[i].lock = None /\ s[i].id \in keysOf(attr, list)
        THEN [s[i] EXCEPT !.lock = First(list, s[i].id).lock] ELSE s[i]]

----------------------------------------------------------------------------
(* How an operation ends.                                                  *)

Open == status = "open" /\ ops < MaxOps

Refuse(why, b) ==
    /\ status' = why
    /\ bill' = b
    /\ ops' = ops + 1
    /\ UNCHANGED <<attr, list, indexes, contested, repeated>>

(* The operation took effect: `promoted` are the elements it made primary. *)
Apply(after, ix, b, promoted) ==
    /\ Len(after) <= MaxLen
    /\ list' = after
    /\ indexes' = ix
    /\ bill' = b
    /\ contested' = (Cardinality(promoted) > 1 \/ (promoted = {} /\ contested))
    /\ ops' = ops + 1
    /\ UNCHANGED <<attr, status>>

(* A value filter of so many clauses matches the elements it accepts.      *)
Charged(clauses) == charge(bill, clauses * Len(list))
Checked(clauses) == checking(Charged(clauses), clauses * Len(list))
matches(accepted) == {i \in DOMAIN list : list[i] \in accepted}

(* Filters compare sub-attributes, or the value of a simple attribute: a   *)
(* definition with neither has no valid filter (matcher.resolve).          *)
Filterable == attr.keyed \/ attr.simple

----------------------------------------------------------------------------
(* The operations.                                                         *)

(* {"op": "add", "path": "<attribute>", "value": [...]}                    *)
Add(sp, incoming) ==
    LET b     == chargeBytes(bill, Len(incoming))
        ix    == lookup(sp)
        added == Unique(attr, fresh(ix, incoming))
        kept  == IF promotes(added) THEN demote(list, DOMAIN list \ ix.primaries) ELSE list
    IN  /\ Open
        /\ \/ overdrawn(b) /\ Refuse("tooLarge", b)
           \/ ~ overdrawn(b) /\ refusesList(list \o added) /\ Refuse("mutability", b)
           \/ /\ ~ overdrawn(b)
              /\ ~ refusesList(list \o added)
              /\ Apply(kept \o added, record(sp, ix, added),
                       writing(b, Len(added)), Primaries(added))
              /\ UNCHANGED repeated

(* {"op": "replace", "path": "<attribute>", "value": [...]}                *)
Replace(incoming) ==
    LET b     == chargeBytes(bill, Len(incoming))
        after == Unique(attr, incoming)
    IN  /\ Open
        /\ \/ overdrawn(b) /\ Refuse("tooLarge", b)
           \/ ~ overdrawn(b) /\ refusesList(after) /\ Refuse("mutability", b)
           \/ /\ ~ overdrawn(b)
              /\ ~ refusesList(after)
              /\ Apply(carryForward(after), Cleared, writing(b, Len(after)), Primaries(after))
              /\ repeated' = FALSE

(* merger.merge: the fields of `change` are written to an element.         *)
merge(e, change) == [f \in DOMAIN e |-> IF f \in DOMAIN change THEN change[f] ELSE e[f]]

(* {"op": "add" or "replace", "path": "<attribute>[<filter>]", "value":    *)
(* {...}}, or a sub-attribute of the elements the filter selects: the      *)
(* fields of `change` are written to each, the others left as they are.    *)
PutMatching(accepted, clauses, change) ==
    LET m       == matches(accepted)
        b       == chargeBytes(Checked(clauses), Cardinality(m) * Cardinality(DOMAIN change))
        put     == [i \in DOMAIN list |-> IF i \in m THEN merge(list[i], change) ELSE list[i]]
        promote == "primary" \in DOMAIN change /\ change.primary
    IN  /\ Open
        /\ attr.keyed
        /\ \/ overdrawn(Charged(clauses)) /\ Refuse("tooLarge", Charged(clauses))
           \/ ~ overdrawn(Charged(clauses)) /\ m = {} /\ Refuse("noTarget", Checked(clauses))
           \/ ~ overdrawn(Charged(clauses)) /\ m # {} /\ overdrawn(b) /\ Refuse("tooLarge", b)
           \/ /\ m # {} /\ ~ overdrawn(b)
              /\ \E i \in m : "lock" \in DOMAIN change /\ refusesLock(list[i], change.lock)
              /\ Refuse("mutability", b)
           \/ /\ m # {} /\ ~ overdrawn(b)
              /\ \A i \in m : "lock" \in DOMAIN change => ~ refusesLock(list[i], change.lock)
              /\ Apply(IF promote THEN demote(put, m) ELSE put, Cleared,
                       writing(b, Cardinality(m) * Cardinality(DOMAIN change)),
                       IF promote THEN m ELSE {})
              /\ repeated' = (repeated \/ "id" \in DOMAIN change)

(* Every value selected becomes v, and stays.                              *)
substituteEach(m, v) == [i \in DOMAIN list |-> IF i \in m THEN v ELSE list[i]]

(* {"op": "replace", "path": "<attribute>[<filter>]", "value": v} on a     *)
(* simple attribute: the first value selected becomes v and the others go, *)
(* all of them when v is held outside the selection (replacer.substitute). *)
substitute(m, v) ==
    LET keeps == \E i \in DOMAIN list \ m : list[i] = v
        gone  == IF keeps THEN m ELSE {i \in m : \E j \in m : j < i}
    IN  Selected(substituteEach(m, v), DOMAIN list \ gone)

ReplaceMatching(accepted, clauses, v) ==
    LET m     == matches(accepted)
        b     == chargeBytes(Checked(clauses), 1)
        after == substitute(m, v)
    IN  /\ Open
        /\ attr.simple
        /\ \/ overdrawn(Charged(clauses)) /\ Refuse("tooLarge", Charged(clauses))
           \/ ~ overdrawn(Charged(clauses)) /\ m = {} /\ Refuse("noTarget", Checked(clauses))
           \/ ~ overdrawn(Charged(clauses)) /\ m # {} /\ overdrawn(b) /\ Refuse("tooLarge", b)
           \/ m # {} /\ ~ overdrawn(b) /\ refusesList(after) /\ Refuse("mutability", b)
           \/ /\ m # {} /\ ~ overdrawn(b) /\ ~ refusesList(after)
              /\ Apply(after, Cleared, writing(b, 1), {})
              /\ UNCHANGED repeated

(* An operation the engine cannot aim: "add" to selected simple values, or *)
(* a write to a sub-attribute of every element without a filter.           *)
Unaimed ==
    /\ Open
    /\ Filterable
    /\ Refuse("invalidPath", bill)

(* {"op": "remove", "path": "<attribute>[<filter>]"}                       *)
RemoveMatching(accepted, clauses) ==
    LET m    == matches(accepted)
        rest == Selected(list, DOMAIN list \ m)
    IN  /\ Open
        /\ Filterable
        /\ \/ overdrawn(Charged(clauses)) /\ Refuse("tooLarge", Charged(clauses))
           \/ /\ ~ overdrawn(Charged(clauses)) /\ m # {}
              /\ (attr.required /\ rest = <<>>) \/ refusesList(rest)
              /\ Refuse("mutability", Checked(clauses))
           \/ /\ ~ overdrawn(Charged(clauses))
              /\ m # {} => ~ (attr.required /\ rest = <<>>) /\ ~ refusesList(rest)
              /\ Apply(rest, Cleared, Checked(clauses), {})
              /\ UNCHANGED repeated

(* {"op": "remove", "path": "<attribute>"}                                 *)
RemoveAll ==
    /\ Open
    /\ \/ /\ list # <<>>
          /\ attr.required \/ attr.immutable
          /\ Refuse("mutability", bill)
       \/ /\ list = <<>> \/ ~ (attr.required \/ attr.immutable)
          /\ Apply(<<>>, Cleared, bill, {})
          /\ UNCHANGED repeated

(* {"op": "remove", "path": "<attribute>[<filter>].<sub>"}; without a      *)
(* filter every element is a target, no work is charged, and an empty list *)
(* (unlike a missing one) is refused.                                      *)
RemoveSub(filtered, accepted, clauses, field) ==
    LET m   == IF filtered THEN matches(accepted) ELSE DOMAIN list
        b   == IF filtered THEN Charged(clauses) ELSE bill
        cut == [i \in DOMAIN list |->
                  IF i \in m THEN [list[i] EXCEPT ![field] = IF field = "primary" THEN FALSE ELSE None]
                  ELSE list[i]]
    IN  /\ Open
        /\ attr.keyed
        /\ \/ overdrawn(b) /\ Refuse("tooLarge", b)
           \/ ~ filtered /\ list = <<>> /\ Refuse("noTarget", bill)
           \/ /\ ~ overdrawn(b)
              /\ field = "lock" /\ \E i \in m : refusesLock(list[i], None)
              /\ Refuse("mutability", IF filtered THEN Checked(clauses) ELSE bill)
           \/ /\ ~ overdrawn(b)
              /\ field = "lock" => \A i \in m : ~ refusesLock(list[i], None)
              /\ Apply(cut, Cleared, IF filtered THEN Checked(clauses) ELSE bill, {})
              /\ UNCHANGED repeated

(* The last operation is done: the service admits the document, unless two *)
(* elements are primary (conforms) or a required list is empty.            *)
Finish ==
    /\ status = "open"
    /\ ops > 0
    /\ status' = IF Cardinality(Primaries(list)) > 1 \/ (attr.required /\ list = <<>>)
                 THEN "invalidValue" ELSE "done"
    /\ UNCHANGED <<attr, list, indexes, bill, ops, contested, repeated>>

----------------------------------------------------------------------------
Changes ==
    {[primary |-> TRUE], [primary |-> FALSE]}
        \cup {[lock |-> k] : k \in Locks \cup {Null}}
        \cup {[id |-> v, primary |-> TRUE] : v \in Ids}
        \cup {[id |-> v] : v \in Ids}

Repeats(a, s) == \E i, j \in DOMAIN s : i # j /\ Key(a, s[i]) # None /\ Key(a, s[i]) = Key(a, s[j])

Init ==
    /\ attr \in Attributes
    /\ list \in Held(attr)
    /\ indexes = Cleared
    /\ bill = [spent |-> 0, output |-> 0, checked |-> 0, written |-> 0]
    /\ status = "open"
    /\ ops = 0
    /\ contested = FALSE
    /\ repeated = Repeats(attr, list)

Filtered ==
    \E accepted \in SUBSET ToSet(list), clauses \in Clauses :
        \/ \E change \in Changes : PutMatching(accepted, clauses, change)
        \/ \E v \in Ids :
              ReplaceMatching(accepted, clauses, [id |-> v, primary |-> FALSE, lock |-> None])
        \/ RemoveMatching(accepted, clauses)
        \/ \E field \in {"id", "primary", "lock"} : RemoveSub(TRUE, accepted, clauses, field)

Next ==
    \/ \E incoming \in Incoming(attr) : \/ \E sp \in Spellings : Add(sp, incoming)
                                        \/ Replace(incoming)
    \/ Filtered
    \/ RemoveAll
    \/ \E field \in {"id", "primary", "lock"} : RemoveSub(FALSE, {}, 0, field)
    \/ Unaimed
    \/ Finish

Spec == Init /\ [][Next]_vars

----------------------------------------------------------------------------
(* Properties.                                                             *)

(* An index that lookup would use describes the list as it is: the keys,   *)
(* the size and the primary elements, whatever the earlier operations did  *)
(* and under whichever spelling (index.go, listAdd.record).                *)
IndexExact ==
    \A sp \in Spellings :
        indexes[sp].size = Len(list) => indexes[sp] = newIndex(attr, list)

(* Promotion leaves one primary element: two are primary only when one     *)
(* operation named both, never because an earlier one was left standing    *)
(* (listAdd.demoteIfPromoted; RFC 7644 3.5.2).                             *)
OnePrimary == Cardinality(Primaries(list)) > 1 => contested

(* No operation repeats a value the attribute holds: a repeat was stored,  *)
(* or a filter gave two elements the same value (target.fresh,             *)
(* value.Unique, replacer.keeps).                                          *)
NoRepeats == Filterable /\ ~ repeated => ~ Repeats(attr, list)

(* An immutable attribute that holds values keeps them, through every      *)
(* operation (merger.go, RFC 7643 section 7).                              *)
ImmutableListKept == [][attr.immutable /\ list # <<>> => list' = list]_vars

(* An element stays in the list, but not with its immutable sub-attribute. *)
Relocked(i, j) ==
    /\ attr.keyed /\ ~ repeated /\ ~ repeated'
    /\ list[i].id # None /\ list[i].id = list'[j].id
    /\ list[i].lock \in Locks /\ list'[j].lock # list[i].lock

(* What a client states for an element of a list it sends.                 *)
States(incoming, id, lock) == \E k \in DOMAIN incoming : incoming[k].id = id /\ incoming[k].lock = lock

(* An element that stays in the list keeps its immutable sub-attribute     *)
(* when a request leaves it out, and whatever a value filter selects: only *)
(* a replacement of the whole list changes it, and only to what the client *)
(* states for that element, another value or null (carryForward,           *)
(* gateImmutableWrite).  That it may is what LockMatches is about.         *)
LockKept ==
    [][\A i \in DOMAIN list, j \in DOMAIN list' :
          Relocked(i, j) =>
              /\ list'[j].lock # None
              /\ \E incoming \in Incoming(attr) :
                    Replace(incoming) /\ States(incoming, list'[j].id, list'[j].lock)]_vars

(* An element that stays in the list keeps its immutable sub-attribute,    *)
(* through every operation: "immutable values MUST match" (carryforward.go *)
(* carryForward, on a replacement of the whole list).                      *)
LockMatches == [][\A i \in DOMAIN list, j \in DOMAIN list' : ~ Relocked(i, j)]_vars

(* The work done for a request stays within its budgets, the operation     *)
(* that is refused for them included (budget.go).                          *)
WorkWithinBudget ==
    /\ MaxEvaluations > 0 => bill.checked <= MaxEvaluations
    /\ MaxWriteBytes > 0 => bill.written <= MaxWriteBytes

=============================================================================
